------------------------- MODULE Rex3DisplayProofs -------------------------
(***************************************************************************)
(* Proofs about Rex3Display: the refresh thread's fence orders its frame   *)
(* after the draws queued before the fence, for every ring size, every     *)
(* number of draws and mode writes, and every modulus of the fence counter *)
(* that is more than twice the number of fences under way.                 *)
(***************************************************************************)
EXTENDS Rex3Display, Integers, FiniteSetTheorems, TLAPS

-----------------------------------------------------------------------------
(* Arithmetic of a wrapping counter *)

\* Quotients that differ are a whole modulus apart.
LEMMA Apart ==
  ASSUME NEW m \in Nat, NEW q \in Int, NEW r \in Int, q < r, m > 0
  PROVE  m * q + m <= m * r
  <1>1. q + 1 <= r OBVIOUS
  <1>2. m * (q + 1) <= m * r BY <1>1, SMT
  <1>3. m * (q + 1) = m * q + m BY SMT
  <1> QED BY <1>2, <1>3, Zenon

\* Division with remainder.
LEMMA Division ==
  ASSUME NEW x \in Int, NEW m \in Nat \ {0}
  PROVE  \E q \in Int, r \in 0 .. m - 1 : r = x % m /\ x = m * q + r
  BY SMT

\* The remainder is the only one.
LEMMA Remainder ==
  ASSUME NEW x \in Int, NEW m \in Nat \ {0}, NEW q \in Int, NEW r \in 0 .. m - 1, x = m * q + r
  PROVE  x % m = r
  <1>1. PICK p \in Int, s \in 0 .. m - 1 : s = x % m /\ x = m * p + s BY Division
  <1>2. ~ (p < q) BY <1>1, Apart
  <1>3. ~ (q < p) BY <1>1, Apart
  <1> QED BY <1>1, <1>2, <1>3

\* Counting modulo m counts.
LEMMA Wrap ==
  ASSUME NEW x \in Int, NEW m \in Nat \ {0}
  PROVE  ((x % m) + 1) % m = (x + 1) % m
  <1>1. PICK p \in Int, s \in 0 .. m - 1 : s = x % m /\ x = m * p + s BY Division, Zenon
  <1>2. CASE s + 1 \in 0 .. m - 1
    <2>1. x + 1 = m * p + (s + 1) /\ x + 1 \in Int /\ s + 1 \in Int BY <1>1
    <2>2. (x + 1) % m = s + 1 BY <2>1, <1>2, Remainder, Zenon
    <2>3. s + 1 = m * 0 + (s + 1) /\ 0 \in Int OBVIOUS
    <2>4. (s + 1) % m = s + 1 BY <2>1, <2>3, <1>2, Remainder, Zenon
    <2> QED BY <1>1, <2>2, <2>4
  <1>3. CASE s + 1 = m
    <2>1. x + 1 = m * (p + 1) + 0
      <3>1. \A z \in Int : x = z + s => x + 1 = (z + m) + 0 BY <1>3
      <3>2. m * p \in Int /\ m * (p + 1) = m * p + m BY SMT
      <3> QED BY <3>1, <3>2, <1>1, Zenon
    <2>2. p + 1 \in Int /\ 0 \in 0 .. m - 1 /\ x + 1 \in Int /\ s + 1 \in Int /\ 1 \in Int BY <1>1
    <2>3. (x + 1) % m = 0 BY <2>1, <2>2, Remainder, Zenon
    <2>4. s + 1 = m * 1 + 0 BY <1>3
    <2>5. (s + 1) % m = 0 BY <2>4, <2>2, Remainder, Zenon
    <2> QED BY <1>1, <2>3, <2>5
  <1>4. s + 1 \in 0 .. m - 1 \/ s + 1 = m OBVIOUS
  <1> QED BY <1>2, <1>3, <1>4

\* The wrapped distance to a count that is d ahead.
LEMMA Ahead ==
  ASSUME NEW a \in Int, NEW b \in Int, NEW m \in Nat \ {0}, NEW d \in 1 .. m - 1, b = a + d
  PROVE  ((a % m) + m - (b % m)) % m = m - d
  <1>1. PICK p \in Int, s \in 0 .. m - 1 : s = a % m /\ a = m * p + s BY Division, Zenon
  <1>2. PICK q \in Int, t \in 0 .. m - 1 : t = b % m /\ b = m * q + t BY Division
  <1>3. m * q + t = m * p + s + d BY <1>1, <1>2
  <1>4. m * (p + 1) = m * p + m BY SMT
  <1>5. q = p \/ q = p + 1
    <2>1. ~ (q < p) BY <1>3, Apart
    <2>2. ~ (p + 1 < q) BY <1>3, <1>4, Apart
    <2> QED BY <2>1, <2>2
  <1>6. s + m - t \in Int /\ 0 \in Int /\ 1 \in Int /\ m - d \in 0 .. m - 1 OBVIOUS
  <1>7. CASE q = p
    <2>1. s + m - t = m * 0 + (m - d) BY <1>3, <1>7
    <2>2. (s + m - t) % m = m - d BY <2>1, <1>6, Remainder, Zenon
    <2> QED BY <2>2, <1>1, <1>2, Zenon
  <1>8. CASE q = p + 1
    <2>1. s + m - t = m * 1 + (m - d) BY <1>3, <1>8, <1>4
    <2>2. (s + m - t) % m = m - d BY <2>1, <1>6, Remainder, Zenon
    <2> QED BY <2>2, <1>1, <1>2, Zenon
  <1> QED BY <1>5, <1>7, <1>8

\* Two counts less than m apart that wrap alike are equal.
LEMMA SameWrap ==
  ASSUME NEW a \in Int, NEW b \in Int, NEW m \in Nat \ {0}, a <= b, b - a < m, a % m = b % m
  PROVE  a = b
  <1>1. PICK p \in Int, s \in 0 .. m - 1 : s = a % m /\ a = m * p + s BY Division, Zenon
  <1>2. PICK q \in Int, t \in 0 .. m - 1 : t = b % m /\ b = m * q + t BY Division, Zenon
  <1>3. s = t BY <1>1, <1>2
  <1>4. ~ (q < p) BY <1>1, <1>2, <1>3, Apart
  <1>5. ~ (p < q) BY <1>1, <1>2, <1>3, Apart
  <1> QED BY <1>1, <1>2, <1>3, <1>4, <1>5

-----------------------------------------------------------------------------
(* Counting the entries of the ring *)

\* What the ring holds.
Entries == {Draw} \cup {DispSync(f) : f \in 0 .. FenceMod - 1}

\* How many of the first i entries of s have operation p.
Upto(s, i, p) == Cardinality({k \in 1 .. i : s[k].op = p})

\* A count is between nothing and everything.
LEMMA UptoType ==
  ASSUME NEW s, NEW i \in Nat, NEW p
  PROVE  /\ IsFiniteSet({k \in 1 .. i : s[k].op = p})
         /\ Upto(s, i, p) \in 0 .. i
  <1> DEFINE A == {k \in 1 .. i : s[k].op = p}
  <1>1. IsFiniteSet(1 .. i) /\ Cardinality(1 .. i) = i BY FS_Interval
  <1>2. A \in SUBSET (1 .. i) OBVIOUS
  <1>3. IsFiniteSet(A) /\ Cardinality(A) <= i BY <1>1, <1>2, FS_Subset
  <1>4. Cardinality(A) \in Nat BY <1>3, FS_CardinalityType
  <1> QED BY <1>3, <1>4 DEF Upto

\* It is a number.
LEMMA UptoNat ==
  ASSUME NEW s, NEW i \in Nat, NEW p
  PROVE  Upto(s, i, p) \in Nat
  <1>1. Upto(s, i, p) \in 0 .. i BY UptoType, Zenon
  <1> QED BY <1>1

\* Nothing is counted before the first entry.
LEMMA UptoZero ==
  ASSUME NEW s, NEW p
  PROVE  Upto(s, 0, p) = 0
  <1>1. Upto(s, 0, p) \in 0 .. 0 
    <2>1. 0 \in Nat OBVIOUS
    <2> QED BY <2>1, UptoType, Zenon
  <1> QED BY <1>1

\* One more entry.
LEMMA UptoNext ==
  ASSUME NEW s, NEW i \in Nat, NEW p
  PROVE  Upto(s, i + 1, p) = Upto(s, i, p) + (IF s[i + 1].op = p THEN 1 ELSE 0)
  <1> DEFINE A == {k \in 1 .. i : s[k].op = p}
             B == {k \in 1 .. i + 1 : s[k].op = p}
  <1>1. IsFiniteSet(A) /\ Cardinality(A) \in Nat
    <2>1. IsFiniteSet(A) 
      <3>1. IsFiniteSet(1 .. i) /\ A \in SUBSET (1 .. i) BY FS_Interval
      <3> HIDE DEF A
      <3> QED BY <3>1, FS_Subset, Zenon
    <2> HIDE DEF A
    <2> QED BY <2>1, FS_CardinalityType
  <1>2. i + 1 \notin A OBVIOUS
  <1>3. CASE s[i + 1].op = p
    <2>1. B = A \cup {i + 1} BY <1>3
    <2>2. Cardinality(A \cup {i + 1}) = Cardinality(A) + 1 BY <1>1, <1>2, FS_AddElement, Zenon
    <2> QED BY <2>1, <2>2, <1>3, Zenon DEF Upto
  <1>4. CASE s[i + 1].op # p
    <2>1. B = A BY <1>4
    <2> QED BY <2>1, <1>4, <1>1 DEF Upto
  <1> QED BY <1>3, <1>4

\* The count looks at the first i entries only.
LEMMA UptoSame ==
  ASSUME NEW s, NEW t, NEW i \in Nat, NEW p, \A k \in 1 .. i : s[k] = t[k]
  PROVE  Upto(s, i, p) = Upto(t, i, p)
  <1>1. {k \in 1 .. i : s[k].op = p} = {k \in 1 .. i : t[k].op = p} OBVIOUS
  <1> QED BY <1>1, Zenon DEF Upto

\* What a push adds.
LEMMA UptoAppend ==
  ASSUME NEW s \in Seq(Entries), NEW e \in Entries, NEW p
  PROVE  /\ Append(s, e) \in Seq(Entries) /\ Len(Append(s, e)) = Len(s) + 1
         /\ \A i \in 0 .. Len(s) : Upto(Append(s, e), i, p) = Upto(s, i, p)
         /\ Upto(Append(s, e), Len(s) + 1, p)
              = Upto(s, Len(s), p) + (IF e.op = p THEN 1 ELSE 0)
  <1> DEFINE t == Append(s, e)
  <1>1. t \in Seq(Entries) /\ Len(t) = Len(s) + 1 /\ t[Len(s) + 1] = e /\ \A k \in 1 .. Len(s) : t[k] = s[k]
    OBVIOUS
  <1>2. ASSUME NEW i \in 0 .. Len(s) PROVE Upto(t, i, p) = Upto(s, i, p)
    <2>1. i \in Nat /\ \A k \in 1 .. i : t[k] = s[k] BY <1>1
    <2> HIDE DEF t
    <2> QED BY <2>1, UptoSame
  <1>3. Len(s) \in Nat OBVIOUS
  <1>4. Upto(t, Len(s), p) = Upto(s, Len(s), p) BY <1>2, <1>3
  <1>5. Upto(t, Len(s) + 1, p) = Upto(t, Len(s), p) + (IF t[Len(s) + 1].op = p THEN 1 ELSE 0)
    BY <1>3, UptoNext, Zenon
  <1> QED BY <1>1, <1>2, <1>4, <1>5

\* What taking the head takes away.
LEMMA UptoTail ==
  ASSUME NEW s \in Seq(Entries), s # <<>>, NEW p
  PROVE  /\ Tail(s) \in Seq(Entries) /\ Len(Tail(s)) = Len(s) - 1
         /\ \A i \in 1 .. Len(Tail(s)) : Tail(s)[i] = s[i + 1]
         /\ \A i \in 0 .. Len(Tail(s)) :
              Upto(s, i + 1, p) = Upto(Tail(s), i, p) + (IF Head(s).op = p THEN 1 ELSE 0)
  <1> DEFINE t == Tail(s)
  <1>1. t \in Seq(Entries) /\ Len(t) = Len(s) - 1 /\ Head(s) = s[1] /\ Len(s) \in Nat \ {0}
        /\ \A i \in 1 .. Len(t) : t[i] = s[i + 1]
    OBVIOUS
  <1>2. ASSUME NEW i \in 0 .. Len(t)
        PROVE  Upto(s, i + 1, p) = Upto(t, i, p) + (IF Head(s).op = p THEN 1 ELSE 0)
    <2> DEFINE A == {k \in 1 .. i : t[k].op = p}
               B == {k \in 2 .. i + 1 : s[k].op = p}
               f == [k \in A |-> k + 1]
    <2>1. i \in Nat /\ i \in Int /\ \A k \in 1 .. i : t[k] = s[k + 1] BY <1>1
    <2>2. f \in Bijection(A, B)
      <3>1. f \in [A -> B] BY <2>1
      <3>2. \A a, b \in A : f[a] = f[b] => a = b OBVIOUS
      <3>3. \A b \in B : \E a \in A : f[a] = b
        <4>1. ASSUME NEW b \in B PROVE b - 1 \in A /\ f[b - 1] = b
          <5>1. b - 1 \in 1 .. i /\ (b - 1) + 1 = b BY <2>1
          <5>2. t[b - 1] = s[b] BY <2>1, <5>1
          <5>3. b - 1 \in A BY <5>1, <5>2
          <5> QED BY <5>1, <5>3
        <4> QED BY <4>1, Zenon
      <3>4. DOMAIN f = A OBVIOUS
      <3> HIDE DEF A, B, f
      <3> QED BY <3>1, <3>2, <3>3, <3>4 DEF Bijection, Injection, Surjection, IsInjective
    <2>3. IsFiniteSet(A) /\ Cardinality(A) \in Nat
      <3>1. IsFiniteSet(A) BY <2>1, UptoType, Zenon
      <3> HIDE DEF A
      <3> QED BY <3>1, FS_CardinalityType
    <2>4. IsFiniteSet(B) /\ Cardinality(B) = Cardinality(A)
      <3>1. ExistsBijection(A, B) BY <2>2 DEF ExistsBijection
      <3> HIDE DEF A, B
      <3> QED BY <3>1, <2>3, FS_Bijection
    <2>5. CASE Head(s).op = p
      <3>1. {k \in 1 .. i + 1 : s[k].op = p} = B \cup {1} BY <2>5, <1>1, <2>1
      <3>2. 1 \notin B OBVIOUS
      <3>3. Cardinality(B \cup {1}) = Cardinality(B) + 1 BY <2>4, <3>2, FS_AddElement, Zenon
      <3>4. Upto(s, i + 1, p) = Cardinality(A) + 1 BY <3>1, <3>3, <2>4, Zenon DEF Upto
      <3>5. Upto(t, i, p) = Cardinality(A) BY DEF Upto
      <3> QED BY <3>4, <3>5, <2>5, Zenon
    <2>6. CASE Head(s).op # p
      <3>1. {k \in 1 .. i + 1 : s[k].op = p} = B BY <2>6, <1>1, <2>1
      <3>2. Upto(s, i + 1, p) = Cardinality(A) BY <3>1, <2>4, Zenon DEF Upto
      <3>3. Upto(t, i, p) = Cardinality(A) BY DEF Upto
      <3> HIDE DEF A
      <3> QED BY <3>2, <3>3, <2>3, <2>6
    <2> QED BY <2>5, <2>6
  <1> QED BY <1>1, <1>2

-----------------------------------------------------------------------------
(* The invariant *)

\* Fences the guest has counted, has queued, and the consumer has executed.
Counted == IF apc = "fence" THEN mode - 1 ELSE mode
Queued == IF apc = "sync" THEN Counted - 1 ELSE Counted
Executed == Queued - Upto(fifo, Len(fifo), "sync")

\* Whoever has executed the ring as far as the n-th fence has executed d draws.
Owes(n, d) ==
  \A i \in 0 .. Len(fifo) :
    n <= Executed + Upto(fifo, i, "sync") => d <= drawn + Upto(fifo, i, "draw")

Waited == rpc \in {"palette", "swap", "status_bar", "copy_fb"}

\* What the ring holds accounts for the draws and the fences that were pushed
\* and not executed, and the counters are those numbers, wrapped.
RingOK ==
  /\ apc \in {"fence", "sync"} => mode >= 1
  /\ kpc = "execute" => fifo # <<>>
  /\ pushed = drawn + Upto(fifo, Len(fifo), "draw")
  /\ Executed >= 0
  /\ xmap_fence = Counted % FenceMod
  /\ \A k \in 1 .. Len(fifo) :
       fifo[k].op = "sync" => fifo[k].val = (Executed + Upto(fifo, k, "sync")) % FenceMod
  /\ ~forced => gfifo_fence = Executed % FenceMod

\* The n-th fence is the one a frame waits for: it orders the draws the frame
\* is owed, and once the wait is over it has been executed.
WaitOK(n) ==
  /\ n <= Counted /\ target = n % FenceMod /\ Owes(n, owed)
  /\ Waited /\ ~forced => n <= Executed

DisplayInv ==
  /\ TypeOK /\ RingOK
  /\ need <= pushed /\ owed <= pushed /\ Owes(Counted, need)
  /\ \E n \in 0 .. MaxModes : WaitOK(n)

-----------------------------------------------------------------------------
(* The numbers of fences *)

\* The longer part of the ring holds as many.
LEMMA UptoMono ==
  ASSUME NEW s, NEW i \in Nat, NEW j \in Nat, i <= j, NEW p
  PROVE  Upto(s, i, p) <= Upto(s, j, p)
  <1> DEFINE A == {k \in 1 .. i : s[k].op = p}
             B == {k \in 1 .. j : s[k].op = p}
  <1>1. A \in SUBSET B OBVIOUS
  <1>2. IsFiniteSet(1 .. j) /\ B \in SUBSET (1 .. j) BY FS_Interval
  <1>3. Upto(s, i, p) = Cardinality(A) /\ Upto(s, j, p) = Cardinality(B) BY DEF Upto
  <1> HIDE DEF A, B
  <1>4. IsFiniteSet(B) BY <1>2, FS_Subset, Zenon
  <1>5. Cardinality(A) <= Cardinality(B) BY <1>1, <1>4, FS_Subset
  <1> QED BY <1>3, <1>5

\* The ring is a sequence of draws and fences.
LEMMA RingType ==
  ASSUME TypeOK
  PROVE  /\ fifo \in Seq(Entries) /\ Len(fifo) \in Nat /\ Len(fifo) <= Cap /\ Cap \in Nat
         /\ \A k \in 1 .. Len(fifo) : fifo[k].op \in {"draw", "sync"} /\ fifo[k].val \in 0 .. FenceMod - 1
  <1>1. fifo \in Seq(Entries) /\ Len(fifo) \in Nat /\ Len(fifo) <= Cap /\ Cap \in Nat
    BY DisplayBounds DEF TypeOK, RingTypeOK, RefreshTypeOK, Entries
  <1>2. \A e \in Entries : e.op \in {"draw", "sync"} /\ e.val \in 0 .. FenceMod - 1
    BY FenceAssumption, DisplayBounds DEF Entries, Draw, DispSync
  <1>3. \A k \in 1 .. Len(fifo) : fifo[k] \in Entries BY <1>1
  <1> QED BY <1>1, <1>2, <1>3

\* At most one fence is counted and not queued, and at most Cap are queued.
LEMMA Numbers ==
  ASSUME TypeOK, RingOK
  PROVE  /\ Counted \in Nat /\ Queued \in Nat /\ Executed \in Nat
         /\ Queued <= Counted /\ Counted <= Queued + 1
         /\ Executed + Upto(fifo, Len(fifo), "sync") = Queued /\ Queued <= Executed + Cap
         /\ \A i \in 0 .. Len(fifo) : Executed + Upto(fifo, i, "sync") <= Queued
         /\ FenceMod \in Nat \ {0} /\ 2 * (Cap + 1) < FenceMod /\ Cap \in Nat
  <1>1. Len(fifo) \in Nat /\ Len(fifo) <= Cap /\ Cap \in Nat BY RingType
  <1>2. Upto(fifo, Len(fifo), "sync") \in 0 .. Len(fifo) BY <1>1, UptoType, Zenon
  <1>3. mode \in Nat /\ Executed >= 0 /\ (apc \in {"fence", "sync"} => mode >= 1)
    BY DisplayBounds DEF TypeOK, RingTypeOK, RefreshTypeOK, RingOK
  <1>4. Counted \in Nat /\ Queued \in Int /\ Queued <= Counted /\ Counted <= Queued + 1
    BY <1>3 DEF Counted, Queued
  <1>5. Executed \in Nat /\ Executed + Upto(fifo, Len(fifo), "sync") = Queued
    BY <1>2, <1>3, <1>4 DEF Executed
  <1>6. ASSUME NEW i \in 0 .. Len(fifo) PROVE Executed + Upto(fifo, i, "sync") <= Queued
    <2>1. i \in Nat /\ i <= Len(fifo) BY <1>1
    <2>2. Upto(fifo, i, "sync") \in 0 .. i BY <2>1, UptoType, Zenon
    <2>3. Upto(fifo, i, "sync") <= Upto(fifo, Len(fifo), "sync") BY <1>1, <2>1, UptoMono
    <2> QED BY <1>2, <1>5, <2>1, <2>2, <2>3
  <1>7. FenceMod \in Nat \ {0} /\ 2 * (Cap + 1) < FenceMod BY FenceAssumption, <1>1
  <1> QED BY <1>1, <1>2, <1>4, <1>5, <1>6, <1>7

\* The wrapped test of a fence: while fewer fences are under way than half the
\* modulus, it never passes one that has not been executed.
LEMMA PassedMeans ==
  ASSUME NEW a \in Nat, NEW b \in Nat, b - a <= Cap + 1, Cap \in Nat,
         FenceMod \in Nat \ {0}, 2 * (Cap + 1) < FenceMod, Passed(a % FenceMod, b % FenceMod)
  PROVE  b <= a
  <1> SUFFICES ASSUME a < b PROVE FALSE OBVIOUS
  <1>1. PICK d \in 1 .. FenceMod - 1 : b = a + d /\ d <= Cap + 1
    <2>1. b - a \in 1 .. FenceMod - 1 /\ b = a + (b - a) OBVIOUS
    <2> QED BY <2>1
  <1>2. ((a % FenceMod) + FenceMod - (b % FenceMod)) % FenceMod = FenceMod - d
    <2>1. a \in Int /\ b \in Int OBVIOUS
    <2> QED BY <1>1, <2>1, Ahead, Zenon
  <1>3. 2 * (FenceMod - d) < FenceMod BY <1>2 DEF Passed
  <1> QED BY <1>1, <1>3

-----------------------------------------------------------------------------
(* Steps that count, queue and execute no fence and no draw *)

\* The numbers stay, and so does what a fence orders.
LEMMA SameNumbers ==
  ASSUME UNCHANGED <<fifo, drawn>>, Counted' = Counted, Queued' = Queued
  PROVE  Executed' = Executed /\ \A n, d : Owes(n, d)' = Owes(n, d)
  BY DEF Executed, Owes

\* Most steps of the three threads.
LEMMA OtherStep ==
  ASSUME DisplayInv, TypeOK',
         UNCHANGED <<pushed, fifo, drawn, xmap_fence, gfifo_fence, need, forced, target, owed>>,
         Counted' = Counted, Queued' = Queued, apc' \in {"fence", "sync"} => mode' >= 1,
         kpc' = "execute" => fifo # <<>>, Waited' => Waited
  PROVE  DisplayInv'
  <1>1. Executed' = Executed /\ \A n, d : Owes(n, d)' = Owes(n, d) BY SameNumbers
  <1>2. RingOK' BY <1>1, Zenon DEF DisplayInv, RingOK
  <1>3. PICK n \in 0 .. MaxModes : WaitOK(n) BY DEF DisplayInv
  <1>4. WaitOK(n)' BY <1>1, <1>3 DEF WaitOK
  <1> QED BY <1>1, <1>2, <1>3, <1>4 DEF DisplayInv

\* A frame begins: the last fence counted orders the draws pushed before it.
LEMMA TopStep == ASSUME DisplayInv, TypeOK', Top PROVE DisplayInv'
  <1>1. Counted' = Counted /\ Queued' = Queued BY DEF Top, guest, Counted, Queued
  <1>2. Executed' = Executed /\ \A n, d : Owes(n, d)' = Owes(n, d)
    BY <1>1, SameNumbers DEF Top, consumer
  <1>3. RingOK' BY <1>1, <1>2, Zenon DEF DisplayInv, RingOK, Top, guest, fences, consumer
  <1>4. Counted \in 0 .. MaxModes
    <2>1. Counted \in Nat BY Numbers DEF DisplayInv
    <2>2. Counted <= MaxModes BY DisplayBounds DEF DisplayInv, TypeOK, RingTypeOK, RefreshTypeOK, Counted
    <2> QED BY <2>1, <2>2, DisplayBounds
  <1>5. WaitOK(Counted)'
    <2>1. Counted \in Nat BY Numbers DEF DisplayInv
    <2>2. target' = Counted % FenceMod /\ owed' = need BY Zenon DEF DisplayInv, RingOK, Top
    <2>3. ~Waited' BY DEF Waited, Top
    <2>4. Owes(Counted, need) BY DEF DisplayInv
    <2> QED BY <1>1, <1>2, <2>1, <2>2, <2>3, <2>4 DEF WaitOK
  <1>6. need' <= pushed' /\ owed' <= pushed' /\ Owes(Counted, need)'
    BY <1>1, <1>2, Zenon DEF DisplayInv, Top, guest, fences
  <1> QED BY <1>1, <1>3, <1>4, <1>5, <1>6 DEF DisplayInv

\* The wait ends: the fence has passed, or is given up.
LEMMA WaitStep == ASSUME DisplayInv, TypeOK', FencePassed \/ FenceTimeout PROVE DisplayInv'
  <1>1. /\ Counted' = Counted /\ Queued' = Queued
        /\ UNCHANGED <<pushed, mode, apc, fifo, drawn, kpc, xmap_fence, need, target, owed>>
    BY Zenon DEF FencePassed, FenceTimeout, guest, fences, consumer, locals, Counted, Queued
  <1>2. Executed' = Executed /\ \A n, d : Owes(n, d)' = Owes(n, d) BY <1>1, SameNumbers
  <1>3. ~forced' => ~forced /\ gfifo_fence' = gfifo_fence /\ Passed(gfifo_fence, target)
    BY DEF FencePassed, FenceTimeout, fences
  <1>4. RingOK' BY <1>1, <1>2, <1>3, Zenon DEF DisplayInv, RingOK
  <1>5. PICK n \in 0 .. MaxModes : WaitOK(n) BY DEF DisplayInv
  <1>6. ASSUME ~forced' PROVE n <= Executed
    <2>1. /\ Counted \in Nat /\ Executed \in Nat /\ Counted <= Queued + 1 /\ Queued <= Executed + Cap
          /\ Queued \in Nat /\ FenceMod \in Nat \ {0} /\ 2 * (Cap + 1) < FenceMod /\ Cap \in Nat
      BY Numbers DEF DisplayInv
    <2>2. n \in Nat /\ n <= Counted /\ target = n % FenceMod BY <1>5, DisplayBounds DEF WaitOK
    <2>3. n - Executed <= Cap + 1 BY <2>1, <2>2
    <2>4. gfifo_fence = Executed % FenceMod BY <1>3, <1>6, Zenon DEF DisplayInv, RingOK
    <2>5. Passed(Executed % FenceMod, n % FenceMod) BY <1>3, <1>6, <2>2, <2>4
    <2> QED BY <2>1, <2>2, <2>3, <2>5, PassedMeans, Zenon
  <1>7. WaitOK(n)' BY <1>1, <1>2, <1>5, <1>6 DEF WaitOK
  <1> QED BY <1>1, <1>2, <1>4, <1>5, <1>7 DEF DisplayInv

-----------------------------------------------------------------------------
(* Steps of the guest and of the consumer *)

\* A fence is counted: it orders everything pushed so far.
LEMMA FenceStep == ASSUME DisplayInv, TypeOK', Fence PROVE DisplayInv'
  <1>1. /\ Counted' = Counted + 1 /\ Queued' = Queued /\ mode >= 1 /\ Queued = Counted
        /\ UNCHANGED <<pushed, mode, fifo, drawn, kpc, gfifo_fence, forced, target, owed, rpc>>
    BY DisplayBounds
       DEF Fence, DisplayInv, TypeOK, RingTypeOK, RefreshTypeOK, RingOK, Counted, Queued, consumer, locals
  <1>2. Executed' = Executed /\ \A n, d : Owes(n, d)' <=> Owes(n, d)
    BY <1>1, Zenon DEF Executed, Owes
  <1>3. /\ Counted \in Nat /\ Executed \in Nat /\ FenceMod \in Nat \ {0} /\ Queued <= Counted
        /\ \A i \in 0 .. Len(fifo) : Executed + Upto(fifo, i, "sync") <= Queued
    BY Numbers, Zenon DEF DisplayInv
  <1>4. xmap_fence' = Counted' % FenceMod
    <2>1. xmap_fence' = ((Counted % FenceMod) + 1) % FenceMod BY Zenon DEF Fence, DisplayInv, RingOK
    <2>2. Counted \in Int BY <1>3
    <2> QED BY <1>1, <1>3, <2>1, <2>2, Wrap, Zenon
  <1>5. RingOK' BY <1>1, <1>2, <1>4, Zenon DEF DisplayInv, RingOK
  <1>6. Owes(Counted, need)'
    <2>1. \A i \in 0 .. Len(fifo) : ~(Counted + 1 <= Executed + Upto(fifo, i, "sync"))
      <3> SUFFICES ASSUME NEW i \in 0 .. Len(fifo) PROVE ~(Counted + 1 <= Executed + Upto(fifo, i, "sync"))
        OBVIOUS
      <3>1. i \in Nat BY RingType DEF DisplayInv
      <3>2. Upto(fifo, i, "sync") \in 0 .. i BY <3>1, UptoType, Zenon
      <3>3. Executed + Upto(fifo, i, "sync") <= Counted BY <1>1, <1>3, Zenon
      <3> QED BY <1>3, <3>1, <3>2, <3>3
    <2> QED BY <1>1, <1>2, <2>1, Zenon DEF Owes
  <1>7. PICK n \in 0 .. MaxModes : WaitOK(n) BY DEF DisplayInv
  <1>8. WaitOK(n)'
    <2>1. n <= Counted + 1 BY <1>3, <1>7, DisplayBounds DEF WaitOK
    <2> QED BY <1>1, <1>2, <1>7, <2>1, Zenon DEF WaitOK, Waited
  <1>9. need' <= pushed' /\ owed' <= pushed'
    BY <1>1, DisplayBounds DEF Fence, DisplayInv, TypeOK, RingTypeOK, RefreshTypeOK
  <1> QED BY <1>5, <1>6, <1>7, <1>8, <1>9 DEF DisplayInv

\* An entry at the end of the ring.
LEMMA PushCounts ==
  ASSUME TypeOK, RingOK, NEW e \in Entries, fifo' = Append(fifo, e)
  PROVE  /\ Len(fifo') = Len(fifo) + 1
         /\ \A k \in 1 .. Len(fifo) : fifo'[k] = fifo[k]
         /\ fifo'[Len(fifo) + 1] = e
         /\ \A i \in 0 .. Len(fifo) : /\ Upto(fifo', i, "sync") = Upto(fifo, i, "sync")
                                      /\ Upto(fifo', i, "draw") = Upto(fifo, i, "draw")
         /\ Upto(fifo', Len(fifo) + 1, "sync")
              = Upto(fifo, Len(fifo), "sync") + (IF e.op = "sync" THEN 1 ELSE 0)
         /\ Upto(fifo', Len(fifo) + 1, "draw")
              = Upto(fifo, Len(fifo), "draw") + (IF e.op = "draw" THEN 1 ELSE 0)
  <1>1. fifo \in Seq(Entries) BY RingType, Zenon
  <1>2. \A k \in 1 .. Len(fifo) : fifo'[k] = fifo[k] BY <1>1
  <1>3. fifo'[Len(fifo) + 1] = e BY <1>1
  <1>4. ASSUME NEW p
        PROVE  /\ Len(fifo') = Len(fifo) + 1
               /\ \A i \in 0 .. Len(fifo) : Upto(fifo', i, p) = Upto(fifo, i, p)
               /\ Upto(fifo', Len(fifo) + 1, p)
                    = Upto(fifo, Len(fifo), p) + (IF e.op = p THEN 1 ELSE 0)
    <2>1. /\ Len(Append(fifo, e)) = Len(fifo) + 1
          /\ \A i \in 0 .. Len(fifo) : Upto(Append(fifo, e), i, p) = Upto(fifo, i, p)
          /\ Upto(Append(fifo, e), Len(fifo) + 1, p)
               = Upto(fifo, Len(fifo), p) + (IF e.op = p THEN 1 ELSE 0)
      BY <1>1, UptoAppend, Zenon
    <2> QED BY <2>1, Zenon
  <1> QED BY <1>2, <1>3, <1>4, Zenon

\* A push leaves what a fence orders, if everything it orders was pushed.
LEMMA PushOwes ==
  ASSUME TypeOK, RingOK, NEW e \in Entries, fifo' = Append(fifo, e), drawn' = drawn,
         Executed' = Executed, NEW n, NEW d \in Nat, d <= pushed, Owes(n, d)
  PROVE  Owes(n, d)'
  <1> SUFFICES ASSUME NEW i \in 0 .. Len(fifo'), n <= Executed + Upto(fifo', i, "sync")
               PROVE  d <= drawn + Upto(fifo', i, "draw")
    BY Zenon DEF Owes
  <1>1. Len(fifo) \in Nat /\ drawn \in Nat /\ pushed = drawn + Upto(fifo, Len(fifo), "draw")
    BY RingType, DisplayBounds DEF TypeOK, RingTypeOK, RefreshTypeOK, RingOK
  <1>2. Upto(fifo, Len(fifo), "draw") \in Nat BY <1>1, UptoNat
  <1>3. CASE i \in 0 .. Len(fifo) BY <1>3, PushCounts, Zenon DEF Owes
  <1>4. CASE i = Len(fifo) + 1
    <2>1. Upto(fifo', i, "draw") = Upto(fifo, Len(fifo), "draw") + (IF e.op = "draw" THEN 1 ELSE 0)
      BY <1>4, PushCounts, Zenon
    <2> QED BY <1>1, <1>2, <2>1
  <1>5. i \in 0 .. Len(fifo) \/ i = Len(fifo) + 1 BY <1>1, PushCounts
  <1> QED BY <1>3, <1>4, <1>5, Zenon

\* A draw, or the fence that was counted, is pushed.
LEMMA PushStep == ASSUME DisplayInv, TypeOK', PushDraw \/ PushSync PROVE DisplayInv'
  <1> DEFINE e == IF apc = "sync" THEN DispSync(xmap_fence) ELSE Draw
  <1>1. /\ fifo' = Append(fifo, e) /\ Counted' = Counted
        /\ UNCHANGED <<mode, drawn, kpc, xmap_fence, gfifo_fence, need, forced, target, owed, rpc>>
        /\ pushed' = IF apc = "sync" THEN pushed ELSE pushed + 1
        /\ Queued' = IF apc = "sync" THEN Queued + 1 ELSE Queued
    <2>1. CASE PushDraw BY <2>1, Zenon DEF PushDraw, fences, consumer, locals, Counted, Queued
    <2>2. CASE PushSync
      <3>1. mode \in Nat BY DisplayBounds DEF DisplayInv, TypeOK, RingTypeOK, RefreshTypeOK
      <3> QED BY <2>2, <3>1 DEF PushSync, fences, consumer, locals, Counted, Queued
    <2> QED BY <2>1, <2>2, Zenon
  <1>2. /\ e \in Entries /\ e.op = (IF apc = "sync" THEN "sync" ELSE "draw")
        /\ apc = "sync" => e.val = xmap_fence
    BY Zenon DEF DisplayInv, TypeOK, RingTypeOK, RefreshTypeOK, Entries, Draw, DispSync
  <1> HIDE DEF e
  <1>3. TypeOK /\ RingOK /\ fifo \in Seq(Entries) /\ Len(fifo) \in Nat BY RingType, Zenon DEF DisplayInv
  <1>4. /\ Counted \in Nat /\ Queued \in Nat /\ Executed \in Nat /\ FenceMod \in Nat \ {0}
        /\ Executed + Upto(fifo, Len(fifo), "sync") = Queued
    BY <1>3, Numbers, Zenon
  <1>5. Upto(fifo, Len(fifo), "sync") \in Nat /\ Upto(fifo, Len(fifo), "draw") \in Nat
    BY <1>3, UptoNat
  <1>6. /\ Len(fifo') = Len(fifo) + 1 /\ \A k \in 1 .. Len(fifo) : fifo'[k] = fifo[k]
        /\ fifo'[Len(fifo) + 1] = e
        /\ \A i \in 0 .. Len(fifo) : /\ Upto(fifo', i, "sync") = Upto(fifo, i, "sync")
                                     /\ Upto(fifo', i, "draw") = Upto(fifo, i, "draw")
        /\ Upto(fifo', Len(fifo) + 1, "sync")
             = Upto(fifo, Len(fifo), "sync") + (IF apc = "sync" THEN 1 ELSE 0)
        /\ Upto(fifo', Len(fifo) + 1, "draw")
             = Upto(fifo, Len(fifo), "draw") + (IF apc = "sync" THEN 0 ELSE 1)
    BY <1>1, <1>2, <1>3, PushCounts, Zenon
  <1>7. Executed' = Executed BY <1>1, <1>4, <1>5, <1>6 DEF Executed
  <1>8. RingOK'
    <2>1. kpc' = "execute" => fifo' # <<>> BY <1>3, <1>6
    <2>2. pushed' = drawn' + Upto(fifo', Len(fifo'), "draw")
      <3>1. pushed = drawn + Upto(fifo, Len(fifo), "draw") /\ drawn \in Nat
        BY DisplayBounds DEF DisplayInv, RingOK, TypeOK, RingTypeOK, RefreshTypeOK
      <3> QED BY <1>1, <1>5, <1>6, <3>1
    <2>3. ASSUME NEW k \in 1 .. Len(fifo'), fifo'[k].op = "sync"
          PROVE  fifo'[k].val = (Executed' + Upto(fifo', k, "sync")) % FenceMod
      <3>1. CASE k \in 1 .. Len(fifo)
        <4>1. k \in 0 .. Len(fifo) BY <3>1, <1>3
        <4> QED BY <1>3, <1>6, <1>7, <2>3, <3>1, <4>1, Zenon DEF RingOK
      <3>2. CASE k = Len(fifo) + 1
        <4>1. apc = "sync" BY <1>2, <1>6, <2>3, <3>2, Zenon
        <4>2. fifo'[k].val = Counted % FenceMod BY <1>2, <1>3, <1>6, <3>2, <4>1, Zenon DEF RingOK
        <4>3. Counted = Queued + 1 BY <1>3, <4>1, DisplayBounds DEF Queued, Counted, TypeOK, RingTypeOK, RefreshTypeOK
        <4>4. Executed' + Upto(fifo', k, "sync") = Counted BY <1>4, <1>5, <1>6, <1>7, <3>2, <4>1, <4>3
        <4> QED BY <4>2, <4>4, Zenon
      <3> QED BY <1>3, <1>6, <3>1, <3>2
    <2>4. /\ apc' \in {"fence", "sync"} => mode' >= 1
          /\ Executed' >= 0 /\ xmap_fence' = Counted' % FenceMod
          /\ ~forced' => gfifo_fence' = Executed' % FenceMod
      BY <1>1, <1>3, <1>4, <1>7, Zenon DEF RingOK, PushDraw, PushSync
    <2> QED BY <2>1, <2>2, <2>3, <2>4, Zenon DEF RingOK
  <1>9. need \in Nat /\ owed \in Nat /\ pushed \in Nat /\ need <= pushed /\ owed <= pushed
    BY DisplayBounds DEF DisplayInv, TypeOK, RingTypeOK, RefreshTypeOK
  <1>10. Owes(Counted, need)'
    <2>1. Owes(Counted, need) BY DEF DisplayInv
    <2>2. \A n : Owes(n, need) => Owes(n, need)' BY <1>1, <1>2, <1>3, <1>7, <1>9, PushOwes, Zenon
    <2> QED BY <1>1, <2>1, <2>2, Zenon
  <1>11. PICK n \in 0 .. MaxModes : WaitOK(n) BY DEF DisplayInv
  <1>12. WaitOK(n)'
    <2>1. Owes(n, owed)' BY <1>1, <1>2, <1>3, <1>7, <1>9, <1>11, PushOwes, Zenon DEF WaitOK
    <2> QED BY <1>1, <1>7, <1>11, <2>1, Zenon DEF WaitOK, Waited
  <1>13. need' <= pushed' /\ owed' <= pushed' BY <1>1, <1>9
  <1> QED BY <1>8, <1>10, <1>11, <1>12, <1>13 DEF DisplayInv

\* The consumer executes the head of the ring: a draw is done, or a fence
\* published; a wait that was given up is caught up with at the last fence.
LEMMA ExecuteStep == ASSUME DisplayInv, TypeOK', Execute PROVE DisplayInv'
  <1> DEFINE sync == Head(fifo).op = "sync"
             S == IF sync THEN 1 ELSE 0
             D == IF sync THEN 0 ELSE 1
  <1>1. /\ TypeOK /\ RingOK /\ fifo # <<>> /\ fifo \in Seq(Entries) /\ Len(fifo) \in Nat \ {0}
        /\ Head(fifo) = fifo[1] /\ fifo' = Tail(fifo) /\ Head(fifo).op \in {"draw", "sync"}
        /\ Len(fifo') = Len(fifo) - 1 /\ \A k \in 1 .. Len(fifo') : fifo'[k] = fifo[k + 1]
    <2>1. TypeOK /\ RingOK /\ fifo # <<>> /\ fifo \in Seq(Entries) /\ fifo' = Tail(fifo)
      BY RingType, Zenon DEF DisplayInv, RingOK, Execute
    <2>2. Len(fifo) \in Nat \ {0} /\ Head(fifo) = fifo[1] BY <2>1
    <2>3. Len(fifo') = Len(fifo) - 1 /\ \A k \in 1 .. Len(fifo') : fifo'[k] = fifo[k + 1]
      BY <2>1, UptoTail, Zenon
    <2>4. Head(fifo).op \in {"draw", "sync"} BY <2>1, <2>2, RingType
    <2> QED BY <2>1, <2>2, <2>3, <2>4, Zenon
  <1>2. /\ UNCHANGED <<pushed, mode, apc, xmap_fence, need, target, owed, rpc>> /\ kpc' = "peek"
        /\ drawn' = drawn + D /\ drawn \in Nat /\ pushed \in Nat
        /\ forced' = (forced /\ (sync => Head(fifo).val # xmap_fence)) /\ forced \in BOOLEAN
        /\ gfifo_fence' = IF sync THEN Head(fifo).val ELSE gfifo_fence
    <2>1. drawn \in Nat /\ pushed \in Nat /\ forced \in BOOLEAN BY <1>1, DisplayBounds DEF TypeOK, RingTypeOK, RefreshTypeOK
    <2>2. /\ UNCHANGED <<pushed, mode, apc, target, owed, rpc>> /\ kpc' = "peek"
      BY Zenon DEF Execute, guest, locals
    <2>3. CASE Head(fifo).op = "draw"
      <3>1. drawn' = drawn + 1 /\ UNCHANGED <<xmap_fence, gfifo_fence, need, forced>>
        BY <2>3, Zenon DEF Execute, fences
      <3> QED BY <2>1, <2>2, <2>3, <3>1, Zenon
    <2>4. CASE Head(fifo).op = "sync"
      <3>1. /\ gfifo_fence' = Head(fifo).val /\ UNCHANGED <<drawn, xmap_fence, need>>
            /\ forced' = (forced /\ Head(fifo).val # xmap_fence)
        BY <2>4, Zenon DEF Execute
      <3> QED BY <2>1, <2>2, <2>4, <3>1
    <2> QED BY <1>1, <2>3, <2>4, Zenon
  <1>3. Counted' = Counted /\ Queued' = Queued BY <1>2, Zenon DEF Counted, Queued
  <1>4. \A i \in 0 .. Len(fifo') : /\ Upto(fifo, i + 1, "sync") = Upto(fifo', i, "sync") + S
                                   /\ Upto(fifo, i + 1, "draw") = Upto(fifo', i, "draw") + D
    <2>1. \A p : \A i \in 0 .. Len(fifo') :
            Upto(fifo, i + 1, p) = Upto(fifo', i, p) + (IF Head(fifo).op = p THEN 1 ELSE 0)
      BY <1>1, UptoTail, Zenon
    <2> QED BY <1>1, <2>1, Zenon
  <1>5. \A i \in 0 .. Len(fifo') : /\ Upto(fifo', i, "sync") \in Nat /\ Upto(fifo', i, "draw") \in Nat
                                   /\ i \in Nat /\ i + 1 \in 1 .. Len(fifo)
    <2>1. \A i \in 0 .. Len(fifo') : i \in Nat /\ i + 1 \in 1 .. Len(fifo) BY <1>1
    <2> QED BY <2>1, UptoNat, Zenon
  <1>6. S \in Nat /\ D \in Nat /\ S + D = 1 OBVIOUS
  <1>7. /\ Counted \in Nat /\ Queued \in Nat /\ Executed \in Nat /\ FenceMod \in Nat \ {0} /\ Cap \in Nat
        /\ Counted <= Queued + 1 /\ Queued <= Counted /\ Queued <= Executed + Cap
        /\ 2 * (Cap + 1) < FenceMod /\ Executed + Upto(fifo, Len(fifo), "sync") = Queued
    BY <1>1, Numbers, Zenon
  <1> HIDE DEF S, D
  <1>8. Len(fifo') \in 0 .. Len(fifo') /\ Len(fifo') + 1 = Len(fifo) BY <1>1
  <1>9. Executed' = Executed + S /\ Executed' \in Nat /\ Executed' <= Queued
    <2>1. Upto(fifo, Len(fifo), "sync") = Upto(fifo', Len(fifo'), "sync") + S
          /\ Upto(fifo', Len(fifo'), "sync") \in Nat
      BY <1>4, <1>5, <1>8, Zenon
    <2>2. Executed' = Queued - Upto(fifo', Len(fifo'), "sync") BY <1>3 DEF Executed
    <2> QED BY <1>6, <1>7, <2>1, <2>2
  <1>10. \A i \in 0 .. Len(fifo') :
           /\ Executed' + Upto(fifo', i, "sync") = Executed + Upto(fifo, i + 1, "sync")
           /\ drawn' + Upto(fifo', i, "draw") = drawn + Upto(fifo, i + 1, "draw")
    BY <1>2, <1>4, <1>5, <1>6, <1>7, <1>9
  <1>11. \A n, d : Owes(n, d) => Owes(n, d)'
    <2> SUFFICES ASSUME NEW n, NEW d, Owes(n, d), NEW i \in 0 .. Len(fifo'),
                        n <= Executed' + Upto(fifo', i, "sync")
                 PROVE  d <= drawn' + Upto(fifo', i, "draw")
      BY Zenon DEF Owes
    <2>1. i + 1 \in 0 .. Len(fifo) BY <1>1, <1>5
    <2> QED BY <1>10, <2>1, Zenon DEF Owes
  <1>12. sync => Head(fifo).val = Executed' % FenceMod
    <2> SUFFICES ASSUME sync PROVE Head(fifo).val = Executed' % FenceMod OBVIOUS
    <2>1. 1 \in 1 .. Len(fifo) /\ 0 \in 0 .. Len(fifo') BY <1>1
    <2>2. fifo[1].val = (Executed + Upto(fifo, 1, "sync")) % FenceMod
      BY <1>1, <2>1, Zenon DEF RingOK
    <2>3. Upto(fifo, 0 + 1, "sync") = Upto(fifo', 0, "sync") + 1 BY <1>4, <2>1, Zenon DEF S
    <2>4. Upto(fifo', 0, "sync") = 0 BY UptoZero
    <2>5. Executed + Upto(fifo, 1, "sync") = Executed' BY <1>7, <1>9, <2>3, <2>4 DEF S
    <2> QED BY <1>1, <2>2, <2>5, Zenon
  <1>13. forced /\ ~forced' => Executed' = Counted
    <2> SUFFICES ASSUME forced, ~forced' PROVE Executed' = Counted OBVIOUS
    <2>1. sync /\ Executed' % FenceMod = Counted % FenceMod BY <1>1, <1>2, <1>12, Zenon DEF RingOK
    <2>2. Executed' <= Counted /\ Counted - Executed' < FenceMod BY <1>6, <1>7, <1>9
    <2>3. Executed' \in Int /\ Counted \in Int BY <1>7, <1>9
    <2> QED BY <1>7, <2>1, <2>2, <2>3, SameWrap, Zenon
  <1>14. RingOK'
    <2>1. pushed' = drawn' + Upto(fifo', Len(fifo'), "draw")
      <3>1. pushed = drawn + Upto(fifo, Len(fifo), "draw") BY <1>1, Zenon DEF RingOK
      <3> QED BY <1>2, <1>8, <1>10, <3>1, Zenon
    <2>2. ASSUME NEW k \in 1 .. Len(fifo'), fifo'[k].op = "sync"
          PROVE  fifo'[k].val = (Executed' + Upto(fifo', k, "sync")) % FenceMod
      <3>1. k + 1 \in 1 .. Len(fifo) /\ k \in 0 .. Len(fifo') BY <1>1
      <3>2. fifo[k + 1].op = "sync" /\ fifo'[k] = fifo[k + 1] BY <1>1, <2>2, Zenon
      <3>3. fifo[k + 1].val = (Executed + Upto(fifo, k + 1, "sync")) % FenceMod
        BY <1>1, <3>1, <3>2, Zenon DEF RingOK
      <3> QED BY <1>10, <3>1, <3>2, <3>3, Zenon
    <2>3. ~forced' => gfifo_fence' = Executed' % FenceMod
      <3>1. CASE sync BY <1>2, <1>12, <3>1, Zenon
      <3>2. CASE ~sync
        <4>1. Executed' = Executed BY <1>7, <1>9, <3>2 DEF S
        <4> QED BY <1>1, <1>2, <3>2, <4>1, Zenon DEF RingOK
      <3> QED BY <3>1, <3>2
    <2>4. /\ apc' \in {"fence", "sync"} => mode' >= 1
          /\ kpc' = "execute" => fifo' # <<>>
          /\ Executed' >= 0 /\ xmap_fence' = Counted' % FenceMod
      BY <1>1, <1>2, <1>3, <1>9 DEF RingOK
    <2> QED BY <2>1, <2>2, <2>3, <2>4, Zenon DEF RingOK
  <1>15. PICK n \in 0 .. MaxModes : WaitOK(n) BY DEF DisplayInv
  <1>16. WaitOK(n)'
    <2>1. Owes(n, owed)' BY <1>2, <1>11, <1>15, Zenon DEF WaitOK
    <2>2. Waited' /\ ~forced' => n <= Executed'
      <3>1. n \in Nat /\ n <= Counted /\ (Waited /\ ~forced => n <= Executed)
        BY <1>15, DisplayBounds DEF WaitOK
      <3>2. Waited' = Waited BY <1>2, Zenon DEF Waited
      <3> QED BY <1>6, <1>7, <1>9, <1>13, <3>1, <3>2
    <2>3. n <= Counted' /\ target' = n % FenceMod BY <1>2, <1>3, <1>15, Zenon DEF WaitOK
    <2> QED BY <2>1, <2>2, <2>3, Zenon DEF WaitOK
  <1>17. need' <= pushed' /\ owed' <= pushed' /\ Owes(Counted, need)'
    BY <1>2, <1>3, <1>11, Zenon DEF DisplayInv
  <1> QED BY <1>14, <1>15, <1>16, <1>17, Zenon DEF DisplayInv

-----------------------------------------------------------------------------
(* Types *)

ringVars    == <<pushed, drawn, mode, fifo, apc, kpc, had, xmap_fence, gfifo_fence, need, forced>>
pictureVars == <<snap, shown, rgba, smode, shownMode, borrowed, xmap_dirty, fb_dirty>>
refreshVars == <<rpc, target, owed, since, fbd, pal, full, sbo, rend, want, vrint, line, frame_request>>

\* Each part of the types reads its own variables.
LEMMA TypesKept ==
  ASSUME TypeOK
  PROVE  /\ UNCHANGED ringVars => RingTypeOK'
         /\ UNCHANGED <<drawn, mode, pictureVars>> => PictureTypeOK'
         /\ UNCHANGED refreshVars => RefreshTypeOK'
  <1>1. UNCHANGED ringVars => RingTypeOK' BY Zenon DEF TypeOK, RingTypeOK, ringVars
  <1>2. UNCHANGED <<drawn, mode, pictureVars>> => PictureTypeOK' BY Zenon DEF TypeOK, PictureTypeOK, pictureVars
  <1>3. UNCHANGED refreshVars => RefreshTypeOK' BY Zenon DEF TypeOK, RefreshTypeOK, refreshVars
  <1> QED BY <1>1, <1>2, <1>3, Zenon

\* The guest's steps.
LEMMA GuestTypes == ASSUME DisplayInv, Guest PROVE TypeOK'
  <1>0. TypeOK /\ RingTypeOK /\ PictureTypeOK /\ RefreshTypeOK BY DEF DisplayInv, TypeOK
  <1> USE DisplayBounds, FenceAssumption
  <1>1. CASE PushDraw
    <2>1. UNCHANGED <<drawn, mode, pictureVars>> /\ UNCHANGED refreshVars
      BY <1>1, Zenon DEF PushDraw, pictureVars, refreshVars, consumer, locals, screen, output, retrace
    <2>2. fifo' \in Seq(Entries) /\ Len(fifo') <= Cap BY <1>0, <1>1, RingType DEF PushDraw, Entries
    <2>3. RingTypeOK' BY <1>0, <1>1, <2>2 DEF PushDraw, RingTypeOK, Entries, fences, consumer
    <2> QED BY <1>0, <2>1, <2>3, TypesKept, Zenon DEF TypeOK
  <1>2. CASE ModeWrite
    <2>1. UNCHANGED refreshVars BY <1>2, Zenon DEF ModeWrite, refreshVars, locals, retrace
    <2>2. RingTypeOK' BY <1>0, <1>2 DEF ModeWrite, RingTypeOK, consumer
    <2>3. PictureTypeOK'
      BY <1>0, <1>2 DEF ModeWrite, RingTypeOK, PictureTypeOK, consumer, screen, output
    <2> QED BY <1>0, <2>1, <2>2, <2>3, TypesKept, Zenon DEF TypeOK
  <1>3. CASE Fence
    <2>1. UNCHANGED <<drawn, mode, pictureVars>> /\ UNCHANGED refreshVars
      BY <1>3, Zenon DEF Fence, pictureVars, refreshVars, consumer, locals, screen, output, retrace
    <2>2. RingTypeOK' BY <1>0, <1>3 DEF Fence, RingTypeOK, consumer
    <2> QED BY <1>0, <2>1, <2>2, TypesKept DEF TypeOK
  <1>4. CASE PushSync
    <2>1. UNCHANGED <<drawn, mode, pictureVars>> /\ UNCHANGED refreshVars
      BY <1>4, Zenon DEF PushSync, pictureVars, refreshVars, consumer, locals, screen, output, retrace
    <2>2. fifo' \in Seq(Entries) /\ Len(fifo') <= Cap
      BY <1>0, <1>4, RingType DEF PushSync, Entries, RingTypeOK
    <2>3. RingTypeOK' BY <1>0, <1>4, <2>2, Zenon DEF PushSync, RingTypeOK, Entries, fences, consumer
    <2> QED BY <1>0, <2>1, <2>3, TypesKept DEF TypeOK
  <1>5. CASE ReadStatus
    <2>1. UNCHANGED <<drawn, mode, pictureVars>>
      BY <1>5, Zenon DEF ReadStatus, pictureVars, consumer, screen, output
    <2>2. RingTypeOK' BY <1>0, <1>5, Zenon DEF ReadStatus, RingTypeOK, RefreshTypeOK, fences, consumer
    <2>3. RefreshTypeOK' BY <1>0, <1>5, Zenon DEF ReadStatus, RefreshTypeOK, locals
    <2> QED BY <1>0, <2>1, <2>2, <2>3, TypesKept, Zenon DEF TypeOK
  <1>6. CASE DropLine
    <2>1. UNCHANGED <<drawn, mode, pictureVars>>
      BY <1>6, Zenon DEF DropLine, pictureVars, consumer, screen, output
    <2>2. RingTypeOK'
      <3>1. had' = FALSE /\ apc' = "idle" /\ UNCHANGED <<pushed, mode, fences, fifo, consumer>>
        BY <1>6, Zenon DEF DropLine
      <3> QED BY <1>0, <3>1, Zenon DEF RingTypeOK, fences, consumer
    <2>3. RefreshTypeOK'
      <3>1. UNCHANGED <<vrint, rpc, locals, frame_request>> BY <1>6, Zenon DEF DropLine
      <3>2. line' \in BOOLEAN BY <1>6, Zenon DEF DropLine
      <3> QED BY <1>0, <3>1, <3>2, Zenon DEF RefreshTypeOK, locals
    <2> QED BY <1>0, <2>1, <2>2, <2>3, TypesKept DEF TypeOK
  <1> QED BY <1>1, <1>2, <1>3, <1>4, <1>5, <1>6, Zenon DEF Guest

\* The consumer's: a draw at the head of the ring has been pushed and not done.
LEMMA ConsumerTypes == ASSUME DisplayInv, Consumer PROVE TypeOK'
  <1>0. TypeOK /\ RingOK /\ RingTypeOK /\ PictureTypeOK /\ RefreshTypeOK BY DEF DisplayInv, TypeOK
  <1>1. CASE Peek
    <2>1. UNCHANGED refreshVars BY <1>1, Zenon DEF Peek, refreshVars, locals, retrace
    <2>2. RingTypeOK' BY <1>0, <1>1, Zenon DEF Peek, RingTypeOK, guest, fences
    <2>3. PictureTypeOK' BY <1>0, <1>1, Zenon DEF Peek, PictureTypeOK, guest, screen, output
    <2> QED BY <1>0, <2>1, <2>2, <2>3, TypesKept, Zenon DEF TypeOK
  <1>2. CASE Execute
    <2>1. /\ fifo # <<>> /\ fifo' = Tail(fifo) /\ fifo \in Seq(Entries) /\ Len(fifo) \in Nat \ {0}
          /\ Len(fifo) <= Cap /\ Cap \in Nat /\ Head(fifo) = fifo[1]
          /\ Head(fifo).val \in 0 .. FenceMod - 1
      <3>1. fifo # <<>> /\ fifo' = Tail(fifo) BY <1>0, <1>2, Zenon DEF Execute, RingOK
      <3>2. /\ fifo \in Seq(Entries) /\ Len(fifo) <= Cap /\ Cap \in Nat
            /\ \A k \in 1 .. Len(fifo) : fifo[k].val \in 0 .. FenceMod - 1
        BY <1>0, RingType, Zenon
      <3>3. Len(fifo) \in Nat \ {0} /\ Head(fifo) = fifo[1] /\ 1 \in 1 .. Len(fifo) BY <3>1, <3>2
      <3> QED BY <3>1, <3>2, <3>3, Zenon
    <2>2. fifo' \in Seq(Entries) /\ Len(fifo') <= Cap BY <2>1
    <2>3. drawn' \in 0 .. pushed /\ drawn <= drawn' /\ drawn \in Nat /\ pushed \in 0 .. MaxDraws
      <3>1. drawn \in 0 .. pushed /\ pushed \in 0 .. MaxDraws /\ pushed = drawn + Upto(fifo, Len(fifo), "draw")
        BY <1>0, Zenon DEF RingTypeOK, RingOK
      <3>2. CASE Head(fifo).op = "draw"
        <4>1. Upto(fifo, 0 + 1, "draw") = Upto(fifo, 0, "draw") + 1
          <5>1. 0 \in Nat /\ fifo[0 + 1].op = "draw" BY <2>1, <3>2
          <5> QED BY <5>1, UptoNext, Zenon
        <4>2. Upto(fifo, 1, "draw") = 1 BY <4>1, UptoZero
        <4>3. Upto(fifo, 1, "draw") <= Upto(fifo, Len(fifo), "draw")
          <5>1. 1 \in Nat /\ Len(fifo) \in Nat /\ 1 <= Len(fifo) BY <2>1
          <5> QED BY <5>1, UptoMono
        <4>4. Upto(fifo, Len(fifo), "draw") \in Nat BY <2>1, UptoNat
        <4>5. drawn' = drawn + 1 BY <1>2, <3>2, Zenon DEF Execute
        <4> QED BY <3>1, <4>2, <4>3, <4>4, <4>5, DisplayBounds
      <3>3. CASE Head(fifo).op # "draw"
        <4>1. drawn' = drawn BY <1>2, <3>3, Zenon DEF Execute, fences
        <4> QED BY <3>1, <4>1, DisplayBounds
      <3> QED BY <3>2, <3>3
    <2>4. gfifo_fence' \in 0 .. FenceMod - 1 /\ forced' \in BOOLEAN /\ UNCHANGED <<xmap_fence, need>>
      <3>1. gfifo_fence \in 0 .. FenceMod - 1 /\ forced \in BOOLEAN BY <1>0, Zenon DEF RingTypeOK
      <3>2. forced' \in BOOLEAN BY <1>2, <3>1, Zenon DEF Execute, fences
      <3> QED BY <1>2, <2>1, <3>1, <3>2, Zenon DEF Execute, fences
    <2>5. UNCHANGED refreshVars BY <1>2, Zenon DEF Execute, refreshVars, locals, retrace
    <2>6. UNCHANGED <<guest, fb_dirty, screen, output>> /\ kpc' = "peek" BY <1>2, Zenon DEF Execute
    <2>7. RingTypeOK'
      BY <1>0, <2>2, <2>3, <2>4, <2>6, DisplayBounds, Zenon DEF RingTypeOK, Entries, guest
    <2>8. PictureTypeOK' BY <1>0, <2>3, <2>6, DisplayBounds DEF PictureTypeOK, guest, screen, output
    <2> QED BY <1>0, <2>5, <2>7, <2>8, TypesKept DEF TypeOK
  <1> QED BY <1>1, <1>2 DEF Consumer

\* The refresh thread's.
LEMMA RefreshTypes == ASSUME DisplayInv, Refresh \/ RequestFrame PROVE TypeOK'
  <1>0. TypeOK /\ RingTypeOK /\ PictureTypeOK /\ RefreshTypeOK BY DEF DisplayInv, TypeOK
  <1> USE DisplayBounds, FenceAssumption, HeartbeatAssumption, DisplayFlags
  <1>1. CASE \/ Top \/ FencePassed \/ Palette \/ StatusBarOnly \/ Want \/ Vrint \/ Raise \/ Clear
             \/ RequestFrame
    <2>1. UNCHANGED ringVars /\ UNCHANGED <<drawn, mode, pictureVars>>
      <3>1. CASE Top \/ FencePassed \/ Palette \/ StatusBarOnly
        BY <3>1, Zenon DEF Top, FencePassed, Palette, StatusBarOnly, ringVars, pictureVars,
                           guest, fences, consumer, screen, output
      <3>2. CASE Want \/ Vrint \/ Raise \/ Clear \/ RequestFrame
        BY <3>2, Zenon DEF Want, Vrint, Raise, Clear, RequestFrame, ringVars, pictureVars,
                           guest, fences, consumer, screen, output
      <3> QED BY <1>1, <3>1, <3>2, Zenon
    <2>2. RefreshTypeOK'
      <3>1. CASE Top BY <1>0, <3>1, Zenon DEF Top, RefreshTypeOK, RingTypeOK, retrace
      <3>2. CASE FencePassed BY <1>0, <3>2, Zenon DEF FencePassed, RefreshTypeOK, locals, retrace
      <3>3. CASE Palette BY <1>0, <3>3, Zenon DEF Palette, RefreshTypeOK, PictureTypeOK, retrace
      <3>4. CASE StatusBarOnly
        <4>1. sbo' \in BOOLEAN BY <3>4, Zenon DEF StatusBarOnly
        <4>2. /\ rpc' = "copy_fb"
              /\ UNCHANGED <<target, owed, fbd, pal, since, full, rend, want, retrace, frame_request>>
          BY <3>4, Zenon DEF StatusBarOnly
        <4> QED BY <1>0, <4>1, <4>2, Zenon DEF RefreshTypeOK, retrace
      <3>5. CASE Want
        <4>1. want' \in BOOLEAN BY <3>5, Zenon DEF Want
        <4>2. /\ rpc' = "vrint"
              /\ UNCHANGED <<target, owed, fbd, pal, since, full, sbo, rend, retrace, frame_request>>
          BY <3>5, Zenon DEF Want
        <4> QED BY <1>0, <4>1, <4>2, Zenon DEF RefreshTypeOK, retrace
      <3>6. CASE Vrint \/ Raise BY <1>0, <3>6, Zenon DEF Vrint, Raise, RefreshTypeOK, locals
      <3>7. CASE Clear \/ RequestFrame BY <1>0, <3>7, Zenon DEF Clear, RequestFrame, RefreshTypeOK, locals, retrace
      <3> QED BY <1>1, <3>1, <3>2, <3>3, <3>4, <3>5, <3>6, <3>7, Zenon
    <2> QED BY <1>0, <2>1, <2>2, TypesKept, Zenon DEF TypeOK
  <1>2. CASE FenceTimeout
    <2>1. UNCHANGED <<drawn, mode, pictureVars>>
      BY <1>2, Zenon DEF FenceTimeout, pictureVars, guest, consumer, screen, output
    <2>2. RingTypeOK' BY <1>0, <1>2, Zenon DEF FenceTimeout, RingTypeOK, RefreshTypeOK, guest, consumer
    <2>3. RefreshTypeOK' BY <1>0, <1>2, Zenon DEF FenceTimeout, RefreshTypeOK, locals, retrace
    <2> QED BY <1>0, <2>1, <2>2, <2>3, TypesKept, Zenon DEF TypeOK
  <1>3. CASE Swap
    <2>1. UNCHANGED ringVars BY <1>3, Zenon DEF Swap, ringVars, guest, fences, consumer
    <2>2. PictureTypeOK'
      <3>1. fb_dirty' = FALSE /\ UNCHANGED <<guest, consumer, screen, output>> BY <1>3, Zenon DEF Swap
      <3> QED BY <1>0, <3>1, Zenon DEF PictureTypeOK, guest, consumer, screen, output
    <2>3. RefreshTypeOK'
      <3>1. rend' \in BOOLEAN BY <1>3, Zenon DEF Swap, ShouldRender
      <3>2. /\ fbd' = fb_dirty /\ UNCHANGED <<target, owed, pal, full, sbo, want, retrace, frame_request>>
        BY <1>3, Zenon DEF Swap
      <3>3. rpc' \in {"status_bar", "vrint"} BY <1>3, Zenon DEF Swap
      <3>4. since \in 0 .. IDLE_HEARTBEAT_FRAMES BY <1>0, Zenon DEF RefreshTypeOK
      <3>5. since' \in 0 .. IDLE_HEARTBEAT_FRAMES BY <1>3, <3>4 DEF Swap
      <3> QED BY <1>0, <3>1, <3>2, <3>3, <3>5, Zenon DEF RefreshTypeOK, PictureTypeOK, retrace
    <2> QED BY <1>0, <2>1, <2>2, <2>3, TypesKept, Zenon DEF TypeOK
  <1>4. CASE CopyFb
    <2>1. UNCHANGED ringVars BY <1>4, Zenon DEF CopyFb, ringVars, guest, fences, consumer
    <2>2. PictureTypeOK' BY <1>0, <1>4 DEF CopyFb, PictureTypeOK, RingTypeOK, guest, consumer, output
    <2>3. RefreshTypeOK' BY <1>0, <1>4, Zenon DEF CopyFb, RefreshTypeOK, locals, retrace
    <2> QED BY <1>0, <2>1, <2>2, <2>3, TypesKept DEF TypeOK
  <1>5. CASE CopyXmap
    <2>1. UNCHANGED ringVars BY <1>5, Zenon DEF CopyXmap, ringVars, fences, consumer
    <2>2. PictureTypeOK'
      <3>1. UNCHANGED <<mode, consumer, fb_dirty, snap, borrowed, output>> BY <1>5, Zenon DEF CopyXmap
      <3>2. smode' \in 0 .. mode'
        <4>1. mode \in Nat /\ smode \in 0 .. mode BY <1>0 DEF PictureTypeOK, RingTypeOK
        <4>2. smode' = mode \/ smode' = smode BY <1>5, Zenon DEF CopyXmap
        <4> QED BY <3>1, <4>1, <4>2
      <3>3. xmap_dirty' \in BOOLEAN BY <1>5, Zenon DEF CopyXmap
      <3> QED BY <1>0, <3>1, <3>2, <3>3, Zenon DEF PictureTypeOK, consumer, output
    <2>3. RefreshTypeOK' BY <1>0, <1>5, Zenon DEF CopyXmap, RefreshTypeOK, locals, retrace
    <2> QED BY <1>0, <2>1, <2>2, <2>3, TypesKept DEF TypeOK
  <1>6. CASE Present
    <2>1. UNCHANGED ringVars BY <1>6, Zenon DEF Present, ringVars, guest, fences, consumer
    <2>2. PictureTypeOK'
      <3>1. shownMode' = smode /\ UNCHANGED <<guest, consumer, fb_dirty, screen>> BY <1>6, Zenon DEF Present
      <3>2. shown' = drawn \/ shown' = snap BY <1>6, Zenon DEF Present
      <3>3. rgba' = drawn \/ rgba' = snap \/ rgba' = rgba BY <1>6, Zenon DEF Present
      <3> QED BY <1>0, <3>1, <3>2, <3>3 DEF PictureTypeOK, RingTypeOK, guest, consumer, screen
    <2>3. RefreshTypeOK'
      <3>1. full' \in BOOLEAN BY <1>6, Zenon DEF Present
      <3>2. /\ rpc' = "clear"
            /\ UNCHANGED <<target, owed, fbd, pal, since, sbo, rend, want, retrace, frame_request>>
        BY <1>6, Zenon DEF Present
      <3> QED BY <1>0, <3>1, <3>2, Zenon DEF RefreshTypeOK, retrace
    <2> QED BY <1>0, <2>1, <2>2, <2>3, TypesKept DEF TypeOK
  <1> QED BY <1>1, <1>2, <1>3, <1>4, <1>5, <1>6, Zenon DEF Refresh

-----------------------------------------------------------------------------
(* Theorems *)

\* In the initial state the ring is empty and no fence was counted.
LEMMA InitDisplay == Init => DisplayInv
  <1> SUFFICES ASSUME Init PROVE DisplayInv OBVIOUS
  <1>2. Len(fifo) = 0 /\ fifo = <<>> BY Zenon DEF Init
  <1>1. TypeOK
    <2>1. fifo \in Seq({Draw} \cup {DispSync(f) : f \in 0 .. FenceMod - 1}) BY <1>2
    <2>2. /\ pushed \in 0 .. MaxDraws /\ drawn \in 0 .. pushed /\ mode \in 0 .. MaxModes /\ Len(fifo) <= Cap
          /\ xmap_fence \in 0 .. FenceMod - 1 /\ gfifo_fence \in 0 .. FenceMod - 1
          /\ target \in 0 .. FenceMod - 1 /\ since \in 0 .. IDLE_HEARTBEAT_FRAMES
          /\ need \in 0 .. MaxDraws /\ owed \in 0 .. MaxDraws
          /\ snap \in 0 .. drawn /\ shown \in 0 .. drawn /\ rgba \in 0 .. drawn
          /\ smode \in 0 .. mode /\ shownMode \in 0 .. mode
      BY <1>2, DisplayBounds, FenceAssumption, HeartbeatAssumption DEF Init
    <2>3. /\ {xmap_dirty, had, forced, fb_dirty, fbd, pal, full, sbo, rend, want, borrowed, vrint, line,
              frame_request} \subseteq BOOLEAN
          /\ apc = "idle" /\ kpc = "peek" /\ rpc = "top"
      BY Zenon DEF Init
    <2> QED BY <2>1, <2>2, <2>3, Zenon DEF TypeOK, RingTypeOK, PictureTypeOK, RefreshTypeOK
  <1>3. Upto(fifo, 0, "sync") = 0 /\ Upto(fifo, 0, "draw") = 0 BY UptoZero
  <1>4. Counted = 0 /\ Queued = 0 BY Zenon DEF Init, Counted, Queued
  <1>5. Executed = 0 BY <1>2, <1>3, <1>4 DEF Executed
  <1>6. 0 % FenceMod = 0
    <2>1. FenceMod \in Nat \ {0} BY FenceAssumption, DisplayBounds
    <2>2. 0 \in Int /\ 0 \in 0 .. FenceMod - 1 /\ 0 = FenceMod * 0 + 0 BY <2>1
    <2> QED BY <2>1, <2>2, Remainder, Zenon
  <1>7. RingOK BY <1>2, <1>3, <1>4, <1>5, <1>6 DEF Init, RingOK
  <1>8. Owes(0, 0) BY <1>2, <1>3 DEF Owes, Init
  <1>9. WaitOK(0) BY <1>4, <1>5, <1>6, <1>8 DEF WaitOK, Init
  <1>10. 0 \in 0 .. MaxModes BY DisplayBounds
  <1>11. need <= pushed /\ owed <= pushed /\ Owes(Counted, need) BY <1>4, <1>8 DEF Init
  <1> QED BY <1>1, <1>7, <1>9, <1>10, <1>11, Zenon DEF DisplayInv

\* Every step of every thread preserves the invariant.
LEMMA NextDisplay == DisplayInv /\ [Next]_vars => DisplayInv'
  <1> SUFFICES ASSUME DisplayInv, [Next]_vars PROVE DisplayInv' OBVIOUS
  <1>1. CASE UNCHANGED vars
    <2>1. TypeOK'
      <3>1. UNCHANGED ringVars /\ UNCHANGED <<drawn, mode, pictureVars>> /\ UNCHANGED refreshVars
        BY <1>1, Zenon DEF vars, ringVars, pictureVars, refreshVars, guest, fences, consumer, locals,
                           screen, output, retrace
      <3> QED BY <3>1, TypesKept, Zenon DEF DisplayInv, TypeOK
    <2>2. /\ UNCHANGED <<pushed, fifo, drawn, xmap_fence, gfifo_fence, need, forced, target, owed>>
          /\ UNCHANGED <<kpc, rpc, apc, mode>>
      BY <1>1, Zenon DEF vars, guest, fences, consumer, locals
    <2>3. Counted' = Counted /\ Queued' = Queued /\ Waited' = Waited BY <2>2, Zenon DEF Counted, Queued, Waited
    <2>4. (apc \in {"fence", "sync"} => mode >= 1) /\ (kpc = "execute" => fifo # <<>>)
      BY Zenon DEF DisplayInv, RingOK
    <2> QED BY <2>1, <2>2, <2>3, <2>4, OtherStep, Zenon
  <1>2. CASE Guest
    <2>0. TypeOK' BY <1>2, GuestTypes
    <2>1. CASE Fence BY <2>0, <2>1, FenceStep
    <2>2. CASE PushDraw \/ PushSync BY <2>0, <2>2, PushStep
    <2>3. CASE ModeWrite \/ ReadStatus \/ DropLine
      <3>1. /\ UNCHANGED <<pushed, fifo, drawn, xmap_fence, gfifo_fence, need, forced, target, owed>>
            /\ UNCHANGED <<kpc, rpc>>
        BY <2>3, Zenon DEF ModeWrite, ReadStatus, DropLine, fences, consumer, locals
      <3>2. mode \in Nat BY DisplayBounds DEF DisplayInv, TypeOK, RingTypeOK, RefreshTypeOK
      <3>3. /\ Counted' = Counted /\ Queued' = Queued /\ Waited' = Waited
            /\ apc' \in {"fence", "sync"} => mode' >= 1
        BY <2>3, <3>1, <3>2 DEF ModeWrite, ReadStatus, DropLine, Counted, Queued, Waited
      <3>4. kpc = "execute" => fifo # <<>> BY Zenon DEF DisplayInv, RingOK
      <3> QED BY <2>0, <3>1, <3>3, <3>4, OtherStep, Zenon
    <2> QED BY <1>2, <2>1, <2>2, <2>3 DEF Guest
  <1>3. CASE Consumer
    <2>0. TypeOK' BY <1>3, ConsumerTypes
    <2>1. CASE Execute BY <2>0, <2>1, ExecuteStep
    <2>2. CASE Peek
      <3>1. /\ UNCHANGED <<pushed, fifo, drawn, xmap_fence, gfifo_fence, need, forced, target, owed>>
            /\ UNCHANGED <<rpc, apc, mode>> /\ fifo # <<>>
        BY <2>2, Zenon DEF Peek, guest, fences, locals
      <3>2. Counted' = Counted /\ Queued' = Queued /\ Waited' = Waited BY <3>1, Zenon DEF Counted, Queued, Waited
      <3>3. apc \in {"fence", "sync"} => mode >= 1 BY Zenon DEF DisplayInv, RingOK
      <3> QED BY <2>0, <3>1, <3>2, <3>3, OtherStep, Zenon
    <2> QED BY <1>3, <2>1, <2>2 DEF Consumer
  <1>4. CASE Refresh \/ RequestFrame
    <2>0. TypeOK' BY <1>4, RefreshTypes
    <2>1. CASE Top BY <2>0, <2>1, TopStep
    <2>2. CASE FencePassed \/ FenceTimeout BY <2>0, <2>2, WaitStep
    <2>3. CASE \/ Palette \/ Swap \/ StatusBarOnly \/ CopyFb \/ CopyXmap \/ Want \/ Vrint
               \/ Raise \/ Present \/ Clear \/ RequestFrame
      <3>1. /\ UNCHANGED <<pushed, fifo, drawn, xmap_fence, gfifo_fence, need, forced, target, owed>>
            /\ UNCHANGED <<kpc, apc, mode>>
        BY <2>3, Zenon DEF Palette, Swap, StatusBarOnly, CopyFb, CopyXmap, Want, Vrint, Raise, Present, Clear,
                    RequestFrame, guest, fences, consumer, locals
      <3>2. Waited' => Waited
        BY <2>3, Zenon DEF Palette, Swap, StatusBarOnly, CopyFb, CopyXmap, Want, Vrint, Raise, Present, Clear,
                    RequestFrame, Waited
      <3>3. Counted' = Counted /\ Queued' = Queued BY <3>1, Zenon DEF Counted, Queued
      <3>4. (apc \in {"fence", "sync"} => mode >= 1) /\ (kpc = "execute" => fifo # <<>>)
        BY DEF DisplayInv, RingOK
      <3> QED BY <2>0, <3>1, <3>2, <3>3, <3>4, OtherStep, Zenon
    <2> QED BY <1>4, <2>1, <2>2, <2>3 DEF Refresh
  <1> QED BY <1>1, <1>2, <1>3, <1>4 DEF Next

\* refresh_loop: a frame whose wait for its fence was not given up shows every
\* draw the guest queued before the fence, however the threads interleave and
\* however often the fence counter wraps.
THEOREM FramesFollowFences == Spec => []FenceOrdersDraws
  <1>1. DisplayInv => FenceOrdersDraws
    <2> SUFFICES ASSUME DisplayInv, Waited, ~forced PROVE owed <= drawn
      BY Zenon DEF FenceOrdersDraws, Waited, DisplayInv
    <2>1. PICK n \in 0 .. MaxModes : WaitOK(n) BY DEF DisplayInv
    <2>2. n <= Executed /\ Owes(n, owed) BY <2>1 DEF WaitOK
    <2>0. TypeOK /\ RingOK BY DEF DisplayInv
    <2>3. Executed \in Nat /\ 0 \in 0 .. Len(fifo) /\ drawn \in Nat
      <3>1. Executed \in Nat BY <2>0, Numbers, Zenon
      <3>2. fifo \in Seq(Entries) BY <2>0, RingType, Zenon
      <3>3. drawn \in Nat BY <2>0, DisplayBounds DEF TypeOK, RingTypeOK, RefreshTypeOK
      <3> QED BY <3>1, <3>2, <3>3
    <2>4. Upto(fifo, 0, "sync") = 0 /\ Upto(fifo, 0, "draw") = 0 BY UptoZero
    <2>5. n <= Executed + Upto(fifo, 0, "sync") BY <2>2, <2>3, <2>4
    <2>6. owed <= drawn + Upto(fifo, 0, "draw") BY <2>2, <2>3, <2>5, Zenon DEF Owes
    <2> QED BY <2>3, <2>4, <2>6
  <1>2. Spec => []DisplayInv BY InitDisplay, NextDisplay, PTL DEF Spec
  <1> QED BY <1>1, <1>2, PTL
=============================================================================
