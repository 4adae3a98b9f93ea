------------------------- MODULE UsbTransportProofs -------------------------
(***************************************************************************)
(* The ownership of URB slots, and that a write reports no more than was     *)
(* moved, for any number of slots, any chunk size and any sequence of        *)
(* transfers, device answers and kernel delays.                              *)
(***************************************************************************)
EXTENDS UsbTransport, FiniteSetTheorems, TLAPS

\* Where the kernel's URBs may be: queued or reapable, never both, and only queued
\* ones are asked back.
KernelQueues ==
  /\ pending \cap done = {}
  /\ discarding \subseteq pending

\* While a round is being submitted, the slots still to go are allocated and fresh.
FreshSlots == pc = "submit" => mine \ submitted \subseteq in_use \ reaped

SlotInv == KernelHoldsItsSlots /\ KernelQueues /\ FreshSlots

\* As long as no drain has failed, the slots in use are those of the current round
\* that are not reaped, none is left when it is scored, and the state says so.
RoundOwnsSlots ==
  deaths = 0 =>
    /\ pc \in {"idle", "round"} => in_use = {}
    /\ pc = "submit" => in_use = mine /\ mine \cap reaped = {}
    /\ pc \in {"reap", "drain", "draining", "score"} => in_use = Unreaped
    /\ pc = "score" => Unreaped = {}
    /\ state = IF pc = "draining" THEN "Draining" ELSE "Healthy"

PcTyped == pc \in {"idle", "round", "submit", "reap", "drain", "draining", "score"}

IInv == SlotInv /\ RoundOwnsSlots /\ PcTyped

\* A new transport has no URB anywhere.
LEMMA InitIInv == Init => IInv
  BY Zenon DEF Init, IInv, SlotInv, KernelHoldsItsSlots, KernelQueues, FreshSlots,
         RoundOwnsSlots, PcTyped, Unreaped

\* Each step of the host, the kernel or the device keeps the slots owned: a slot
\* leaves in_use only with its URB reaped or never submitted.
LEMMA StepIInv == IInv /\ [Next]_vars => IInv'
<1> SUFFICES ASSUME IInv, [Next]_vars PROVE IInv'
  BY Zenon
<1> USE DEF IInv, SlotInv, KernelHoldsItsSlots, KernelQueues, FreshSlots,
            RoundOwnsSlots, PcTyped, Unreaped
<1>1. CASE StartRound
  BY Zenon, <1>1 DEF StartRound, Allocated, Free, Return, kernel
<1>2. CASE SubmitFails
  BY Zenon, <1>2 DEF SubmitFails, kernel, hist
<1>3. CASE ReapFails
  BY Zenon, <1>3 DEF ReapFails, arena, kernel, hist
<1>4. CASE Reaped
  BY Zenon, <1>4 DEF Reaped, arena, kernel, hist
<1>5. CASE StartDrain
  BY Zenon, <1>5 DEF StartDrain, arena, hist
<1>6. CASE DrainEnds
  BY <1>6 DEF DrainEnds, arena, kernel
<1>7. CASE Score
  BY Zenon, <1>7 DEF Score, Return, arena, kernel, hist
<1>8. CASE \E s \in Slots : Submit(s)
  BY Zenon, <1>8 DEF Submit, NextToSubmit, hist
<1>9. CASE \E s \in Slots : Reap(s)
  BY <1>9 DEF Reap, TakeReaped, hist
<1>10. CASE \E s \in Slots : DrainReap(s)
  BY <1>10 DEF DrainReap, TakeReaped, call, hist
<1>11. CASE \E d \in Endpoints, n \in 1..MaxLen : StartCall(d, n)
  BY Zenon, <1>11 DEF StartCall, Return, arena, kernel
<1>12. CASE \E s \in Slots : DeviceServes(s)
  BY Zenon, <1>12 DEF DeviceServes, Served, CompletesAs, arena, call
<1>13. CASE \E s \in Slots : DeviceFails(s)
  BY <1>13 DEF DeviceFails, Served, CompletesAs, arena, call
<1>14. CASE \E s \in Slots : KernelUnlinks(s)
  BY <1>14 DEF KernelUnlinks, CompletesAs, arena, call
<1>15. CASE Unplug
  BY Zenon, <1>15 DEF Unplug, arena, call, hist
<1>16. CASE reset \/ \E e \in Endpoints : clear_halt(e)
  BY Zenon, <1>16 DEF reset, clear_halt, arena, call, hist
<1>17. CASE UNCHANGED vars
  BY Zenon, <1>17 DEF vars, arena, kernel, call, hist
<1> QED
  BY <1>1, <1>2, <1>3, <1>4, <1>5, <1>6, <1>7, <1>8, <1>9, <1>10, <1>11, <1>12,
     <1>13, <1>14, <1>15, <1>16, <1>17 DEF Next, HostStep

\* The invariant holds in every reachable state.
THEOREM Invariance == Spec => []IInv
  BY InitIInv, StepIInv, PTL DEF Spec

\* allocate never hands out a slot whose URB the kernel still holds, whatever was
\* discarded, lost or drained late: the memory behind a submitted URB is not reused.
THEOREM SlotsAreNotReused == Spec => []KernelHoldsItsSlots
<1>1. IInv => KernelHoldsItsSlots
  BY Zenon DEF IInv, SlotInv
<1> QED
  BY <1>1, Invariance, PTL

\* Until a drain fails, a finished bulk call leaves no slot allocated, no URB in the
\* kernel and the state Healthy: short submissions, errors and drains leak nothing.
THEOREM FinishedCallsLeakNothing == Spec => []FinishedCallIsClean
<1>1. IInv => FinishedCallIsClean
  BY Zenon DEF IInv, SlotInv, RoundOwnsSlots, KernelHoldsItsSlots, FinishedCallIsClean
<1> QED
  BY <1>1, Invariance, PTL

-----------------------------------------------------------------------------
(* Induction over the positions of a round, for one set at a time.          *)

LEMMA NatOrder ==
  \E R : IsWellFoundedOn(R, Nat) /\ \A x, y \in Nat : y < x => <<y, x>> \in R
<1>1. \A x, y \in Nat : y < x => <<y, x>> \in OpToRel(<, Nat)
  BY Zenon DEF OpToRel
<1> QED
  BY Zenon, <1>1, NatLessThanWellFounded

LEMMA SetInduction ==
  ASSUME NEW T, 0 \in T, \A n \in Nat : n \in T => n + 1 \in T
  PROVE  Nat \subseteq T
<1>1. SUFFICES ASSUME Nat \ T # {} PROVE FALSE
  BY Zenon
<1>2. PICK R : IsWellFoundedOn(R, Nat) /\ \A x, y \in Nat : y < x => <<y, x>> \in R
  BY Zenon, NatOrder
<1>3. PICK x \in Nat \ T : \A y \in Nat \ T : ~(<<y, x>> \in R)
  BY Zenon, <1>1, <1>2, WFMin
<1>4. PICK y \in Nat : x = y + 1 /\ y < x
  BY <1>3
<1>5. y \in T
  BY Zenon, <1>2, <1>3, <1>4
<1> QED
  BY Zenon, <1>3, <1>4, <1>5

-----------------------------------------------------------------------------
(* contiguous_prefix.                                                       *)

\* What the loop adds from each position on.
Sums(os, g) ==
  g = [i \in 0..NSlots |-> IF i = NSlots \/ os[i] = None THEN 0 ELSE os[i] + g[i + 1]]

\* The loop has a sum from any of the last n positions on.
SumsFrom(os, n) ==
  \E g \in [NSlots - n..NSlots -> Int] : \A i \in NSlots - n..NSlots :
    g[i] = IF i = NSlots \/ os[i] = None THEN 0 ELSE os[i] + g[i + 1]

\* The recursion ends: there is such a function.
LEMMA SumsExist ==
  ASSUME NEW os \in [0..NSlots - 1 -> Int]
  PROVE  \E g \in [0..NSlots -> Int] : Sums(os, g)
<1> DEFINE T == {n \in Nat : n <= NSlots => SumsFrom(os, n)}
<1>1. NSlots \in Nat
  BY TransportAssumption
<1>2. 0 \in T
  <2>1. NSlots - 0..NSlots = {NSlots}
    BY <1>1
  <2>2. PICK g \in [{NSlots} -> Int] : g[NSlots] = 0
    <3>1. [i \in {NSlots} |-> 0] \in [{NSlots} -> Int] /\ [i \in {NSlots} |-> 0][NSlots] = 0
      OBVIOUS
    <3> QED
      BY Zenon, <3>1
  <2>3. SumsFrom(os, 0)
    BY Zenon, <2>1, <2>2 DEF SumsFrom
  <2>4. 0 \in Nat
    OBVIOUS
  <2> QED
    BY Zenon, <2>3, <2>4
<1>3. ASSUME NEW n \in Nat, n \in T PROVE n + 1 \in T
  <2>0. n + 1 \in Nat
    OBVIOUS
  <2>1. SUFFICES ASSUME n + 1 <= NSlots PROVE SumsFrom(os, n + 1)
    BY Zenon, <2>0
  <2>2. PICK p \in 0..NSlots - 1 : p = NSlots - (n + 1) /\ p + 1 = NSlots - n
    BY <1>1, <2>1
  <2>3. SumsFrom(os, n)
    BY <1>1, <1>3, <2>1
  <2>4. PICK g \in [p + 1..NSlots -> Int] : \A i \in p + 1..NSlots :
               g[i] = IF i = NSlots \/ os[i] = None THEN 0 ELSE os[i] + g[i + 1]
    BY Zenon, <2>2, <2>3 DEF SumsFrom
  <2> DEFINE v == IF os[p] = None THEN 0 ELSE os[p] + g[p + 1]
             h == [i \in p..NSlots |-> IF i = p THEN v ELSE g[i]]
  <2>5. p + 1 \in p + 1..NSlots /\ p # NSlots /\ os[p] \in Int
    BY <1>1, <2>2
  <2>6. v \in Int
    BY <2>4, <2>5
  <2>7. \A i \in p..NSlots : i = p \/ i \in p + 1..NSlots
    BY <1>1, <2>2
  <2> HIDE DEF v
  <2>8. h \in [p..NSlots -> Int]
    BY Zenon, <2>4, <2>6, <2>7
  <2>9. ASSUME NEW i \in p..NSlots
        PROVE  h[i] = IF i = NSlots \/ os[i] = None THEN 0 ELSE os[i] + h[i + 1]
    <3>1. CASE i = p
      <4>1. p + 1 \in p..NSlots /\ p + 1 # p
        BY <1>1, <2>2
      <4>2. h[p + 1] = g[p + 1]
        BY Zenon, <4>1
      <4> QED
        BY Zenon, <2>5, <3>1, <4>2 DEF v
    <3>2. CASE i # p
      <4>1. i \in p + 1..NSlots /\ h[i] = g[i]
        BY Zenon, <2>7, <3>2
      <4>2. i # NSlots => i + 1 \in p..NSlots /\ i + 1 # p
        BY <1>1, <2>2, <3>2
      <4>3. i # NSlots => h[i + 1] = g[i + 1]
        BY Zenon, <4>2
      <4> QED
        BY Zenon, <2>4, <4>1, <4>3
    <3> QED
      BY Zenon, <3>1, <3>2
  <2> HIDE DEF h
  <2> QED
    BY Zenon, <2>2, <2>8, <2>9 DEF SumsFrom
<1>4. NSlots \in T
  BY Zenon, <1>1, <1>2, <1>3, SetInduction
<1>5. SumsFrom(os, NSlots) /\ NSlots - NSlots = 0
  BY <1>1, <1>4
<1>6. PICK g \in [0..NSlots -> Int] : \A i \in 0..NSlots :
             g[i] = IF i = NSlots \/ os[i] = None THEN 0 ELSE os[i] + g[i + 1]
  BY Zenon, <1>5 DEF SumsFrom
<1>7. Sums(os, g)
  BY Zenon, <1>6 DEF Sums
<1> QED
  BY Zenon, <1>7

\* What contiguous_prefix returns.
LEMMA PrefixSums ==
  ASSUME NEW os \in [0..NSlots - 1 -> Int]
  PROVE  \E g : Sums(os, g) /\ contiguous_prefix(os) = g[0]
<1> DEFINE f == CHOOSE g : g = [i \in 0..NSlots |->
                                  IF i = NSlots \/ os[i] = None THEN 0 ELSE os[i] + g[i + 1]]
<1>1. \E g : g = [i \in 0..NSlots |-> IF i = NSlots \/ os[i] = None THEN 0 ELSE os[i] + g[i + 1]]
  BY Zenon, SumsExist DEF Sums
<1>2. f = [i \in 0..NSlots |-> IF i = NSlots \/ os[i] = None THEN 0 ELSE os[i] + f[i + 1]]
  BY Zenon, <1>1
<1>3. contiguous_prefix(os) = f[0]
  BY Zenon DEF contiguous_prefix
<1>4. Sums(os, f)
  BY Zenon, <1>2 DEF Sums
<1> QED
  BY Zenon, <1>3, <1>4

LEMMA SumsTyped ==
  ASSUME NEW os \in [0..NSlots - 1 -> Int], NEW g, Sums(os, g)
  PROVE  g[0] \in Int
<1> DEFINE T == {n \in Nat : n <= NSlots => g[NSlots - n] \in Int}
<1>1. NSlots \in Nat
  BY TransportAssumption
<1>2. \A i \in 0..NSlots : g[i] = IF i = NSlots \/ os[i] = None THEN 0 ELSE os[i] + g[i + 1]
  BY Zenon DEF Sums
<1>3. 0 \in T
  <2>1. NSlots \in 0..NSlots /\ NSlots - 0 = NSlots /\ 0 \in Nat /\ 0 \in Int
    BY <1>1
  <2> QED
    BY Zenon, <1>2, <2>1
<1>4. ASSUME NEW n \in Nat, n \in T PROVE n + 1 \in T
  <2>1. n + 1 \in Nat
    OBVIOUS
  <2>2. SUFFICES ASSUME n + 1 <= NSlots PROVE g[NSlots - (n + 1)] \in Int
    BY Zenon, <2>1
  <2>3. PICK p \in 0..NSlots - 1 : p = NSlots - (n + 1) /\ p + 1 = NSlots - n
    BY <1>1, <2>2
  <2>4. n <= NSlots /\ p \in 0..NSlots
    BY <1>1, <2>2, <2>3
  <2>5. g[p + 1] \in Int
    BY Zenon, <1>4, <2>3, <2>4
  <2>6. os[p] \in Int
    BY Zenon
  <2>7. os[p] + g[p + 1] \in Int /\ 0 \in Int
    BY <2>5, <2>6
  <2> QED
    BY Zenon, <1>2, <2>3, <2>4, <2>7
<1>5. NSlots \in T
  BY Zenon, <1>1, <1>3, <1>4, SetInduction
<1>6. NSlots <= NSlots /\ NSlots - NSlots = 0
  BY <1>1
<1> QED
  BY Zenon, <1>5, <1>6

LEMMA Glued ==
  ASSUME NEW x \in Nat, NEW c \in Nat, NEW r \in Nat, NEW M,
         x + 1..x + c \subseteq M, x + c + 1..x + c + r \subseteq M
  PROVE  x + 1..x + (c + r) \subseteq M
<1>1. \A u \in x + 1..x + (c + r) : u \in x + 1..x + c \/ u \in x + c + 1..x + c + r
  OBVIOUS
<1> QED
  BY Zenon, <1>1

\* If every outcome stands for units that were moved, each but the last for a whole URB, the
\* units counted were all moved: there is no gap before the end of the count.
LEMMA PrefixMoved ==
  ASSUME NEW os \in [0..NSlots - 1 -> Int], NEW M,
         \A i \in 0..NSlots - 1 : os[i] # None =>
           /\ os[i] \in Nat /\ i * Chunk + 1..i * Chunk + os[i] \subseteq M
           /\ i + 1 < NSlots /\ os[i + 1] # None => os[i] = Chunk
  PROVE  1..contiguous_prefix(os) \subseteq M
<1> DEFINE Good(g, i) == g[i] \in Nat /\ i * Chunk + 1..i * Chunk + g[i] \subseteq M
<1>1. NSlots \in Nat /\ Chunk \in Nat
  BY TransportAssumption
<1>2. PICK g : Sums(os, g) /\ contiguous_prefix(os) = g[0]
  BY Zenon, PrefixSums
<1>3. \A i \in 0..NSlots : g[i] = IF i = NSlots \/ os[i] = None THEN 0 ELSE os[i] + g[i + 1]
  BY Zenon, <1>2 DEF Sums
<1> DEFINE T == {n \in Nat : n <= NSlots => Good(g, NSlots - n)}
<1>4. ASSUME NEW i \in 0..NSlots, g[i] = 0 PROVE Good(g, i)
  <2>1. PICK x \in Nat : x = i * Chunk
    BY <1>1
  <2>2. x + 1..x + 0 = {} /\ 0 \in Nat
    BY <2>1
  <2> QED
    BY Zenon, <1>4, <2>1, <2>2
<1>5. 0 \in T
  <2>1. NSlots \in 0..NSlots /\ NSlots - 0 = NSlots /\ 0 \in Nat
    BY <1>1
  <2>2. g[NSlots] = 0
    BY Zenon, <1>3, <2>1
  <2>3. Good(g, NSlots)
    BY Zenon, <1>4, <2>1, <2>2
  <2> HIDE DEF Good
  <2> QED
    BY Zenon, <2>1, <2>3
<1>6. ASSUME NEW n \in Nat, n \in T PROVE n + 1 \in T
  <2>1. n + 1 \in Nat
    OBVIOUS
  <2>2. SUFFICES ASSUME n + 1 <= NSlots PROVE Good(g, NSlots - (n + 1))
    BY Zenon, <2>1
  <2>3. PICK p \in 0..NSlots - 1 : p = NSlots - (n + 1) /\ p + 1 = NSlots - n
    BY <1>1, <2>2
  <2>4. n <= NSlots /\ p \in 0..NSlots /\ p + 1 \in 0..NSlots /\ p # NSlots
    BY <1>1, <2>2, <2>3
  <2>5. Good(g, p + 1)
    BY Zenon, <1>6, <2>3, <2>4
  <2>6. CASE os[p] = None
    <3>1. g[p] = 0
      BY Zenon, <1>3, <2>4, <2>6
    <3> QED
      BY Zenon, <1>4, <2>3, <2>4, <3>1
  <2>7. CASE os[p] # None
    <3>1. PICK a \in Nat, r \in Nat, x \in Nat : a = os[p] /\ r = g[p + 1] /\ x = p * Chunk
      <4>1. os[p] \in Nat /\ g[p + 1] \in Nat
        BY Zenon, <2>5, <2>7
      <4>2. p * Chunk \in Nat
        BY <1>1
      <4> QED
        BY Zenon, <4>1, <4>2
    <3>2. g[p] = a + r
      BY Zenon, <1>3, <2>4, <2>7, <3>1
    <3>3. x + 1..x + a \subseteq M
      BY Zenon, <2>7, <3>1
    <3>4. CASE r = 0
      <4>1. a + r = a /\ a + r \in Nat
        BY <3>4
      <4> QED
        BY Zenon, <2>3, <3>1, <3>2, <3>3, <4>1
    <3>5. CASE r # 0
      <4>1. p + 1 # NSlots /\ os[p + 1] # None
        BY Zenon, <1>3, <2>4, <3>1, <3>5
      <4>2. p + 1 < NSlots
        BY <1>1, <2>4, <4>1
      <4>3. a = Chunk
        BY Zenon, <2>7, <3>1, <4>1, <4>2
      <4>4. (p + 1) * Chunk = x + a
        BY <1>1, <3>1, <4>3
      <4>5. x + a + 1..x + a + r \subseteq M
        BY Zenon, <2>5, <3>1, <4>4
      <4>6. x + 1..x + (a + r) \subseteq M /\ a + r \in Nat
        BY Glued, <3>3, <4>5
      <4> QED
        BY Zenon, <2>3, <3>1, <3>2, <4>6
    <3> QED
      BY Zenon, <3>4, <3>5
  <2> QED
    BY Zenon, <2>6, <2>7
<1> HIDE DEF Good
<1>7. NSlots \in T
  BY Zenon, <1>1, <1>5, <1>6, SetInduction
<1>8. NSlots <= NSlots /\ NSlots - NSlots = 0
  BY <1>1
<1>9. Good(g, 0)
  BY Zenon, <1>7, <1>8
<1>10. 0 * Chunk + 1 = 1 /\ \A r \in Nat : 0 * Chunk + r = r
  BY <1>1
<1> QED
  BY Zenon, <1>2, <1>9, <1>10 DEF Good

-----------------------------------------------------------------------------
(* The URBs of a round.                                                     *)

\* The units of URB s, should it be in the next round.
Share(s) == IF Rank(s) = NumUrbs - 1 THEN Attempted - Rank(s) * Chunk ELSE Chunk

LEMMA RoundUp ==
  ASSUME NEW a \in Nat, NEW b \in Nat, b > 0
  PROVE  LET k == (a + b - 1) \div b IN k \in Nat /\ a <= k * b /\ (k - 1) * b <= a
<1> DEFINE m == a + b - 1
           k == m \div b
<1>1. m \in Nat
  OBVIOUS
<1> HIDE DEF m
<1>2. k \in Int /\ m % b \in 0..b - 1 /\ m = k * b + (m % b)
  BY <1>1
<1> HIDE DEF k
<1>3. k >= 0
  BY <1>1, <1>2
<1>4. k * b <= m /\ m - b + 1 <= k * b
  BY <1>1, <1>2
<1>5. (k - 1) * b = k * b - b
  BY <1>2
<1>6. k \in Nat /\ a <= k * b /\ (k - 1) * b <= a
  BY <1>2, <1>3, <1>4, <1>5 DEF m
<1> QED
  BY Zenon, <1>6 DEF k, m

LEMMA Ranks ==
  ASSUME NEW s \in Free
  PROVE  Rank(s) \in 0..NSlots - 1
<1> DEFINE R == {t \in Free : t < s}
<1>1. NSlots \in Nat /\ NSlots > 0 /\ s \in 1..NSlots
  BY TransportAssumption DEF Free, Slots
<1>2. IsFiniteSet(1..NSlots) /\ Cardinality(1..NSlots) = NSlots
  BY <1>1, FS_Interval
<1>3. R \subseteq 1..NSlots /\ s \notin R
  BY <1>1 DEF Free, Slots
<1>4. IsFiniteSet(R) /\ Cardinality(R) <= NSlots /\ (Cardinality(R) = NSlots => R = 1..NSlots)
  BY Zenon, <1>2, <1>3, FS_Subset
<1>5. Cardinality(R) \in Nat /\ Cardinality(R) # NSlots
  BY Zenon, <1>1, <1>3, <1>4, FS_CardinalityType
<1>6. Cardinality(R) \in 0..NSlots - 1
  BY <1>1, <1>4, <1>5
<1> QED
  BY Zenon, <1>6 DEF Rank

\* Every URB of a round has at most a chunk of the buffer, and all but the last a whole one.
LEMMA RoundPlan ==
  ASSUME TypeOK, NEW s \in Allocated
  PROVE  /\ s \in Slots /\ s \in Free /\ Rank(s) \in 0..NSlots - 1 /\ Rank(s) \in Nat
         /\ Rank(s) * Chunk \in Nat /\ Share(s) \in Nat /\ Share(s) <= Chunk
         /\ \A t \in Allocated : Rank(s) < Rank(t) => Share(s) = Chunk
<1>1. s \in Free /\ s \in Slots /\ Rank(s) < NumUrbs
  BY Zenon DEF Allocated, Free
<1>2. Rank(s) \in 0..NSlots - 1
  BY Zenon, <1>1, Ranks
<1>3. /\ Chunk \in Nat /\ Chunk > 0 /\ NSlots \in Nat /\ buflen \in Nat
      /\ max_transfer \in Nat
  BY TransportAssumption DEF TypeOK
<1>4. Attempted \in Nat
  BY <1>3 DEF Attempted
<1>5. NumUrbs \in Nat /\ Attempted <= NumUrbs * Chunk /\ (NumUrbs - 1) * Chunk <= Attempted
  BY Zenon, <1>3, <1>4, RoundUp DEF NumUrbs
<1>6. PICK r \in Nat, k \in Nat, a \in Nat : r = Rank(s) /\ k = NumUrbs /\ a = Attempted /\ r < k
  BY <1>1, <1>2, <1>3, <1>4, <1>5
<1>7. r * Chunk \in Nat
  BY <1>3
<1>8. CASE r = k - 1
  <2>1. PICK x \in Nat : x = r * Chunk /\ k * Chunk = x + Chunk
    BY <1>3, <1>8
  <2>2. a <= x + Chunk /\ x <= a
    BY Zenon, <1>5, <1>6, <1>8, <2>1
  <2>3. Share(s) = a - x
    BY Zenon, <1>6, <1>8, <2>1 DEF Share
  <2>4. Share(s) \in Nat /\ Share(s) <= Chunk
    BY <1>3, <2>2, <2>3
  <2>5. ASSUME NEW t \in Allocated, Rank(s) < Rank(t) PROVE FALSE
    <3>1. Rank(t) < k /\ t \in Free
      BY Zenon, <1>6 DEF Allocated
    <3>2. Rank(t) \in 0..NSlots - 1
      BY Zenon, <3>1, Ranks
    <3> QED
      BY <1>3, <1>6, <1>8, <2>5, <3>1, <3>2
  <2> QED
    BY Zenon, <1>1, <1>2, <1>6, <1>7, <2>4, <2>5
<1>9. CASE r # k - 1
  <2>1. Share(s) = Chunk
    BY Zenon, <1>6, <1>9 DEF Share
  <2>2. Chunk <= Chunk
    BY <1>3
  <2> QED
    BY Zenon, <1>1, <1>2, <1>3, <1>6, <1>7, <2>1, <2>2
<1> QED
  BY Zenon, <1>8, <1>9

\* What the device moves is added to the history.
LEMMA Appended ==
  ASSUME NEW q \in Seq(Nat), NEW o \in Nat, NEW n \in Nat,
         NEW m, m = q \o [i \in 1..n |-> o + i]
  PROVE  m \in Seq(Nat) /\ Range(q) \subseteq Range(m) /\ o + 1..o + n \subseteq Range(m)
<1> DEFINE e == [i \in 1..n |-> o + i]
<1>1. e \in Seq(Nat) /\ Len(e) = n
  OBVIOUS
<1>2. \A i \in 1..n : e[i] = o + i
  OBVIOUS
<1> HIDE DEF e
<1>3. m = q \o e
  BY Zenon DEF e
<1>4. m \in Seq(Nat) /\ DOMAIN m = 1..Len(q) + n /\ DOMAIN q = 1..Len(q) /\ Len(q) \in Nat
  BY <1>1, <1>3
<1>5. \A i \in 1..Len(q) : i \in 1..Len(q) + n /\ m[i] = q[i]
  BY <1>1, <1>3
<1>6. ASSUME NEW i \in 1..n
      PROVE  Len(q) + i \in 1..Len(q) + n /\ m[Len(q) + i] = e[i]
  <2>1. PICK j \in 1..Len(q) + n : j = Len(q) + i /\ j > Len(q) /\ j - Len(q) = i
    BY <1>4
  <2>2. (q \o e)[j] = e[j - Len(q)]
    BY <1>1, <2>1
  <2> QED
    BY Zenon, <1>3, <2>1, <2>2
<1>7. Range(q) \subseteq Range(m)
  BY Zenon, <1>4, <1>5 DEF Range
<1>8. ASSUME NEW u \in o + 1..o + n PROVE u \in Range(m)
  <2>1. PICK i \in 1..n : u = o + i
    BY <1>8
  <2>2. m[Len(q) + i] = u /\ Len(q) + i \in DOMAIN m
    BY Zenon, <1>2, <1>4, <1>6, <2>1
  <2> QED
    BY Zenon, <2>2 DEF Range
<1> QED
  BY Zenon, <1>4, <1>7, <1>8

-----------------------------------------------------------------------------
(* Types.                                                                   *)

\* A URB completes with at most its length.
LEMMA CompletesTyped ==
  ASSUME TypeOK, NEW s \in Slots, NEW st \in Statuses, NEW n \in 0..len[s], CompletesAs(s, st, n),
         halted' \subseteq Endpoints
  PROVE  /\ TypeOK' /\ Range(moved) \subseteq Range(moved')
         /\ s \notin older => off[s] + 1..off[s] + n \subseteq Range(moved')
<1>1. /\ pending' = pending \ {s} /\ discarding' = discarding \ {s} /\ done' = done \cup {s}
      /\ status' = [status EXCEPT ![s] = st] /\ actual' = [actual EXCEPT ![s] = n]
      /\ moved' = (IF s \in older THEN moved ELSE moved \o [i \in 1..n |-> off[s] + i])
      /\ UNCHANGED <<state, max_transfer, arena, call, older, deaths, unplugged>>
  BY Zenon DEF CompletesAs, Moves
<1>2. UNCHANGED <<in_use, submitted, reaped, mine, index, off, len, ep, pc, dir, buflen, outcomes, err,
                  result, calls>>
  BY Zenon, <1>1 DEF arena, call
<1>3. n \in Nat /\ off[s] \in Nat /\ moved \in Seq(Nat)
  BY DEF TypeOK
<1>4. /\ moved' \in Seq(Nat) /\ Range(moved) \subseteq Range(moved')
      /\ s \notin older => off[s] + 1..off[s] + n \subseteq Range(moved')
  <2>1. CASE s \in older
    BY Zenon, <1>1, <1>3, <2>1
  <2>2. CASE s \notin older
    <3>1. moved' = moved \o [i \in 1..n |-> off[s] + i]
      BY Zenon, <1>1, <2>2
    <3>2. PICK o \in Nat, m \in {moved'} : o = off[s] /\ m = moved \o [i \in 1..n |-> o + i]
      BY Zenon, <1>3, <3>1
    <3>3. m \in Seq(Nat) /\ Range(moved) \subseteq Range(m) /\ o + 1..o + n \subseteq Range(m)
      BY Zenon, <1>3, <3>2, Appended
    <3> QED
      BY Zenon, <3>2, <3>3
  <2> QED
    BY Zenon, <2>1, <2>2
<1>5. pending' \subseteq Slots /\ discarding' \subseteq Slots /\ done' \subseteq Slots
  BY Zenon, <1>1 DEF TypeOK
<1>6. status' \in [Slots -> Statuses] /\ actual' \in [Slots -> Nat]
  BY <1>1, <1>3 DEF TypeOK
<1>7. TypeOK'
  BY Zenon, <1>1, <1>2, <1>4, <1>5, <1>6 DEF TypeOK
<1> QED
  BY Zenon, <1>4, <1>7

\* A new round lays its URBs out over the buffer.
LEMMA RoundTyped == ASSUME TypeOK, StartRound PROVE TypeOK'
<1>1. /\ outcomes' = [i \in 0..NSlots - 1 |-> None] /\ err' = "none"
      /\ UNCHANGED <<state, max_transfer, kernel, dir, buflen, calls, moved, deaths>>
  BY Zenon DEF StartRound
<1>2. UNCHANGED <<pending, discarding, done, status, actual, halted, unplugged>>
  BY Zenon, <1>1 DEF kernel
<1>3. outcomes' \in [0..NSlots - 1 -> Int]
  BY <1>1 DEF None
<1>4. CASE Cardinality(Free) < NumUrbs
  <2>1. /\ mine' = {} /\ pc' = "idle" /\ result' = -1
        /\ submitted' = submitted \ Free /\ reaped' = reaped \ Free
        /\ UNCHANGED <<in_use, index, off, len, ep, older>>
    BY Zenon, <1>4 DEF StartRound, Return
  <2>2. mine' \subseteq Slots /\ submitted' \subseteq Slots /\ reaped' \subseteq Slots
    BY Zenon, <2>1 DEF TypeOK
  <2>3. result' \in Int
    BY <2>1
  <2> QED
    BY Zenon, <1>1, <1>2, <1>3, <2>1, <2>2, <2>3 DEF TypeOK
<1>5. CASE ~(Cardinality(Free) < NumUrbs)
  <2>1. /\ mine' = Allocated /\ in_use' = in_use \cup Allocated
        /\ submitted' = submitted \ Allocated /\ reaped' = reaped \ Allocated
        /\ index' = [s \in Slots |-> IF s \in Allocated THEN Rank(s) ELSE index[s]]
        /\ off' = [s \in Slots |-> IF s \in Allocated THEN Rank(s) * Chunk ELSE off[s]]
        /\ len' = [s \in Slots |-> IF s \in Allocated THEN Share(s) ELSE len[s]]
        /\ ep' = [s \in Slots |-> IF s \in Allocated THEN dir ELSE ep[s]]
        /\ older' = older \ Allocated /\ pc' = "submit" /\ result' = result
    BY Zenon, <1>5 DEF StartRound, Share
  <2>2. \A s \in Allocated : s \in Slots /\ Rank(s) \in Nat /\ Rank(s) * Chunk \in Nat /\ Share(s) \in Nat
    BY Zenon, RoundPlan
  <2>3. /\ mine' \subseteq Slots /\ in_use' \subseteq Slots /\ submitted' \subseteq Slots
        /\ reaped' \subseteq Slots /\ older' \subseteq Slots
    BY Zenon, <2>1, <2>2 DEF TypeOK
  <2>4. index' \in [Slots -> Nat] /\ off' \in [Slots -> Nat]
    BY Zenon, <2>1, <2>2 DEF TypeOK
  <2>5. len' \in [Slots -> Nat] /\ ep' \in [Slots -> Endpoints]
    BY Zenon, <2>1, <2>2 DEF TypeOK
  <2> QED
    BY Zenon, <1>1, <1>2, <1>3, <2>1, <2>3, <2>4, <2>5 DEF TypeOK
<1> QED
  BY Zenon, <1>4, <1>5

LEMMA PrefixTyped == ASSUME TypeOK PROVE contiguous_prefix(outcomes) \in Int
<1>1. outcomes \in [0..NSlots - 1 -> Int]
  BY Zenon DEF TypeOK
<1> QED
  BY Zenon, <1>1, PrefixSums, SumsTyped

\* Fields stay in their ranges.
LEMMA Typed == TypeOK /\ [Next]_vars => TypeOK'
<1> SUFFICES ASSUME TypeOK, [Next]_vars PROVE TypeOK'
  BY Zenon
<1>1. CASE SubmitFails
  BY Zenon, <1>1 DEF TypeOK, SubmitFails, kernel, hist, Errnos
<1>2. CASE ReapFails
  BY Zenon, <1>2 DEF TypeOK, ReapFails, arena, kernel, hist, Errnos
<1>3. CASE Reaped
  BY Zenon, <1>3 DEF TypeOK, Reaped, arena, kernel, hist
<1>4. CASE StartDrain
  BY Zenon, <1>4 DEF TypeOK, StartDrain, arena, hist
<1>5. CASE DrainEnds
  <2>1. deaths' \in Nat
    BY <1>5 DEF DrainEnds, TypeOK
  <2> QED
    BY Zenon, <1>5, <2>1 DEF TypeOK, DrainEnds, arena, kernel
<1>6. CASE Score
  <2>1. max_transfer' \in MinLimit..StartLimit
    <3>1. max_transfer \in MinLimit..StartLimit /\ MinLimit \in Nat /\ StartLimit \in Nat
            /\ MinLimit <= StartLimit
      BY TransportAssumption DEF TypeOK
    <3>2. Halved \in MinLimit..StartLimit
      BY <3>1 DEF Halved
    <3> QED
      BY Zenon, <1>6, <3>1, <3>2 DEF Score
  <2>2. result' \in Int /\ pc' \in {"round", "idle"}
    <3>1. -1 \in Int /\ result \in Int
      BY DEF TypeOK
    <3> QED
      BY Zenon, <1>6, <3>1, PrefixTyped DEF Score, Return
  <2> QED
    BY Zenon, <1>6, <2>1, <2>2 DEF TypeOK, Score, arena, kernel, hist
<1>7. CASE \E s \in Slots : Submit(s)
  BY Zenon, <1>7 DEF TypeOK, Submit, hist
<1>8. CASE \E s \in Slots : Reap(s)
  <2>1. PICK s \in Slots : Reap(s)
    BY Zenon, <1>8
  <2>2. outcomes' \in [0..NSlots - 1 -> Int]
    <3>1. actual[s] \in Int /\ outcomes \in [0..NSlots - 1 -> Int]
      BY DEF TypeOK
    <3>2. outcomes' = outcomes \/ outcomes' = [outcomes EXCEPT ![index[s]] = actual[s]]
      BY Zenon, <2>1 DEF Reap
    <3> QED
      BY <3>1, <3>2
  <2>3. err' \in Errnos \cup {"none"}
    BY Zenon, <2>1 DEF Reap, TypeOK, Errnos
  <2>4. /\ done' \subseteq Slots /\ in_use' \subseteq Slots /\ reaped' \subseteq Slots
        /\ discarding' \subseteq Slots
    BY Zenon, <2>1 DEF Reap, TakeReaped, TypeOK
  <2> QED
    BY Zenon, <2>1, <2>2, <2>3, <2>4 DEF TypeOK, Reap, hist
<1>9. CASE \E s \in Slots : DrainReap(s)
  BY Zenon, <1>9 DEF TypeOK, DrainReap, TakeReaped, call, hist
<1>10. CASE \E d \in Endpoints, n \in 1..MaxLen : StartCall(d, n)
  <2>1. PICK d \in Endpoints, n \in 1..MaxLen : StartCall(d, n)
    BY Zenon, <1>10
  <2>2. n \in Nat /\ calls + 1 \in Nat /\ <<>> \in Seq(Nat) /\ -1 \in Int
    BY TransportAssumption DEF TypeOK
  <2> QED
    BY Zenon, <2>1, <2>2 DEF TypeOK, StartCall, Return, arena, kernel
<1>11. CASE \E s \in Slots : DeviceServes(s)
  BY Zenon, <1>11, CompletesTyped DEF TypeOK, DeviceServes, Statuses
<1>12. CASE \E s \in Slots : DeviceFails(s)
  <2>1. PICK s \in Slots : DeviceFails(s)
    BY Zenon, <1>12
  <2>2. halted' \subseteq Endpoints
    <3>1. halted' = halted \/ halted' = halted \cup {ep[s]}
      BY Zenon, <2>1 DEF DeviceFails
    <3> QED
      BY <3>1 DEF TypeOK
  <2> QED
    BY Zenon, <2>1, <2>2, CompletesTyped DEF DeviceFails, Statuses
<1>13. CASE \E s \in Slots : KernelUnlinks(s)
  BY Zenon, <1>13, CompletesTyped DEF TypeOK, KernelUnlinks, Statuses
<1>14. CASE Unplug
  <2>1. status' \in [Slots -> Statuses] /\ actual' \in [Slots -> Nat]
    BY <1>14 DEF Unplug, TypeOK, Statuses
  <2>2. done' \subseteq Slots /\ pending' \subseteq Slots /\ discarding' \subseteq Slots
          /\ unplugged' \in BOOLEAN
    BY Zenon, <1>14 DEF Unplug, TypeOK
  <2> QED
    BY Zenon, <1>14, <2>1, <2>2 DEF TypeOK, Unplug, arena, call, hist
<1>15. CASE reset \/ \E e \in Endpoints : clear_halt(e)
  <2>1. halted' \subseteq Endpoints
    BY Zenon, <1>15 DEF TypeOK, reset, clear_halt
  <2> QED
    BY Zenon, <1>15, <2>1 DEF TypeOK, reset, clear_halt, arena, call, hist
<1>16. CASE UNCHANGED vars
  BY Zenon, <1>16 DEF TypeOK, vars, arena, kernel, call, hist
<1> QED
  BY Zenon, <1>1, <1>2, <1>3, <1>4, <1>5, <1>6, <1>7, <1>8, <1>9, <1>10, <1>11, <1>12, <1>13, <1>14,
     <1>15, <1>16, RoundTyped DEF Next, HostStep

-----------------------------------------------------------------------------
(* What a write reports.                                                    *)

Running == {"submit", "reap", "drain", "draining", "score"}

Moved(s) == off[s] + 1..off[s] + len[s] \subseteq Range(moved)

\* The URBs of the round lie one behind the other in the buffer.
Placed ==
  pc \in Running => \A s \in mine :
    /\ s \notin older /\ ep[s] = dir /\ index[s] \in 0..NSlots - 1
    /\ off[s] = index[s] * Chunk /\ len[s] <= Chunk
    /\ \A t \in mine : index[s] < index[t] => len[s] = Chunk

\* An OUT URB that is reaped as a success has moved all its units.
Delivered ==
  pc \in Running /\ dir = "out" =>
    \A s \in done \cap mine : status[s] = "ok" => actual[s] = len[s] /\ Moved(s)

\* Every outcome is that of a URB of the round that has moved all its units.
Scored ==
  pc \in Running /\ dir = "out" =>
    \A i \in 0..NSlots - 1 : outcomes[i] # None =>
      pc # "submit" /\ \E s \in mine : index[s] = i /\ outcomes[i] = len[s] /\ Moved(s)

Reported == pc = "idle" /\ dir = "out" => 1..result \subseteq Range(moved)

MoveInv == Placed /\ Delivered /\ Scored /\ Reported

\* A step that leaves the layout of the round and its outcomes alone.
LEMMA SameRound ==
  ASSUME MoveInv, UNCHANGED <<mine, index, off, len, ep, older, dir, outcomes, result>>,
         Range(moved) \subseteq Range(moved'),
         pc' = pc \/ (pc \in Running /\ pc' \in Running \ {"submit"}),
         \A s \in done' \cap mine :
           (s \in done /\ status'[s] = status[s] /\ actual'[s] = actual[s]) \/ status'[s] # "ok"
  PROVE  MoveInv'
<1>1. \A s : Moved(s) => Moved(s)'
  BY Zenon DEF Moved
<1>2. pc' \in Running => pc \in Running
  BY Zenon
<1>3. Placed'
  BY Zenon, <1>2 DEF MoveInv, Placed
<1>4. Delivered'
  BY Zenon, <1>1, <1>2 DEF MoveInv, Delivered
<1>5. Scored'
  BY Zenon, <1>1, <1>2 DEF MoveInv, Scored
<1>6. Reported'
  BY Zenon DEF MoveInv, Reported, Running
<1> QED
  BY Zenon, <1>3, <1>4, <1>5, <1>6 DEF MoveInv

\* The device, or DISCARDURB, completes a URB.
LEMMA CompletesMoved ==
  ASSUME TypeOK, MoveInv, NEW s \in Slots, NEW st \in Statuses, NEW n \in 0..len[s],
         CompletesAs(s, st, n), halted' \subseteq Endpoints,
         st = "ok" /\ ep[s] = "out" => n = len[s]
  PROVE  MoveInv'
<1>1. /\ done' = done \cup {s}
      /\ status' = [status EXCEPT ![s] = st] /\ actual' = [actual EXCEPT ![s] = n]
      /\ UNCHANGED <<arena, call, older>>
  BY Zenon DEF CompletesAs
<1>2. UNCHANGED <<mine, index, off, len, ep, pc, dir, outcomes, result>>
  BY Zenon, <1>1 DEF arena, call
<1>3. /\ Range(moved) \subseteq Range(moved')
      /\ s \notin older => off[s] + 1..off[s] + n \subseteq Range(moved')
  BY Zenon, CompletesTyped
<1>4. /\ status'[s] = st /\ actual'[s] = n
      /\ \A t \in Slots : t # s => status'[t] = status[t] /\ actual'[t] = actual[t]
  BY <1>1 DEF TypeOK
<1>5. \A t : Moved(t) => Moved(t)'
  BY Zenon, <1>2, <1>3 DEF Moved
<1>6. Placed' /\ Scored' /\ Reported'
  BY Zenon, <1>1, <1>2, <1>3, <1>5 DEF MoveInv, Placed, Scored, Reported
<1>7. Delivered'
  <2>1. SUFFICES ASSUME pc \in Running, dir = "out", NEW t \in done' \cap mine, status'[t] = "ok"
                 PROVE  actual'[t] = len[t] /\ Moved(t)'
    BY Zenon, <1>2 DEF Delivered
  <2>2. CASE t # s
    <3>1. t \in done \cap mine /\ t \in Slots
      BY Zenon, <1>1, <2>2 DEF TypeOK
    <3> QED
      BY Zenon, <1>4, <1>5, <2>1, <2>2, <3>1 DEF MoveInv, Delivered
  <2>3. CASE t = s
    <3>1. s \notin older /\ ep[s] = "out"
      BY Zenon, <2>1, <2>3 DEF MoveInv, Placed
    <3>2. n = len[s]
      BY Zenon, <1>4, <2>1, <2>3, <3>1
    <3> QED
      BY Zenon, <1>2, <1>3, <1>4, <2>3, <3>1, <3>2 DEF Moved
  <2> QED
    BY Zenon, <2>2, <2>3
<1> QED
  BY Zenon, <1>6, <1>7 DEF MoveInv

\* A new round is laid out, and has no outcome yet.
LEMMA RoundMoved == ASSUME TypeOK, IInv, MoveInv, StartRound PROVE MoveInv'
<1>1. /\ outcomes' = [i \in 0..NSlots - 1 |-> None] /\ UNCHANGED <<kernel, dir, moved>>
  BY Zenon DEF StartRound
<1>2. CASE Cardinality(Free) < NumUrbs
  <2>1. pc' = "idle" /\ result' = -1
    BY Zenon, <1>2 DEF StartRound, Return
  <2>2. 1..-1 = {}
    OBVIOUS
  <2> QED
    BY Zenon, <2>1, <2>2 DEF MoveInv, Placed, Delivered, Scored, Reported, Running
<1>3. CASE ~(Cardinality(Free) < NumUrbs)
  <2>1. /\ mine' = Allocated
        /\ index' = [s \in Slots |-> IF s \in Allocated THEN Rank(s) ELSE index[s]]
        /\ off' = [s \in Slots |-> IF s \in Allocated THEN Rank(s) * Chunk ELSE off[s]]
        /\ len' = [s \in Slots |-> IF s \in Allocated THEN Share(s) ELSE len[s]]
        /\ ep' = [s \in Slots |-> IF s \in Allocated THEN dir ELSE ep[s]]
        /\ older' = older \ Allocated /\ pc' = "submit"
    BY Zenon, <1>3 DEF StartRound, Share
  <2>2. \A s \in Allocated : /\ s \in Slots /\ s \in Free /\ Rank(s) \in 0..NSlots - 1 /\ Share(s) <= Chunk
                              /\ \A t \in Allocated : Rank(s) < Rank(t) => Share(s) = Chunk
    BY Zenon, RoundPlan
  <2>3. \A s \in Allocated : /\ index'[s] = Rank(s) /\ off'[s] = Rank(s) * Chunk
                              /\ len'[s] = Share(s) /\ ep'[s] = dir
    BY Zenon, <2>1, <2>2
  <2>4. Placed'
    BY Zenon, <1>1, <2>1, <2>2, <2>3 DEF Placed
  <2>5. Delivered'
    <3>1. done' \cap Allocated = {}
      <4>1. done' = done
        BY Zenon, <1>1 DEF kernel
      <4>2. done \subseteq in_use
        BY Zenon DEF IInv, SlotInv, KernelHoldsItsSlots
      <4> QED
        BY Zenon, <2>2, <4>1, <4>2 DEF Free
    <3> QED
      BY Zenon, <2>1, <3>1 DEF Delivered
  <2>6. Scored' /\ Reported'
    BY Zenon, <1>1, <2>1 DEF Scored, Reported
  <2> QED
    BY Zenon, <2>4, <2>5, <2>6 DEF MoveInv
<1> QED
  BY Zenon, <1>2, <1>3

\* A reaped success is entered under its index.
LEMMA ReapMoved == ASSUME TypeOK, MoveInv, NEW s \in Slots, Reap(s) PROVE MoveInv'
<1>1. /\ UNCHANGED <<mine, index, off, len, ep, older, moved, pc, dir, result, status, actual>>
      /\ done' \subseteq done /\ pc = "reap" /\ s \in done
      /\ \/ outcomes' = outcomes
         \/ /\ s \in mine /\ status[s] = "ok"
            /\ outcomes' = [outcomes EXCEPT ![index[s]] = actual[s]]
  BY Zenon DEF Reap, TakeReaped, Unreaped, hist
<1>2. ASSUME NEW t PROVE Moved(t)' <=> Moved(t)
  BY Zenon, <1>1 DEF Moved
<1>3. Placed' /\ Delivered' /\ Reported'
  BY Zenon, <1>1, <1>2 DEF MoveInv, Placed, Delivered, Reported, Running
<1>4. Scored'
  <2>1. SUFFICES ASSUME dir = "out", NEW i \in 0..NSlots - 1, outcomes'[i] # None
                 PROVE  \E t \in mine : index[t] = i /\ outcomes'[i] = len[t] /\ Moved(t)
    BY Zenon, <1>1, <1>2 DEF Scored
  <2>2. CASE outcomes'[i] = outcomes[i]
    BY Zenon, <1>1, <2>1, <2>2 DEF MoveInv, Scored, Running
  <2>3. CASE outcomes'[i] # outcomes[i]
    <3>1. s \in mine /\ status[s] = "ok" /\ i = index[s] /\ outcomes'[i] = actual[s]
      BY <1>1, <2>3 DEF TypeOK
    <3> QED
      BY Zenon, <1>1, <2>1, <3>1 DEF MoveInv, Delivered, Running
  <2> QED
    BY Zenon, <2>2, <2>3
<1> QED
  BY Zenon, <1>3, <1>4 DEF MoveInv

\* The call returns the units before the first gap.
LEMMA ScoreMoved == ASSUME TypeOK, MoveInv, Score PROVE MoveInv'
<1>1. UNCHANGED <<moved, dir>> /\ pc = "score"
  BY Zenon DEF Score, hist
<1>2. /\ pc' = "round" \/ pc' = "idle"
      /\ pc' = "idle" => result' = contiguous_prefix(outcomes) \/ result' = -1
  BY Zenon DEF Score, Return
<1>3. Placed' /\ Delivered' /\ Scored'
  BY Zenon, <1>2 DEF Placed, Delivered, Scored, Running
<1>4. ASSUME dir = "out" PROVE 1..contiguous_prefix(outcomes) \subseteq Range(moved)
  <2>1. ASSUME NEW i \in 0..NSlots - 1, outcomes[i] # None
        PROVE  /\ outcomes[i] \in Nat /\ i * Chunk + 1..i * Chunk + outcomes[i] \subseteq Range(moved)
               /\ i + 1 < NSlots /\ outcomes[i + 1] # None => outcomes[i] = Chunk
    <3>1. PICK s \in mine : index[s] = i /\ outcomes[i] = len[s] /\ Moved(s)
      BY Zenon, <1>1, <1>4, <2>1 DEF MoveInv, Scored, Running
    <3>2. off[s] = i * Chunk
      BY Zenon, <1>1, <3>1 DEF MoveInv, Placed, Running
    <3>3. i * Chunk + 1..i * Chunk + outcomes[i] \subseteq Range(moved)
      BY Zenon, <3>1, <3>2 DEF Moved
    <3>4. outcomes[i] \in Nat
      BY <3>1 DEF TypeOK
    <3>5. ASSUME i + 1 < NSlots, outcomes[i + 1] # None PROVE outcomes[i] = Chunk
      <4>1. i + 1 \in 0..NSlots - 1 /\ i < i + 1
        BY <3>5, TransportAssumption
      <4>2. PICK t \in mine : index[t] = i + 1
        BY Zenon, <1>1, <1>4, <3>5, <4>1 DEF MoveInv, Scored, Running
      <4> QED
        BY Zenon, <1>1, <3>1, <4>1, <4>2 DEF MoveInv, Placed, Running
    <3> QED
      BY Zenon, <3>3, <3>4, <3>5
  <2>2. outcomes \in [0..NSlots - 1 -> Int]
    BY Zenon DEF TypeOK
  <2> QED
    BY Zenon, <2>1, <2>2, PrefixMoved
<1>5. Reported'
  <2>1. 1..-1 = {}
    OBVIOUS
  <2> QED
    BY Zenon, <1>1, <1>2, <1>4, <2>1 DEF Reported
<1> QED
  BY Zenon, <1>3, <1>5 DEF MoveInv

\* Every step keeps the account of a write true.
LEMMA StepMoveInv == TypeOK /\ IInv /\ MoveInv /\ [Next]_vars => MoveInv'
<1> SUFFICES ASSUME TypeOK, IInv, MoveInv, [Next]_vars PROVE MoveInv'
  BY Zenon
<1>1. CASE StartRound
  BY Zenon, <1>1, RoundMoved
<1>2. CASE SubmitFails
  <2>1. /\ UNCHANGED <<index, off, len, ep, older, dir, outcomes, moved, done, status, actual>>
        /\ pc = "submit" /\ pc' \in {"score", "drain"} /\ mine' \subseteq mine
    BY Zenon, <1>2 DEF SubmitFails, kernel, hist
  <2>2. dir = "out" => \A i \in 0..NSlots - 1 : outcomes[i] = None
    BY Zenon, <2>1 DEF MoveInv, Scored, Running
  <2>3. ASSUME NEW t PROVE Moved(t)' <=> Moved(t)
    BY Zenon, <2>1 DEF Moved
  <2>4. Placed' /\ Scored' /\ Reported'
    BY Zenon, <2>1, <2>2 DEF MoveInv, Placed, Scored, Reported, Running
  <2>5. Delivered'
    BY Zenon, <2>1, <2>3 DEF MoveInv, Delivered, Running
  <2> QED
    BY Zenon, <2>4, <2>5 DEF MoveInv
<1>3. CASE ReapFails
  BY Zenon, <1>3, SameRound DEF ReapFails, arena, kernel, hist, Running
<1>4. CASE Reaped
  BY Zenon, <1>4, SameRound DEF Reaped, arena, kernel, hist, Running
<1>5. CASE StartDrain
  BY Zenon, <1>5, SameRound DEF StartDrain, arena, hist, Running
<1>6. CASE DrainEnds
  BY Zenon, <1>6, SameRound DEF DrainEnds, arena, kernel, Running
<1>7. CASE Score
  BY Zenon, <1>7, ScoreMoved
<1>8. CASE \E s \in Slots : Submit(s)
  BY Zenon, <1>8, SameRound DEF Submit, hist, Running
<1>9. CASE \E s \in Slots : Reap(s)
  BY Zenon, <1>9, ReapMoved
<1>10. CASE \E s \in Slots : DrainReap(s)
  BY Zenon, <1>10, SameRound DEF DrainReap, TakeReaped, call, hist
<1>11. CASE \E d \in Endpoints, n \in 1..MaxLen : StartCall(d, n)
  <2>1. pc' = "round" \/ (pc' = "idle" /\ result' = -1)
    BY Zenon, <1>11 DEF StartCall, Return
  <2>2. 1..-1 = {}
    OBVIOUS
  <2> QED
    BY Zenon, <2>1, <2>2 DEF MoveInv, Placed, Delivered, Scored, Reported, Running
<1>12. CASE \E s \in Slots : DeviceServes(s)
  BY Zenon, <1>12, CompletesMoved DEF TypeOK, DeviceServes, Statuses
<1>13. CASE \E s \in Slots : DeviceFails(s)
  <2>1. PICK s \in Slots : DeviceFails(s)
    BY Zenon, <1>13
  <2>2. halted' \subseteq Endpoints
    <3>1. halted' = halted \/ halted' = halted \cup {ep[s]}
      BY Zenon, <2>1 DEF DeviceFails
    <3> QED
      BY <3>1 DEF TypeOK
  <2>3. "stall" # "ok"
    OBVIOUS
  <2> QED
    BY Zenon, <2>1, <2>2, <2>3, CompletesMoved DEF DeviceFails, Statuses
<1>14. CASE \E s \in Slots : KernelUnlinks(s)
  <2>1. "discarded" # "ok"
    OBVIOUS
  <2> QED
    BY Zenon, <1>14, <2>1, CompletesMoved DEF TypeOK, KernelUnlinks, Statuses
<1>15. CASE Unplug
  <2>1. \A s \in done' \cap mine :
          (s \in done /\ status'[s] = status[s] /\ actual'[s] = actual[s]) \/ status'[s] # "ok"
    BY <1>15 DEF Unplug, TypeOK
  <2> QED
    BY Zenon, <1>15, <2>1, SameRound DEF Unplug, arena, call, hist
<1>16. CASE reset \/ \E e \in Endpoints : clear_halt(e)
  BY Zenon, <1>16, SameRound DEF reset, clear_halt, arena, call, hist
<1>17. CASE UNCHANGED vars
  BY Zenon, <1>17, SameRound DEF vars, arena, kernel, call, hist
<1> QED
  BY Zenon, <1>1, <1>2, <1>3, <1>4, <1>5, <1>6, <1>7, <1>8, <1>9, <1>10, <1>11, <1>12,
     <1>13, <1>14, <1>15, <1>16, <1>17 DEF Next, HostStep

\* What bulk_out reports as moved has been moved, for every number of slots, chunk
\* size and size limit: contiguous_prefix stops at the first URB that failed, was
\* drained or was never submitted, and each URB before it was sent whole.
THEOREM ReportsOnlyMoved == Spec => []ReportedWasMoved
<1>1. Init => TypeOK /\ MoveInv
  <2> SUFFICES ASSUME Init PROVE TypeOK /\ MoveInv
    BY Zenon
  <2>1. TypeOK
    <3>1. max_transfer \in MinLimit..StartLimit
      BY TransportAssumption DEF Init
    <3>2. 0 \in Nat /\ 0 \in Int /\ None \in Int /\ <<>> \in Seq(Nat)
      BY DEF None
    <3>3. /\ index \in [Slots -> Nat] /\ off \in [Slots -> Nat] /\ len \in [Slots -> Nat]
          /\ ep \in [Slots -> Endpoints] /\ status \in [Slots -> Statuses]
          /\ actual \in [Slots -> Nat] /\ outcomes \in [0..NSlots - 1 -> Int]
      BY Zenon, <3>2 DEF Init, Endpoints, Statuses
    <3> QED
      BY Zenon, <3>1, <3>2, <3>3 DEF Init, TypeOK, Endpoints
  <2>2. 1..0 = {}
    OBVIOUS
  <2>3. MoveInv
    BY Zenon, <2>2 DEF Init, MoveInv, Placed, Delivered, Scored, Reported, Running
  <2> QED
    BY Zenon, <2>1, <2>3
<1>2. TypeOK /\ MoveInv => ReportedWasMoved
  BY Zenon DEF MoveInv, Reported, ReportedWasMoved
<1> QED
  BY <1>1, <1>2, Typed, StepMoveInv, Invariance, PTL DEF Spec
=============================================================================
