-------------------------- MODULE BtrfsFilesProofs --------------------------
(***************************************************************************)
(* For any volume, names, paths and sizes: the extent tree of a btrfs volume *)
(* records exactly the blocks of its files, the caches a batch keeps across  *)
(* its commits are true of the volume, and a file that finish_file accepted  *)
(* is held until the batch is lost.                                          *)
(***************************************************************************)
EXTENDS BtrfsFiles, FiniteSetTheorems, TLAPS

-----------------------------------------------------------------------------
(* Least and greatest numbers, and induction over one set at a time.         *)

LEMMA NatOrder ==
  \E R : IsWellFoundedOn(R, Nat) /\ \A x, y \in Nat : y < x => <<y, x>> \in R
<1>1. \A x, y \in Nat : y < x => <<y, x>> \in OpToRel(<, Nat)
  BY Zenon DEF OpToRel
<1> QED
  BY Zenon, <1>1, NatLessThanWellFounded

\* A set of naturals that is not empty has a least element.
LEMMA MinIn ==
  ASSUME NEW S, S \subseteq Nat, S # {}
  PROVE  Min(S) \in S /\ \A y \in S : Min(S) <= y
<1>1. PICK R : IsWellFoundedOn(R, Nat) /\ \A x, y \in Nat : y < x => <<y, x>> \in R
  BY Zenon, NatOrder
<1>2. PICK x \in S : \A y \in S : ~(<<y, x>> \in R)
  BY Zenon, <1>1, WFMin
<1>3. \A y \in S : x <= y
  <2>1. ASSUME NEW y \in S PROVE x <= y
    <3>1. x \in Nat /\ y \in Nat /\ ~(y < x)
      BY Zenon, <1>1, <1>2
    <3> QED
      BY <3>1
  <2> QED
    BY Zenon, <2>1
<1>4. \E z \in S : \A y \in S : z =< y
  BY Zenon, <1>3
<1> QED
  BY Zenon, <1>4 DEF Min

LEMMA SetInduction ==
  ASSUME NEW T, 0 \in T, \A n \in Nat : n \in T => n + 1 \in T
  PROVE  Nat \subseteq T
<1>1. SUFFICES ASSUME Nat \ T # {} PROVE FALSE
  BY Zenon
<1>2. PICK x \in Nat \ T : \A y \in Nat \ T : x <= y
  BY Zenon, <1>1, MinIn
<1>3. PICK y \in Nat : x = y + 1 /\ ~(x <= y)
  BY <1>2
<1> QED
  BY Zenon, <1>2, <1>3

\* A set of naturals with a bound, that is not empty, has a greatest element.
LEMMA MaxIn ==
  ASSUME NEW N \in Nat, NEW S, S \subseteq 0..N, S # {}
  PROVE  Max(S) \in S /\ \A y \in S : y <= Max(S)
<1> DEFINE D == {N - y : y \in S}
<1>1. D \subseteq Nat /\ D # {}
  <2>1. \A y \in S : N - y \in Nat
    OBVIOUS
  <2> QED
    BY Zenon, <2>1
<1>2. PICK z \in D : \A d \in D : z <= d
  BY Zenon, <1>1, MinIn
<1>3. PICK x \in S : z = N - x
  BY Zenon, <1>2
<1>4. \A y \in S : N - x <= N - y
  BY Zenon, <1>2, <1>3
<1>5. \A y \in S : x >= y /\ y <= x
  BY <1>4
<1>6. \E m \in S : \A y \in S : m >= y
  BY Zenon, <1>5
<1>7. Max(S) \in S /\ \A y \in S : Max(S) >= y
  BY Zenon, <1>6 DEF Max
<1> QED
  BY <1>7

\* A finite set of naturals has a bound.
LEMMA FiniteBound ==
  ASSUME NEW S, S \subseteq Nat, IsFiniteSet(S)
  PROVE  \E N \in Nat : S \subseteq 0..N
<1>0. PICK n \in Nat : ExistsBijection(1..n, S)
  BY Zenon, FS_CardinalityType
<1>1. PICK f \in [1..n -> S] : \A s \in S : \E k \in 1..n : f[k] = s
  BY Zenon, <1>0 DEF ExistsBijection, Bijection, Surjection, Injection
<1> DEFINE T == {m \in Nat : \E N \in Nat : \A k \in 1..n : k <= m => f[k] <= N}
<1>2. 0 \in T
  <2>1. \A k \in 1..n : ~(k <= 0)
    OBVIOUS
  <2>2. 0 \in Nat
    OBVIOUS
  <2> QED
    BY Zenon, <2>1, <2>2
<1>3. ASSUME NEW m \in Nat, m \in T PROVE m + 1 \in T
  <2>1. PICK N \in Nat : \A k \in 1..n : k <= m => f[k] <= N
    BY Zenon, <1>3
  <2>2. PICK M \in Nat : N <= M /\ (m + 1 \in 1..n => f[m + 1] <= M)
    <3>1. CASE m + 1 \in 1..n
      <4>1. f[m + 1] \in Nat
        BY Zenon, <3>1
      <4>2. f[m + 1] + N \in Nat /\ N <= f[m + 1] + N /\ f[m + 1] <= f[m + 1] + N
        BY <4>1
      <4> QED
        BY Zenon, <4>2
    <3>2. CASE m + 1 \notin 1..n
      <4>1. N <= N
        OBVIOUS
      <4> QED
        BY Zenon, <3>2, <4>1
    <3> QED
      BY Zenon, <3>1, <3>2
  <2>3. ASSUME NEW k \in 1..n, k <= m + 1 PROVE f[k] <= M
    <3>1. CASE k = m + 1
      BY Zenon, <2>2, <3>1
    <3>2. CASE k # m + 1
      <4>1. k <= m
        BY <2>3, <3>2
      <4>2. f[k] <= N /\ f[k] \in Nat
        BY Zenon, <2>1, <4>1
      <4> QED
        BY <2>2, <4>2
    <3> QED
      BY Zenon, <3>1, <3>2
  <2>4. m + 1 \in Nat
    OBVIOUS
  <2> QED
    BY Zenon, <2>3, <2>4
<1>4. n \in T
  BY Zenon, <1>2, <1>3, SetInduction
<1>5. PICK N \in Nat : \A k \in 1..n : k <= n => f[k] <= N
  BY Zenon, <1>4
<1>6. ASSUME NEW s \in S PROVE s \in 0..N
  <2>1. PICK k \in 1..n : f[k] = s
    BY Zenon, <1>1
  <2>2. k <= n
    OBVIOUS
  <2>3. s <= N /\ s \in Nat
    BY Zenon, <1>5, <2>1, <2>2
  <2> QED
    BY <2>3
<1> QED
  BY Zenon, <1>6


-----------------------------------------------------------------------------
(* The blocks a file of a declared size is given.                            *)

\* The first n places of s are the least numbers of S that the places before leave.
LeastFirst(S, n, s) == \A k \in 1..n : s[k] = Min(S \ {s[m] : m \in 1..(k - 1)})

\* What the first n places hold.
Taken(s, n) == {s[m] : m \in 1..n}

\* A set has more elements than fit in fewer places.
LEMMA SomeLeft ==
  ASSUME NEW S, S \subseteq Nat, IsFiniteSet(S), NEW n \in Nat, n < Cardinality(S),
         NEW s, \A m \in 1..n : s[m] \in S
  PROVE  S \ Taken(s, n) # {}
<1> DEFINE f == [m \in 1..n |-> s[m]]
           U == {s[m] : m \in 1..n}
<1>1. f \in Surjection(1..n, U)
  BY Zenon DEF Surjection
<1>2. IsFiniteSet(1..n) /\ Cardinality(1..n) = n
  <2>1. 1 \in Int /\ n \in Int
    OBVIOUS
  <2>2. IsFiniteSet(1..n) /\ Cardinality(1..n) = IF 1 > n THEN 0 ELSE n - 1 + 1
    BY Zenon, <2>1, FS_Interval
  <2> QED
    BY <2>2
<1> HIDE DEF f, U
<1>3. Cardinality(U) <= n
  <2>1. Cardinality(U) <= Cardinality(1..n)
    BY Zenon, <1>1, <1>2, FS_Surjection
  <2> QED
    BY Zenon, <1>2, <2>1
<1>4. ~(Cardinality(S) <= n)
  <2>1. Cardinality(S) \in Nat
    BY Zenon, FS_CardinalityType
  <2> QED
    BY <2>1
<1>5. U \subseteq S /\ U = Taken(s, n)
  BY Zenon DEF U, Taken
<1>6. S # U
  BY Zenon, <1>3, <1>4
<1> QED
  BY Zenon, <1>5, <1>6

\* A choice of the n least numbers one after the other exists.
LEMMA LeastExists ==
  ASSUME NEW S, S \subseteq Nat, IsFiniteSet(S), NEW n \in Nat, n <= Cardinality(S)
  PROVE  \E s \in [1..n -> S] : LeastFirst(S, n, s)
<1> DEFINE T == {m \in Nat : m <= Cardinality(S) => \E s \in [1..m -> S] : LeastFirst(S, m, s)}
<1>1. 0 \in T
  <2>1. 1..0 = {} /\ 0 \in Nat
    OBVIOUS
  <2>2. [x \in {} |-> x] \in [{} -> S]
    BY Zenon
  <2> QED
    BY Zenon, <2>1, <2>2 DEF LeastFirst
<1>2. ASSUME NEW m \in Nat, m \in T PROVE m + 1 \in T
  <2>1. m + 1 \in Nat
    OBVIOUS
  <2>2. SUFFICES ASSUME m + 1 <= Cardinality(S)
                 PROVE  \E s \in [1..(m + 1) -> S] : LeastFirst(S, m + 1, s)
    BY Zenon, <2>1
  <2>3. m < Cardinality(S) /\ m <= Cardinality(S)
    <3>1. Cardinality(S) \in Nat
      BY Zenon, FS_CardinalityType
    <3> QED
      BY <2>2, <3>1
  <2>4. PICK s \in [1..m -> S] : LeastFirst(S, m, s)
    BY Zenon, <1>2, <2>3
  <2>5. PICK v : v = Min(S \ {s[k] : k \in 1..m})
    BY Zenon
  <2>6. v \in S
    <3>1. S \ {s[k] : k \in 1..m} # {}
      <4>1. \A k \in 1..m : s[k] \in S
        BY Zenon
      <4>2. S \ Taken(s, m) # {}
        BY Zenon, <2>3, <4>1, SomeLeft
      <4> QED
        BY Zenon, <4>2 DEF Taken
    <3> QED
      BY Zenon, <2>5, <3>1, MinIn
  <2>7. PICK r : r = [k \in 1..(m + 1) |-> IF k = m + 1 THEN v ELSE s[k]]
    BY Zenon
  <2>8. \A k \in 1..(m + 1) : k = m + 1 \/ (k \in 1..m /\ k # m + 1)
    OBVIOUS
  <2>9. \A k \in 1..m : k \in 1..(m + 1) /\ k # m + 1
    OBVIOUS
  <2>10. r \in [1..(m + 1) -> S] /\ \A k \in 1..m : r[k] = s[k]
    BY Zenon, <2>6, <2>7, <2>8, <2>9
  <2>11. r[m + 1] = v
    <3>1. m + 1 \in 1..(m + 1)
      OBVIOUS
    <3> QED
      BY Zenon, <2>7, <3>1
  <2>12. ASSUME NEW k \in 1..(m + 1) PROVE r[k] = Min(S \ {r[i] : i \in 1..(k - 1)})
    <3>1. \A i \in 1..(k - 1) : i \in 1..m
      OBVIOUS
    <3>2. {r[i] : i \in 1..(k - 1)} = {s[i] : i \in 1..(k - 1)}
      BY Zenon, <2>10, <3>1
    <3>3. CASE k = m + 1
      <4>1. k - 1 = m
        BY <3>3
      <4> QED
        BY Zenon, <2>5, <2>11, <3>2, <3>3, <4>1
    <3>4. CASE k \in 1..m
      BY Zenon, <2>4, <2>10, <3>2, <3>4 DEF LeastFirst
    <3> QED
      BY Zenon, <2>8, <3>3, <3>4
  <2> QED
    BY Zenon, <2>10, <2>12 DEF LeastFirst
<1>3. n \in T
  BY Zenon, <1>1, <1>2, SetInduction
<1> QED
  BY Zenon, <1>3

\* As many blocks as there are places: no block twice.
LEMMA AllDifferent ==
  ASSUME NEW n \in Nat, NEW S, NEW s \in [1..n -> S],
         \A k, m \in 1..n : m < k => s[m] # s[k]
  PROVE  IsFiniteSet(Range(s)) /\ Cardinality(Range(s)) = n
<1>1. DOMAIN s = 1..n
  BY Zenon
<1>2. s \in Surjection(1..n, Range(s))
  BY Zenon, <1>1 DEF Range, Surjection
<1>3. \A k, m \in 1..n : s[k] = s[m] => k = m
  <2>1. ASSUME NEW k \in 1..n, NEW m \in 1..n, s[k] = s[m], k # m PROVE FALSE
    <3>1. k < m \/ m < k
      BY <2>1
    <3> QED
      BY Zenon, <2>1, <3>1
  <2> QED
    BY Zenon, <2>1
<1>4. s \in [1..n -> Range(s)]
  BY Zenon, <1>2 DEF Surjection
<1>5. s \in Injection(1..n, Range(s))
  BY Zenon, <1>1, <1>3, <1>4 DEF Injection, IsInjective
<1>6. IsFiniteSet(1..n) /\ Cardinality(1..n) = n
  <2>1. 1 \in Int /\ n \in Int
    OBVIOUS
  <2>2. IsFiniteSet(1..n) /\ Cardinality(1..n) = IF 1 > n THEN 0 ELSE n - 1 + 1
    BY Zenon, <2>1, FS_Interval
  <2> QED
    BY <2>2
<1> QED
  BY Zenon, <1>2, <1>5, <1>6, FS_Surjection

\* begin_file is given n different free blocks.
LEMMA LowestIs ==
  ASSUME NEW S, S \subseteq Nat, IsFiniteSet(S), NEW n \in Nat, n <= Cardinality(S)
  PROVE  /\ Lowest(S, n) \in Seq(Nat) /\ Len(Lowest(S, n)) = n /\ Range(Lowest(S, n)) \subseteq S
         /\ Cardinality(Range(Lowest(S, n))) = n
<1>1. PICK s : s = Lowest(S, n)
  BY Zenon
<1>2. \E r \in [1..n -> S] : \A k \in 1..n : r[k] = Min(S \ {r[m] : m \in 1..(k - 1)})
  <2>1. PICK r \in [1..n -> S] : LeastFirst(S, n, r)
    BY Zenon, LeastExists
  <2>2. \A k \in 1..n : r[k] = Min(S \ {r[m] : m \in 1..(k - 1)})
    BY Zenon, <2>1 DEF LeastFirst
  <2> QED
    BY Zenon, <2>2
<1>3. s \in [1..n -> S] /\ \A k \in 1..n : s[k] = Min(S \ {s[m] : m \in 1..(k - 1)})
  BY Zenon, <1>1, <1>2 DEF Lowest
<1>4. ASSUME NEW k \in 1..n, NEW m \in 1..n, m < k PROVE s[m] # s[k]
  <2>1. k - 1 \in Nat /\ k - 1 < Cardinality(S) /\ m \in 1..(k - 1)
    <3>1. Cardinality(S) \in Nat
      BY Zenon, FS_CardinalityType
    <3> QED
      BY <1>4, <3>1
  <2>2. \A i \in 1..(k - 1) : i \in 1..n
    OBVIOUS
  <2>3. S \ {s[i] : i \in 1..(k - 1)} # {}
    <3>1. \A i \in 1..(k - 1) : s[i] \in S
      BY Zenon, <1>3, <2>2
    <3>2. S \ Taken(s, k - 1) # {}
      BY Zenon, <2>1, <3>1, SomeLeft
    <3> QED
      BY Zenon, <3>2 DEF Taken
  <2>4. s[k] \in S \ {s[i] : i \in 1..(k - 1)}
    BY Zenon, <1>3, <2>3, MinIn
  <2> QED
    BY Zenon, <2>1, <2>4
<1>5. IsFiniteSet(Range(s)) /\ Cardinality(Range(s)) = n
  BY Zenon, <1>3, <1>4, AllDifferent
<1>6. s \in Seq(Nat) /\ Len(s) = n
  <2>1. s \in [1..n -> Nat]
    BY Zenon, <1>3
  <2> QED
    BY <2>1
<1>7. Range(s) \subseteq S
  BY Zenon, <1>3 DEF Range
<1> QED
  BY Zenon, <1>1, <1>5, <1>6, <1>7

-----------------------------------------------------------------------------
(* Trees.  Held(t, N, lo, hi): t has its five kinds of items, its object      *)
(* numbers are in 1..N, and its files refer to the blocks of lo, and to none   *)
(* outside hi.                                                               *)

Fields == {"type", "nlink", "size"}

Id(kind, k) == IF kind = "inode" THEN k ELSE k[1]

Held(t, N, lo, hi) ==
  /\ DOMAIN t = Kinds
  /\ \A kind \in Kinds : \A k \in DOMAIN t[kind] : Id(kind, k) \in 1..N
  /\ \A i \in DOMAIN t.inode : DOMAIN t.inode[i] = Fields
  /\ lo \subseteq AllBlocks(t) /\ AllBlocks(t) \subseteq hi

Tree(t, N, lo, hi) == t # Failed => Held(t, N, lo, hi)

LEMMA TreeIsNot == ASSUME NEW t, DOMAIN t = Kinds PROVE t # Failed
  BY DEF Failed, Kinds

LEMMA HeldIs ==
  ASSUME NEW t, NEW N, NEW lo, NEW hi, Held(t, N, lo, hi)
  PROVE  t # Failed /\ Tree(t, N, lo, hi)
  BY Zenon, TreeIsNot DEF Held, Tree

\* An item kind replaced.
LEMMA Replaced ==
  ASSUME NEW t, DOMAIN t = Kinds, NEW kind \in Kinds, NEW f
  PROVE  /\ DOMAIN [t EXCEPT ![kind] = f] = Kinds
         /\ [t EXCEPT ![kind] = f][kind] = f
         /\ \A o \in Kinds : o # kind => [t EXCEPT ![kind] = f][o] = t[o]
  BY Zenon

\* New items of another kind than data.
LEMMA PutKind ==
  ASSUME NEW t, NEW N, NEW lo, NEW hi, Held(t, N, lo, hi), NEW kind \in Kinds, kind # "data",
         NEW f, \A k \in DOMAIN f : Id(kind, k) \in 1..N,
         kind = "inode" => \A i \in DOMAIN f : DOMAIN f[i] = Fields,
         NEW u, u = [t EXCEPT ![kind] = f]
  PROVE  Held(u, N, lo, hi)
<1>2. DOMAIN u = Kinds /\ u[kind] = f /\ \A o \in Kinds : o # kind => u[o] = t[o]
  BY Zenon, Replaced DEF Held
<1>3. "data" \in Kinds /\ "inode" \in Kinds
  BY Zenon DEF Kinds
<1>4. AllBlocks(u) = AllBlocks(t)
  BY Zenon, <1>2, <1>3 DEF AllBlocks
<1>5. \A i \in DOMAIN u.inode : DOMAIN u.inode[i] = Fields
  BY Zenon, <1>2, <1>3 DEF Held
<1>6. \A o \in Kinds : \A k \in DOMAIN u[o] : Id(o, k) \in 1..N
  BY Zenon, <1>2 DEF Held
<1> QED
  BY Zenon, <1>2, <1>4, <1>5, <1>6 DEF Held

LEMMA InsTree ==
  ASSUME NEW t, NEW N, NEW lo, NEW hi, Tree(t, N, lo, hi), NEW kind \in Kinds, kind # "data",
         NEW k, Id(kind, k) \in 1..N, NEW v, kind = "inode" => DOMAIN v = Fields
  PROVE  Tree(Ins(t, kind, k, v), N, lo, hi)
<1>1. SUFFICES ASSUME Ins(t, kind, k, v) # Failed PROVE Held(Ins(t, kind, k, v), N, lo, hi)
  BY Zenon DEF Tree
<1>2. PICK f : f = [x \in DOMAIN t[kind] \cup {k} |-> IF x = k THEN v ELSE t[kind][x]]
  BY Zenon
<1>3. t # Failed /\ Ins(t, kind, k, v) = [t EXCEPT ![kind] = f]
  BY Zenon, <1>1, <1>2 DEF Ins
<1>4. Held(t, N, lo, hi)
  BY Zenon, <1>3 DEF Tree
<1>5. \A x \in DOMAIN f : Id(kind, x) \in 1..N
  BY Zenon, <1>2, <1>4 DEF Held
<1>6. kind = "inode" => \A i \in DOMAIN f : DOMAIN f[i] = Fields
  BY Zenon, <1>2, <1>4 DEF Held
<1> QED
  BY Zenon, <1>3, <1>4, <1>5, <1>6, PutKind

LEMMA DelTree ==
  ASSUME NEW t, NEW N, NEW lo, NEW hi, Tree(t, N, lo, hi), NEW kind \in Kinds, kind # "data",
         NEW k
  PROVE  Tree(Del(t, kind, k), N, lo, hi)
<1>1. SUFFICES ASSUME Del(t, kind, k) # Failed PROVE Held(Del(t, kind, k), N, lo, hi)
  BY Zenon DEF Tree
<1>2. PICK f : f = [x \in DOMAIN t[kind] \ {k} |-> t[kind][x]]
  BY Zenon
<1>3. t # Failed /\ Del(t, kind, k) = [t EXCEPT ![kind] = f]
  BY Zenon, <1>1, <1>2 DEF Del
<1>4. Held(t, N, lo, hi)
  BY Zenon, <1>3 DEF Tree
<1>5. \A x \in DOMAIN f : Id(kind, x) \in 1..N
  BY Zenon, <1>2, <1>4 DEF Held
<1>6. kind = "inode" => \A i \in DOMAIN f : DOMAIN f[i] = Fields
  BY Zenon, <1>2, <1>4 DEF Held
<1> QED
  BY Zenon, <1>3, <1>4, <1>5, <1>6, PutKind

\* One item replaced.
Swapped(t, kind, k, v) == [t EXCEPT ![kind] = [t[kind] EXCEPT ![k] = v]]

LEMMA MutTree ==
  ASSUME NEW t, NEW N, NEW lo, NEW hi, Held(t, N, lo, hi), NEW kind \in Kinds, kind # "data",
         NEW k \in DOMAIN t[kind], NEW v, kind = "inode" => DOMAIN v = Fields
  PROVE  Held(Swapped(t, kind, k, v), N, lo, hi)
<1>1. PICK f : f = [t[kind] EXCEPT ![k] = v]
  BY Zenon
<1>2. DOMAIN f = DOMAIN t[kind] /\ f[k] = v /\ \A x \in DOMAIN f : x # k => f[x] = t[kind][x]
  BY Zenon, <1>1
<1>3. \A x \in DOMAIN f : Id(kind, x) \in 1..N
  BY Zenon, <1>2 DEF Held
<1>4. kind = "inode" => \A i \in DOMAIN f : DOMAIN f[i] = Fields
  BY Zenon, <1>2 DEF Held
<1> QED
  BY Zenon, <1>1, <1>3, <1>4, PutKind DEF Swapped

LEMMA GrowTree ==
  ASSUME NEW t, NEW N, NEW lo, NEW hi, Tree(t, N, lo, hi), NEW d, NEW n
  PROVE  Tree(Grow(t, d, n), N, lo, hi)
<1>1. SUFFICES ASSUME Grow(t, d, n) # Failed PROVE Held(Grow(t, d, n), N, lo, hi)
  BY Zenon DEF Tree
<1>2. PICK v : v = [t["inode"][d] EXCEPT !.size = @ + Len2[n]]
  BY Zenon
<1>3. /\ t # Failed /\ d \in DOMAIN t["inode"]
      /\ Grow(t, d, n) = Swapped(t, "inode", d, v)
  BY Zenon, <1>1, <1>2 DEF Grow, Mut, Swapped
<1>4. Held(t, N, lo, hi) /\ "inode" \in Kinds /\ "inode" # "data"
  BY Zenon, <1>3 DEF Tree, Kinds
<1>5. DOMAIN v = Fields
  BY Zenon, <1>2, <1>3, <1>4 DEF Held
<1> QED
  BY Zenon, <1>3, <1>4, <1>5, MutTree

LEMMA ShrinkTree ==
  ASSUME NEW t, NEW N, NEW lo, NEW hi, Tree(t, N, lo, hi), NEW d, NEW n
  PROVE  Tree(Shrink(t, d, n), N, lo, hi)
<1>1. SUFFICES ASSUME Shrink(t, d, n) # Failed PROVE Held(Shrink(t, d, n), N, lo, hi)
  BY Zenon DEF Tree
<1>2. PICK v : v = [t["inode"][d] EXCEPT !.size = Max({0, @ - Len2[n]})]
  BY Zenon
<1>3. /\ t # Failed /\ d \in DOMAIN t["inode"]
      /\ Shrink(t, d, n) = Swapped(t, "inode", d, v)
  BY Zenon, <1>1, <1>2 DEF Shrink, Mut, Swapped
<1>4. Held(t, N, lo, hi) /\ "inode" \in Kinds /\ "inode" # "data"
  BY Zenon, <1>3 DEF Tree, Kinds
<1>5. DOMAIN v = Fields
  BY Zenon, <1>2, <1>3, <1>4 DEF Held
<1> QED
  BY Zenon, <1>3, <1>4, <1>5, MutTree

LEMMA MtimeTree ==
  ASSUME NEW t, NEW N, NEW lo, NEW hi, Tree(t, N, lo, hi), NEW i
  PROVE  /\ Tree(UpdateInodeMtime(t, i), N, lo, hi)
         /\ UpdateInodeMtime(t, i) # Failed => i \in 1..N
<1>1. SUFFICES ASSUME UpdateInodeMtime(t, i) # Failed
               PROVE  Held(UpdateInodeMtime(t, i), N, lo, hi) /\ i \in 1..N
  BY Zenon DEF Tree
<1>2. /\ t # Failed /\ i \in DOMAIN t["inode"]
      /\ UpdateInodeMtime(t, i) = Swapped(t, "inode", i, t["inode"][i])
  BY Zenon, <1>1 DEF UpdateInodeMtime, Mut, Swapped
<1>3. Held(t, N, lo, hi) /\ "inode" \in Kinds /\ "inode" # "data"
  BY Zenon, <1>2 DEF Tree, Kinds
<1>4. DOMAIN t["inode"][i] = Fields
  BY Zenon, <1>2, <1>3 DEF Held
<1>5. i \in 1..N
  BY Zenon, <1>2, <1>3 DEF Held, Id
<1> QED
  BY Zenon, <1>2, <1>3, <1>4, <1>5, MutTree

LEMMA MergeTree ==
  ASSUME NEW t, NEW N, NEW lo, NEW hi, Tree(t, N, lo, hi), NEW d \in 1..N, NEW e
  PROVE  Tree(MergeEntry(t, d, e), N, lo, hi)
<1>1. PICK k : k = <<d, Hash[e.name]>>
  BY Zenon
<1>2. Id("item", k) \in 1..N /\ "item" \in Kinds /\ "item" # "data" /\ "item" # "inode"
  <2>1. k[1] = d
    BY <1>1
  <2> QED
    BY Zenon, <2>1 DEF Id, Kinds
<1>3. CASE t # Failed /\ k \in DOMAIN t.item
  <2>1. MergeEntry(t, d, e) = Swapped(t, "item", k, t["item"][k] \cup {e})
    BY Zenon, <1>1, <1>3 DEF MergeEntry, Mut, Swapped
  <2>2. Held(t, N, lo, hi)
    BY Zenon, <1>3 DEF Tree
  <2>3. Held(MergeEntry(t, d, e), N, lo, hi)
    BY Zenon, <1>2, <1>3, <2>1, <2>2, MutTree
  <2> QED
    BY Zenon, <2>3 DEF Tree
<1>4. CASE ~(t # Failed /\ k \in DOMAIN t.item)
  <2>1. MergeEntry(t, d, e) = Ins(t, "item", k, {e})
    BY Zenon, <1>1, <1>4 DEF MergeEntry
  <2> QED
    BY Zenon, <1>2, <2>1, InsTree
<1> QED
  BY Zenon, <1>3, <1>4

LEMMA TrimTree ==
  ASSUME NEW t, NEW N, NEW lo, NEW hi, Tree(t, N, lo, hi), NEW d, NEW n, NEW i
  PROVE  Tree(TrimEntry(t, d, n, i), N, lo, hi)
<1> DEFINE Keep(es) == {e \in es : ~(e.name = n /\ e.ino = i)}
<1>1. PICK k : k = <<d, Hash[n]>>
  BY Zenon
<1>2. "item" \in Kinds /\ "item" # "data" /\ "item" # "inode"
  BY Zenon DEF Kinds
<1>3. CASE t # Failed /\ k \in DOMAIN t.item /\ Keep(t.item[k]) = {}
  <2>1. TrimEntry(t, d, n, i) = Del(t, "item", k)
    BY Zenon, <1>1, <1>3 DEF TrimEntry
  <2> QED
    BY Zenon, <1>2, <2>1, DelTree
<1>4. CASE ~(t # Failed /\ k \in DOMAIN t.item /\ Keep(t.item[k]) = {})
  <2>1. SUFFICES ASSUME TrimEntry(t, d, n, i) # Failed PROVE Held(TrimEntry(t, d, n, i), N, lo, hi)
    BY Zenon DEF Tree
  <2>2. /\ t # Failed /\ k \in DOMAIN t["item"]
        /\ TrimEntry(t, d, n, i) = Swapped(t, "item", k, Keep(t["item"][k]))
    BY Zenon, <1>1, <1>4, <2>1 DEF TrimEntry, Mut, Swapped
  <2>3. Held(t, N, lo, hi)
    BY Zenon, <2>2 DEF Tree
  <2> QED
    BY Zenon, <1>2, <2>2, <2>3, MutTree
<1> QED
  BY Zenon, <1>3, <1>4

LEMMA SweepTree ==
  ASSUME NEW t, NEW N, NEW hi, Tree(t, N, {}, hi), NEW i
  PROVE  Tree(Sweep(t, i), N, {}, hi)
<1>1. SUFFICES ASSUME Sweep(t, i) # Failed PROVE Held(Sweep(t, i), N, {}, hi)
  BY Zenon DEF Tree
<1>2. PICK u : u = Sweep(t, i)
  BY Zenon
<1>3. t # Failed /\ Held(t, N, {}, hi)
  BY Zenon, <1>1 DEF Sweep, Tree
<1>4. DOMAIN u = Kinds
  BY Zenon, <1>2, <1>3 DEF Sweep, Held
<1>5. ASSUME NEW o \in Kinds, NEW k \in DOMAIN u[o] PROVE k \in DOMAIN t[o] /\ u[o][k] = t[o][k]
  <2>1. u[o] = [x \in {y \in DOMAIN t[o] : IF o = "inode" THEN y # i ELSE y[1] # i} |-> t[o][x]]
    BY Zenon, <1>2, <1>3 DEF Sweep, Held
  <2> QED
    BY Zenon, <2>1
<1>6. "data" \in Kinds /\ "inode" \in Kinds
  BY Zenon DEF Kinds
<1>7. AllBlocks(u) \subseteq hi
  BY Zenon, <1>3, <1>5, <1>6 DEF AllBlocks, Held
<1>8. \A x \in DOMAIN u.inode : DOMAIN u.inode[x] = Fields
  BY Zenon, <1>3, <1>5, <1>6 DEF Held
<1>9. \A o \in Kinds : \A k \in DOMAIN u[o] : Id(o, k) \in 1..N
  BY Zenon, <1>3, <1>5 DEF Held
<1> QED
  BY Zenon, <1>2, <1>4, <1>7, <1>8, <1>9 DEF Held

LEMMA RebalanceTree ==
  ASSUME NEW t, NEW N, NEW lo, NEW hi, Tree(t, N, lo, hi), NEW from, NEW old, NEW to, NEW new,
         NEW replaced
  PROVE  Tree(Rebalance(t, from, old, to, new, replaced), N, lo, hi)
<1>1. SUFFICES ASSUME Rebalance(t, from, old, to, new, replaced) # Failed
               PROVE  Held(Rebalance(t, from, old, to, new, replaced), N, lo, hi)
  BY Zenon DEF Tree
<1>2. "inode" \in Kinds /\ "inode" # "data"
  BY Zenon DEF Kinds
<1>3. PICK less : less = IF replaced THEN Len2[new] ELSE 0
  BY Zenon
<1>4. CASE from = to
  <2>1. PICK v : v = [t["inode"][from] EXCEPT !.size = Max({0, @ - (Len2[old] + less)}) + Len2[new]]
    BY Zenon
  <2>2. /\ t # Failed /\ from \in DOMAIN t["inode"]
        /\ Rebalance(t, from, old, to, new, replaced)
             = Swapped(t, "inode", from, v)
    BY Zenon, <1>1, <1>3, <1>4, <2>1 DEF Rebalance, Mut, Swapped
  <2>3. Held(t, N, lo, hi)
    BY Zenon, <2>2 DEF Tree
  <2>4. DOMAIN v = Fields
    BY Zenon, <2>1, <2>2, <2>3 DEF Held
  <2> QED
    BY Zenon, <1>2, <2>2, <2>3, <2>4, MutTree
<1>5. CASE from # to
  <2>0. PICK s : s = Shrink(t, from, old)
    BY Zenon
  <2>1. PICK v : v = [s["inode"][to] EXCEPT !.size = Max({0, @ - less}) + Len2[new]]
    BY Zenon
  <2>2. /\ s # Failed /\ to \in DOMAIN s["inode"]
        /\ Rebalance(t, from, old, to, new, replaced)
             = Swapped(s, "inode", to, v)
    BY Zenon, <1>1, <1>3, <1>5, <2>0, <2>1 DEF Rebalance, Mut, Swapped
  <2>3. Held(s, N, lo, hi)
    BY Zenon, <2>0, <2>2, ShrinkTree DEF Tree
  <2>4. DOMAIN v = Fields
    BY Zenon, <2>1, <2>2, <2>3 DEF Held
  <2> QED
    BY Zenon, <1>2, <2>2, <2>3, <2>4, MutTree
<1> QED
  BY Zenon, <1>4, <1>5

LEMMA NewInodeTree ==
  ASSUME NEW t, NEW N, NEW lo, NEW hi, Tree(t, N, lo, hi), NEW i \in 1..N, NEW d, NEW n, NEW j, NEW ty
  PROVE  Tree(NewInode(t, i, d, n, j, ty), N, lo, hi)
<1>1. PICK v : v = [type |-> ty, nlink |-> 1, size |-> 0]
  BY Zenon
<1>2. PICK k : k = <<i, d>>
  BY Zenon
<1>3. DOMAIN v = Fields /\ k[1] = i
  BY <1>1, <1>2 DEF Fields
<1>4. Id("inode", i) \in 1..N /\ Id("ref", k) \in 1..N
  BY Zenon, <1>3 DEF Id
<1>5. "inode" \in Kinds /\ "inode" # "data" /\ "ref" \in Kinds /\ "ref" # "data" /\ "ref" # "inode"
  BY Zenon DEF Kinds
<1>6. Tree(Ins(t, "inode", i, v), N, lo, hi)
  BY Zenon, <1>3, <1>4, <1>5, InsTree
<1> QED
  BY Zenon, <1>1, <1>2, <1>4, <1>5, <1>6, InsTree DEF NewInode

LEMMA LinkFileTree ==
  ASSUME NEW t, NEW N, NEW lo, NEW hi, Tree(t, N, lo, hi), NEW d \in 1..N, NEW n, NEW i, NEW j
  PROVE  Tree(LinkFile(t, d, n, i, j), N, lo, hi)
<1>1. PICK k, m : k = <<d, Hash[n]>> /\ m = <<d, j>>
  BY Zenon
<1>2. k[1] = d /\ m[1] = d
  BY <1>1
<1>3. Id("item", k) \in 1..N /\ Id("index", m) \in 1..N
  BY Zenon, <1>2 DEF Id
<1>4. "item" \in Kinds /\ "item" # "data" /\ "item" # "inode"
      /\ "index" \in Kinds /\ "index" # "data" /\ "index" # "inode"
  BY Zenon DEF Kinds
<1>5. Tree(Ins(t, "item", k, {Entry(n, i, "file")}), N, lo, hi)
  BY Zenon, <1>3, <1>4, InsTree
<1> QED
  BY Zenon, <1>1, <1>3, <1>4, <1>5, InsTree DEF LinkFile

\* A merged entry and its index, of a new directory or a renamed child.
LEMMA MergedTree ==
  ASSUME NEW t, NEW N, NEW lo, NEW hi, Tree(t, N, lo, hi), NEW d \in 1..N, NEW e, NEW j
  PROVE  Tree(Ins(MergeEntry(t, d, e), "index", <<d, j>>, e), N, lo, hi)
<1>1. PICK m : m = <<d, j>>
  BY Zenon
<1>2. m[1] = d
  BY <1>1
<1>3. Id("index", m) \in 1..N /\ "index" \in Kinds /\ "index" # "data" /\ "index" # "inode"
  BY Zenon, <1>2 DEF Id, Kinds
<1>4. Tree(MergeEntry(t, d, e), N, lo, hi)
  BY Zenon, MergeTree
<1> QED
  BY Zenon, <1>1, <1>3, <1>4, InsTree

-----------------------------------------------------------------------------
(* Object numbers.                                                           *)

LEMMA HeldMore ==
  ASSUME NEW t, NEW N \in Nat, NEW lo, NEW hi, Held(t, N, lo, hi), NEW M \in Nat, N <= M
  PROVE  Held(t, M, lo, hi)
<1>1. \A x \in 1..N : x \in 1..M
  OBVIOUS
<1> QED
  BY Zenon, <1>1 DEF Held

LEMMA IdIn ==
  ASSUME NEW t, DOMAIN t = Kinds, NEW kind \in Kinds, NEW k \in DOMAIN t[kind]
  PROVE  Id(kind, k) \in ObjectIds(t)
<1>1. CASE kind = "inode"
  <2>1. k \in DOMAIN t.inode /\ Id(kind, k) = k
    BY Zenon, <1>1 DEF Id
  <2> QED
    BY Zenon, <2>1 DEF ObjectIds
<1>2. CASE kind # "inode"
  <2>1. Id(kind, k) = k[1]
    BY Zenon, <1>2 DEF Id
  <2>2. kind \in DOMAIN t \ {"inode"} /\ k[1] \in {x[1] : x \in DOMAIN t[kind]}
    BY Zenon, <1>2
  <2> QED
    BY <2>1, <2>2 DEF ObjectIds
<1> QED
  BY Zenon, <1>1, <1>2

HasId(t, y) == \E kind \in Kinds : \E k \in DOMAIN t[kind] : y = Id(kind, k)

LEMMA IdFrom ==
  ASSUME NEW t, DOMAIN t = Kinds, NEW y \in ObjectIds(t)
  PROVE  HasId(t, y)
<1>1. "inode" \in Kinds
  BY Zenon DEF Kinds
<1>2. CASE y \in DOMAIN t.inode
  BY Zenon, <1>1, <1>2 DEF Id, HasId
<1>3. CASE y \notin DOMAIN t.inode
  <2>1. PICK kind \in DOMAIN t \ {"inode"} : y \in {k[1] : k \in DOMAIN t[kind]}
    BY Zenon, <1>3 DEF ObjectIds
  <2> QED
    BY Zenon, <2>1 DEF Id, HasId
<1> QED
  BY Zenon, <1>2, <1>3

\* find_max_inode gives a number above all others.
LEMMA NextInoIs ==
  ASSUME NEW t, NEW N \in Nat, NEW lo, NEW hi, Held(t, N, lo, hi), DOMAIN t.inode # {}
  PROVE  /\ NextIno(t) \in 1..(N + 1)
         /\ \A kind \in Kinds : \A k \in DOMAIN t[kind] : Id(kind, k) < NextIno(t)
<1>1. PICK S : S = ObjectIds(t)
  BY Zenon
<1>2. ASSUME NEW y \in S PROVE y \in 1..N
  <2>1. DOMAIN t = Kinds
    BY Zenon DEF Held
  <2>2. HasId(t, y)
    BY Zenon, <1>1, <2>1, IdFrom
  <2> QED
    BY Zenon, <2>2 DEF Held, HasId
<1>3. S \subseteq 0..N
  <2>1. \A y \in 1..N : y \in 0..N
    OBVIOUS
  <2> QED
    BY Zenon, <1>2, <2>1
<1>4. S # {}
  BY Zenon, <1>1 DEF ObjectIds
<1>5. PICK m : m = Max(S)
  BY Zenon
<1>6. m \in S /\ \A y \in S : y <= m
  BY Zenon, <1>3, <1>4, <1>5, MaxIn
<1>7. m \in 1..N /\ NextIno(t) = 1 + m
  BY Zenon, <1>1, <1>2, <1>5, <1>6 DEF NextIno
<1>8. NextIno(t) \in 1..(N + 1) /\ \A y \in S : y < NextIno(t)
  <2>1. 1 + m \in 1..(N + 1)
    BY <1>7
  <2>2. \A y \in S : y < 1 + m
    BY <1>2, <1>6, <1>7
  <2> QED
    BY Zenon, <1>7, <2>1, <2>2
<1> QED
  BY Zenon, <1>1, <1>8, IdIn DEF Held

LEMMA DirIs ==
  ASSUME NEW t, NEW N, NEW lo, NEW hi, Held(t, N, lo, hi), NEW d, IsDir(t, d)
  PROVE  d \in 1..N /\ DOMAIN t.inode # {}
<1>1. "inode" \in Kinds
  BY Zenon DEF Kinds
<1> QED
  BY Zenon, <1>1 DEF IsDir, Held, Id

-----------------------------------------------------------------------------
(* The transactions.                                                         *)

LEMMA CreateFileTree ==
  ASSUME NEW t, NEW N \in Nat, NEW lo, NEW hi, Held(t, N, lo, hi), NEW d, NEW n
  PROVE  Tree(CreateEmptyFile(t, d, n), N + 1, lo, hi)
<1>1. SUFFICES ASSUME CreateEmptyFile(t, d, n) # Failed
               PROVE  Tree(CreateEmptyFile(t, d, n), N + 1, lo, hi)
  BY Zenon DEF Tree
<1>2. PICK i, j : i = NextIno(t) /\ j = NextIdx(t, d)
  BY Zenon
<1>3. /\ IsDir(t, d)
      /\ CreateEmptyFile(t, d, n)
           = NewInode(LinkFile(Grow(t, d, n), d, n, i, j), i, d, n, j, "file")
  BY Zenon, <1>1, <1>2 DEF CreateEmptyFile
<1>4. N + 1 \in Nat /\ N <= N + 1
  OBVIOUS
<1>5. Held(t, N + 1, lo, hi)
  BY Zenon, <1>4, HeldMore
<1>6. d \in 1..(N + 1) /\ i \in 1..(N + 1)
  BY Zenon, <1>2, <1>3, <1>5, DirIs, NextInoIs
<1>7. Tree(Grow(t, d, n), N + 1, lo, hi)
  BY Zenon, <1>5, HeldIs, GrowTree
<1> QED
  BY Zenon, <1>3, <1>6, <1>7, LinkFileTree, NewInodeTree

LEMMA CreateDirTree ==
  ASSUME NEW t, NEW N \in Nat, NEW lo, NEW hi, Held(t, N, lo, hi), NEW d, NEW n
  PROVE  Tree(CreateDirectory(t, d, n), N + 1, lo, hi)
<1>1. SUFFICES ASSUME CreateDirectory(t, d, n) # Failed
               PROVE  Tree(CreateDirectory(t, d, n), N + 1, lo, hi)
  BY Zenon DEF Tree
<1>2. PICK i, j, g : i = NextIno(t) /\ j = NextIdx(t, d) /\ g = Grow(t, d, n)
  BY Zenon
<1>3. /\ IsDir(t, d)
      /\ CreateDirectory(t, d, n) = NewInode(LinkDir(g, d, n, i, j), i, d, n, j, "dir")
  BY Zenon, <1>1, <1>2 DEF CreateDirectory, CreateDirectoryInDir
<1>4. N + 1 \in Nat /\ N <= N + 1
  OBVIOUS
<1>5. Held(t, N + 1, lo, hi)
  BY Zenon, <1>4, HeldMore
<1>6. d \in 1..(N + 1) /\ i \in 1..(N + 1)
  BY Zenon, <1>2, <1>3, <1>5, DirIs, NextInoIs
<1>7. Tree(g, N + 1, lo, hi)
  BY Zenon, <1>2, <1>5, HeldIs, GrowTree
<1>8. Tree(LinkDir(g, d, n, i, j), N + 1, lo, hi)
  BY Zenon, <1>6, <1>7, MergedTree DEF LinkDir
<1> QED
  BY Zenon, <1>3, <1>6, <1>8, NewInodeTree

LEMMA DeleteTree ==
  ASSUME NEW t, NEW N \in Nat, NEW lo, NEW hi, Held(t, N, lo, hi), NEW d, NEW n, NEW shared
  PROVE  Tree(DeleteFile(t, d, n, shared), N, {}, hi)
<1>1. SUFFICES ASSUME DeleteFile(t, d, n, shared) # Failed
               PROVE  Tree(DeleteFile(t, d, n, shared), N, {}, hi)
  BY Zenon DEF Tree
<1>2. PICK e : e = TheEntry(t, d, n)
  BY Zenon
<1>3. DeleteFile(t, d, n, shared) = Unlink(t, d, e)
  BY Zenon, <1>1, <1>2 DEF DeleteFile
<1>4. PICK j : j = DirIndex(t, d, e)
  BY Zenon
<1>5. Tree(t, N, {}, hi) /\ "index" \in Kinds /\ "index" # "data"
  BY Zenon, HeldIs DEF Held, Tree, Kinds
<1>6. Tree(TrimEntry(t, d, e.name, e.ino), N, {}, hi)
  BY Zenon, <1>5, TrimTree
<1>7. Tree(Del(TrimEntry(t, d, e.name, e.ino), "index", <<d, j>>), N, {}, hi)
  BY Zenon, <1>5, <1>6, DelTree
<1> QED
  BY Zenon, <1>3, <1>4, <1>7, ShrinkTree, SweepTree DEF Unlink

LEMMA DestinationTree ==
  ASSUME NEW t, NEW N, NEW hi, Tree(t, N, {}, hi), NEW d, NEW dst
  PROVE  Tree(DeleteDestination(t, d, dst), N, {}, hi)
<1>1. Tree(Sweep(t, dst.ino), N, {}, hi) /\ "index" \in Kinds /\ "index" # "data"
  BY Zenon, SweepTree DEF Kinds
<1>2. PICK k : k = <<d, t.ref[<<dst.ino, d>>][1].idx>>
  BY Zenon
<1>3. Tree(Del(Sweep(t, dst.ino), "index", k), N, {}, hi)
  BY Zenon, <1>1, DelTree
<1>4. PICK u : u = IF <<dst.ino, d>> \in DOMAIN t.ref THEN Del(Sweep(t, dst.ino), "index", k)
                   ELSE Sweep(t, dst.ino)
  BY Zenon
<1>5. Tree(u, N, {}, hi)
  BY Zenon, <1>1, <1>3, <1>4
<1>6. DeleteDestination(t, d, dst) = TrimEntry(u, d, dst.name, dst.ino)
  BY Zenon, <1>2, <1>4 DEF DeleteDestination
<1> QED
  BY Zenon, <1>5, <1>6, TrimTree

\* The INODE_REF of a renamed child: its object number is one the tree has.
LEMMA MoveRefTree ==
  ASSUME NEW t, NEW N, NEW lo, NEW hi, Tree(t, N, lo, hi), NEW e, NEW from, NEW to, NEW n, NEW j
  PROVE  Tree(MoveRef(t, e, from, to, n, j), N, lo, hi)
<1>1. SUFFICES ASSUME MoveRef(t, e, from, to, n, j) # Failed
               PROVE  Tree(MoveRef(t, e, from, to, n, j), N, lo, hi)
  BY Zenon DEF Tree
<1>2. PICK k, m, v : k = <<e.ino, from>> /\ m = <<e.ino, to>> /\ v = << [idx |-> j, name |-> n] >>
  BY Zenon
<1>3. MoveRef(t, e, from, to, n, j) = Ins(Del(t, "ref", k), "ref", m, v)
  BY Zenon, <1>2 DEF MoveRef
<1>4. Del(t, "ref", k) # Failed
  BY Zenon, <1>1, <1>3 DEF Ins
<1>5. t # Failed /\ k \in DOMAIN t["ref"]
  BY Zenon, <1>4 DEF Del
<1>6. "ref" \in Kinds /\ "ref" # "data" /\ "ref" # "inode"
  BY Zenon DEF Kinds
<1>7. Id("ref", k) \in 1..N
  BY Zenon, <1>5, <1>6 DEF Tree, Held
<1>8. k[1] = m[1]
  BY <1>2
<1>9. Id("ref", m) \in 1..N
  BY Zenon, <1>6, <1>7, <1>8 DEF Id
<1>10. Tree(Del(t, "ref", k), N, lo, hi)
  BY Zenon, <1>6, DelTree
<1> QED
  BY Zenon, <1>3, <1>6, <1>9, <1>10, InsTree

LEMMA RenameTree ==
  ASSUME NEW t, NEW N \in Nat, NEW lo, NEW hi, Held(t, N, lo, hi), NEW from, NEW old, NEW to,
         NEW new, NEW shared
  PROVE  Tree(Rename(t, from, old, to, new, shared), N, {}, hi)
<1>1. SUFFICES ASSUME Rename(t, from, old, to, new, shared) # Failed
               PROVE  Tree(Rename(t, from, old, to, new, shared), N, {}, hi)
  BY Zenon DEF Tree
<1>2. PICK e, dst, i, j : /\ e = TheEntry(t, from, old) /\ dst = TheEntry(t, to, new)
                          /\ i = DirIndex(t, from, e) /\ j = NextIdx(t, to)
  BY Zenon
<1>3. PICK bare : bare = IF Lookup(t, to, new) = {} THEN t ELSE DeleteDestination(t, to, dst)
  BY Zenon
<1>4. PICK dropped : dropped = DropOldName(bare, from, e, i)
  BY Zenon
<1>5. PICK added : added = AddNewName(dropped, to, new, e, j)
  BY Zenon
<1>6. PICK moved : moved = MoveRef(added, e, from, to, new, j)
  BY Zenon
<1>7. /\ IsDir(t, to)
      /\ \/ Rename(t, from, old, to, new, shared) = UpdateInodeMtime(t, e.ino)
         \/ Rename(t, from, old, to, new, shared)
              = Rebalance(Mut(moved, "inode", e.ino, LAMBDA v : v), from, old, to, new,
                          Lookup(t, to, new) # {})
  BY Zenon, <1>1, <1>2, <1>3, <1>4, <1>5, <1>6 DEF Rename
<1>8. Tree(t, N, {}, hi) /\ to \in 1..N /\ "index" \in Kinds /\ "index" # "data"
  BY Zenon, <1>7, HeldIs, DirIs DEF Held, Tree, Kinds
<1>9. Tree(bare, N, {}, hi)
  BY Zenon, <1>3, <1>8, DestinationTree
<1>10. Tree(dropped, N, {}, hi)
  <2>1. Tree(TrimEntry(bare, from, e.name, e.ino), N, {}, hi)
    BY Zenon, <1>9, TrimTree
  <2> QED
    BY Zenon, <1>4, <1>8, <2>1, DelTree DEF DropOldName
<1>11. Tree(added, N, {}, hi)
  BY Zenon, <1>5, <1>8, <1>10, MergedTree DEF AddNewName
<1>12. Tree(moved, N, {}, hi)
  BY Zenon, <1>6, <1>11, MoveRefTree
<1>13. Tree(UpdateInodeMtime(moved, e.ino), N, {}, hi) /\ Tree(UpdateInodeMtime(t, e.ino), N, {}, hi)
  BY Zenon, <1>8, <1>12, MtimeTree
<1>14. UpdateInodeMtime(moved, e.ino) = Mut(moved, "inode", e.ino, LAMBDA v : v)
  BY Zenon DEF UpdateInodeMtime
<1> QED
  BY Zenon, <1>7, <1>13, <1>14, RebalanceTree

-----------------------------------------------------------------------------
(* Data and the items of a new file.                                          *)

\* Whatever t names is in u, and what is a directory in t is one in u.
Grew(t, u) ==
  /\ \A k \in DOMAIN t.item : k \in DOMAIN u.item /\ u.item[k] = t.item[k]
  /\ \A i \in DOMAIN t.inode : i \in DOMAIN u.inode /\ u.inode[i].type = t.inode[i].type

LEMMA GrewTrans ==
  ASSUME NEW t, NEW u, NEW w, Grew(t, u), Grew(u, w)
  PROVE  Grew(t, w)
  BY Zenon DEF Grew

\* u is t and the blocks of runs in inode i.
RunsAdded(t, i, runs, u) ==
  /\ t # Failed /\ DOMAIN u = Kinds
  /\ \A o \in Kinds : o # "data" => u[o] = t[o]
  /\ \A k \in DOMAIN u.data : k \in DOMAIN t.data \/ k[1] = i
  /\ AllBlocks(u) = AllBlocks(t) \cup Range(runs)

LEMMA AddRunsIs ==
  ASSUME NEW t, t # Failed => DOMAIN t = Kinds, NEW i, NEW runs, DOMAIN runs \subseteq Nat,
         NEW u, u = AddRuns(t, i, runs), u # Failed
  PROVE  RunsAdded(t, i, runs, u)
<1>1. PICK new : new = {<<i, k - 1>> : k \in DOMAIN runs}
  BY Zenon
<1>2. PICK f : f = [x \in DOMAIN t.data \cup new |-> IF x \in new THEN runs[x[2] + 1] ELSE t.data[x]]
  BY Zenon
<1>3. t # Failed /\ new \cap DOMAIN t.data = {} /\ u = [t EXCEPT !["data"] = f]
  BY Zenon, <1>1, <1>2 DEF AddRuns
<1>4. "data" \in Kinds
  BY Zenon DEF Kinds
<1>5. DOMAIN u = Kinds /\ u["data"] = f /\ \A o \in Kinds : o # "data" => u[o] = t[o]
  BY Zenon, <1>3, <1>4, Replaced
<1>6. \A k \in DOMAIN runs : <<i, k - 1>>[1] = i /\ <<i, k - 1>>[2] + 1 = k
  OBVIOUS
<1>7. \A x \in new : x[1] = i
  BY Zenon, <1>1, <1>6
<1>8. \A k \in DOMAIN runs : <<i, k - 1>> \in new /\ f[<<i, k - 1>>] = runs[k]
  BY Zenon, <1>1, <1>2, <1>6
<1>9. \A x \in DOMAIN t.data : x \in DOMAIN f /\ f[x] = t.data[x]
  BY Zenon, <1>2, <1>3
<1>10. DOMAIN f = DOMAIN t.data \cup new
  BY Zenon, <1>2
<1>11. ASSUME NEW b \in AllBlocks(u) PROVE b \in AllBlocks(t) \cup Range(runs)
  <2>1. PICK x \in DOMAIN f : b = f[x]
    BY Zenon, <1>5 DEF AllBlocks
  <2>2. CASE x \in new
    <3>1. PICK k \in DOMAIN runs : x = <<i, k - 1>>
      BY Zenon, <1>1, <2>2
    <3> QED
      BY Zenon, <1>8, <2>1, <3>1 DEF Range
  <2>3. CASE x \in DOMAIN t.data
    BY Zenon, <1>9, <2>1, <2>3 DEF AllBlocks
  <2> QED
    BY Zenon, <1>10, <2>2, <2>3
<1>12. ASSUME NEW b \in AllBlocks(t) PROVE b \in AllBlocks(u)
  BY Zenon, <1>5, <1>9 DEF AllBlocks
<1>13. ASSUME NEW b \in Range(runs) PROVE b \in AllBlocks(u)
  <2>1. PICK k \in DOMAIN runs : b = runs[k]
    BY Zenon DEF Range
  <2> QED
    BY Zenon, <1>5, <1>8, <1>10, <2>1 DEF AllBlocks
<1>14. \A k \in DOMAIN u.data : k \in DOMAIN t.data \/ k[1] = i
  BY Zenon, <1>5, <1>7, <1>10
<1> QED
  BY Zenon, <1>3, <1>5, <1>11, <1>12, <1>13, <1>14 DEF RunsAdded

LEMMA AddRunsTree ==
  ASSUME NEW t, NEW N, NEW lo, NEW hi, Tree(t, N, lo, hi), NEW i \in 1..N, NEW runs,
         DOMAIN runs \subseteq Nat
  PROVE  Tree(AddRuns(t, i, runs), N, lo \cup Range(runs), hi \cup Range(runs))
<1>1. SUFFICES ASSUME AddRuns(t, i, runs) # Failed
               PROVE  Held(AddRuns(t, i, runs), N, lo \cup Range(runs), hi \cup Range(runs))
  BY Zenon DEF Tree
<1>2. PICK u : u = AddRuns(t, i, runs)
  BY Zenon
<1>3. t # Failed => DOMAIN t = Kinds
  BY Zenon DEF Tree, Held
<1>4. /\ t # Failed /\ DOMAIN u = Kinds
      /\ \A o \in Kinds : o # "data" => u[o] = t[o]
      /\ \A k \in DOMAIN u.data : k \in DOMAIN t.data \/ k[1] = i
      /\ AllBlocks(u) = AllBlocks(t) \cup Range(runs)
  <2>1. RunsAdded(t, i, runs, u)
    BY Zenon, <1>1, <1>2, <1>3, AddRunsIs
  <2> QED
    BY Zenon, <2>1 DEF RunsAdded
<1>5. Held(t, N, lo, hi)
  BY Zenon, <1>4 DEF Tree
<1>6. "data" \in Kinds /\ "data" # "inode" /\ "inode" \in Kinds
  BY Zenon DEF Kinds
<1>7. ASSUME NEW o \in Kinds, NEW k \in DOMAIN u[o] PROVE Id(o, k) \in 1..N
  <2>1. CASE o # "data"
    BY Zenon, <1>4, <1>5, <2>1 DEF Held
  <2>2. CASE o = "data"
    <3>1. k \in DOMAIN t.data \/ k[1] = i
      BY Zenon, <1>4, <2>2
    <3>2. CASE k \in DOMAIN t["data"]
      BY Zenon, <1>5, <2>2, <3>2 DEF Held
    <3>3. CASE k[1] = i
      BY Zenon, <1>6, <2>2, <3>3 DEF Id
    <3> QED
      BY Zenon, <3>1, <3>2, <3>3
  <2> QED
    BY Zenon, <2>1, <2>2
<1>8. \A x \in DOMAIN u.inode : DOMAIN u.inode[x] = Fields
  BY Zenon, <1>4, <1>5, <1>6 DEF Held
<1>9. lo \cup Range(runs) \subseteq AllBlocks(u) /\ AllBlocks(u) \subseteq hi \cup Range(runs)
  BY Zenon, <1>4, <1>5 DEF Held
<1> QED
  BY Zenon, <1>2, <1>4, <1>7, <1>8, <1>9 DEF Held

LEMMA InsGrew ==
  ASSUME NEW t, DOMAIN t = Kinds, NEW kind \in Kinds, NEW k, NEW v, Ins(t, kind, k, v) # Failed
  PROVE  Grew(t, Ins(t, kind, k, v)) /\ DOMAIN Ins(t, kind, k, v) = Kinds
<1>1. PICK u : u = Ins(t, kind, k, v)
  BY Zenon
<1>2. PICK f : f = [x \in DOMAIN t[kind] \cup {k} |-> IF x = k THEN v ELSE t[kind][x]]
  BY Zenon
<1>3. k \notin DOMAIN t[kind] /\ u = [t EXCEPT ![kind] = f]
  BY Zenon, <1>1, <1>2 DEF Ins
<1>4. DOMAIN u = Kinds /\ u[kind] = f /\ \A o \in Kinds : o # kind => u[o] = t[o]
  BY Zenon, <1>3, Replaced
<1>5. ASSUME NEW o \in Kinds, NEW x \in DOMAIN t[o] PROVE x \in DOMAIN u[o] /\ u[o][x] = t[o][x]
  <2>1. CASE o = kind
    BY Zenon, <1>2, <1>3, <1>4, <2>1
  <2>2. CASE o # kind
    BY Zenon, <1>4, <2>2
  <2> QED
    BY Zenon, <2>1, <2>2
<1>6. "item" \in Kinds /\ "inode" \in Kinds
  BY Zenon DEF Kinds
<1> QED
  BY Zenon, <1>1, <1>4, <1>5, <1>6 DEF Grew

LEMMA GrowGrew ==
  ASSUME NEW t, DOMAIN t = Kinds, \A i \in DOMAIN t.inode : DOMAIN t.inode[i] = Fields,
         NEW d, NEW n, Grow(t, d, n) # Failed
  PROVE  Grew(t, Grow(t, d, n)) /\ DOMAIN Grow(t, d, n) = Kinds
<1>1. PICK u : u = Grow(t, d, n)
  BY Zenon
<1>2. PICK v : v = [t["inode"][d] EXCEPT !.size = @ + Len2[n]]
  BY Zenon
<1>3. d \in DOMAIN t["inode"] /\ u = [t EXCEPT !["inode"] = [t["inode"] EXCEPT ![d] = v]]
  BY Zenon, <1>1, <1>2 DEF Grow, Mut
<1>4. "item" \in Kinds /\ "inode" \in Kinds /\ "item" # "inode" /\ "type" \in Fields
  BY Zenon DEF Kinds, Fields
<1>5. /\ DOMAIN u = Kinds /\ u["inode"] = [t["inode"] EXCEPT ![d] = v]
      /\ \A o \in Kinds : o # "inode" => u[o] = t[o]
  BY Zenon, <1>3, <1>4, Replaced
<1>6. v.type = t.inode[d].type
  BY Zenon, <1>2, <1>3, <1>4
<1>7. ASSUME NEW i \in DOMAIN t.inode PROVE i \in DOMAIN u.inode /\ u.inode[i].type = t.inode[i].type
  <2>1. i \in DOMAIN u.inode /\ u.inode[i] = IF i = d THEN v ELSE t.inode[i]
    BY Zenon, <1>5
  <2> QED
    BY Zenon, <1>6, <2>1
<1> QED
  BY Zenon, <1>1, <1>4, <1>5, <1>7 DEF Grew

\* What the new file's items leave: the tree that was there, the file and its blocks.
FileAdded(t, i, runs, u, N) ==
  /\ Held(u, N, AllBlocks(t) \cup Range(runs), AllBlocks(t) \cup Range(runs))
  /\ Grew(t, u) /\ DOMAIN u.inode # {}

LEMMA FileItemsIs ==
  ASSUME NEW t, NEW N \in Nat, NEW lo, NEW hi, Held(t, N, lo, hi), NEW d \in 1..N, NEW n,
         NEW i \in 1..N, NEW j, NEW runs, DOMAIN runs \subseteq Nat,
         NEW u, u = FileItems(t, d, n, i, j, runs), u # Failed
  PROVE  FileAdded(t, i, runs, u, N)
<1>1. PICK B : B = AllBlocks(t)
  BY Zenon
<1>2. PICK g, l, w : /\ g = Grow(t, d, n) /\ l = LinkFile(g, d, n, i, j)
                     /\ w = NewInode(l, i, d, n, j, "file")
  BY Zenon
<1>3. Tree(t, N, B, B) /\ DOMAIN t = Kinds
  BY Zenon, <1>1 DEF Tree, Held
<1>4. Tree(g, N, B, B) /\ Tree(l, N, B, B) /\ Tree(w, N, B, B)
  <2>1. Tree(g, N, B, B)
    BY Zenon, <1>2, <1>3, GrowTree
  <2>2. Tree(l, N, B, B)
    BY Zenon, <1>2, <2>1, LinkFileTree
  <2> QED
    BY Zenon, <1>2, <2>1, <2>2, NewInodeTree
<1>5. u = AddRuns(w, i, runs) /\ Tree(u, N, B \cup Range(runs), B \cup Range(runs))
  BY Zenon, <1>2, <1>4, AddRunsTree DEF FileItems
<1>6. w # Failed /\ l # Failed /\ g # Failed
  <2>1. w # Failed
    BY Zenon, <1>5 DEF AddRuns
  <2>2. l # Failed
    BY Zenon, <1>2, <2>1 DEF NewInode, Ins
  <2>3. g # Failed
    BY Zenon, <1>2, <2>2 DEF LinkFile, Ins
  <2> QED
    BY Zenon, <2>1, <2>2, <2>3
<1>7. "inode" \in Kinds /\ "ref" \in Kinds /\ "item" \in Kinds /\ "index" \in Kinds
      /\ "item" # "data" /\ "inode" # "data" /\ "inode" # "ref"
  BY Zenon DEF Kinds
<1>8. Grew(t, g) /\ DOMAIN g = Kinds
  BY Zenon, <1>2, <1>6, GrowGrew DEF Held
<1>9. Grew(g, l) /\ DOMAIN l = Kinds
  <2>1. PICK x : x = Ins(g, "item", <<d, Hash[n]>>, {Entry(n, i, "file")})
    BY Zenon
  <2>2. l = Ins(x, "index", <<d, j>>, Entry(n, i, "file"))
    BY Zenon, <1>2, <2>1 DEF LinkFile
  <2>3. x # Failed
    BY Zenon, <1>6, <2>2 DEF Ins
  <2>4. Grew(g, x) /\ DOMAIN x = Kinds
    BY Zenon, <1>7, <1>8, <2>1, <2>3, InsGrew
  <2>5. Grew(x, l) /\ DOMAIN l = Kinds
    BY Zenon, <1>6, <1>7, <2>2, <2>4, InsGrew
  <2> QED
    BY Zenon, <2>4, <2>5, GrewTrans
<1>10. Grew(l, w) /\ i \in DOMAIN w.inode
  <2>1. PICK v, x : v = [type |-> "file", nlink |-> 1, size |-> 0] /\ x = Ins(l, "inode", i, v)
    BY Zenon
  <2>2. w = Ins(x, "ref", <<i, d>>, << [idx |-> j, name |-> n] >>)
    BY Zenon, <1>2, <2>1 DEF NewInode
  <2>3. x # Failed
    BY Zenon, <1>6, <2>2 DEF Ins
  <2>4. Grew(l, x) /\ DOMAIN x = Kinds
    BY Zenon, <1>7, <1>9, <2>1, <2>3, InsGrew
  <2>5. Grew(x, w)
    BY Zenon, <1>6, <1>7, <2>2, <2>4, InsGrew
  <2>6. i \in DOMAIN x.inode
    <3>1. x = [l EXCEPT !["inode"] = [y \in DOMAIN l["inode"] \cup {i} |-> IF y = i THEN v ELSE l["inode"][y]]]
      BY Zenon, <2>1, <2>3 DEF Ins
    <3>2. x["inode"] = [y \in DOMAIN l["inode"] \cup {i} |-> IF y = i THEN v ELSE l["inode"][y]]
      BY Zenon, <1>7, <1>9, <3>1
    <3> QED
      BY Zenon, <3>2
  <2> QED
    BY Zenon, <2>4, <2>5, <2>6, GrewTrans DEF Grew
<1>11. RunsAdded(w, i, runs, u)
  <2>1. w # Failed => DOMAIN w = Kinds
    BY Zenon, <1>4 DEF Tree, Held
  <2> QED
    BY Zenon, <1>5, <2>1, AddRunsIs
<1>12. u.item = w.item /\ u.inode = w.inode
  BY Zenon, <1>7, <1>11 DEF RunsAdded
<1>13. Grew(t, u)
  <2>1. Grew(t, w)
    BY Zenon, <1>8, <1>9, <1>10, GrewTrans
  <2> QED
    BY Zenon, <1>12, <2>1 DEF Grew
<1> QED
  BY Zenon, <1>1, <1>5, <1>10, <1>12, <1>13 DEF FileAdded, Tree

\* What a larger tree names.
LEMMA LinksGrow ==
  ASSUME NEW t, NEW u, Grew(t, u)
  PROVE  Links(t) \subseteq Links(u)
<1>1. ASSUME NEW l \in Links(t) PROVE l \in Links(u)
  <2>1. PICK k \in DOMAIN t.item : l \in {<<k[1], e.name, e.ino>> : e \in t.item[k]}
    BY Zenon DEF Links
  <2>2. k \in DOMAIN u.item /\ l \in {<<k[1], e.name, e.ino>> : e \in u.item[k]}
    BY Zenon, <2>1 DEF Grew
  <2> QED
    BY <2>2 DEF Links
<1> QED
  BY Zenon, <1>1


-----------------------------------------------------------------------------
(* Path resolution.                                                          *)

\* f[k] is where the first k names of a path lead.
Walks(t, path, m, f) ==
  f = [k \in 0..m |-> IF k = 0 THEN Root ELSE Step(t, f[k - 1], path[k])]

LEMMA WalkExists ==
  ASSUME NEW t, NEW path, NEW m \in Nat
  PROVE  \E f : Walks(t, path, m, f)
<1> DEFINE T == {n \in Nat : \E f : Walks(t, path, n, f)}
<1>1. 0 \in T
  <2>1. PICK f : f = [k \in 0..0 |-> Root]
    BY Zenon
  <2>2. \A k \in 0..0 : k = 0
    OBVIOUS
  <2>3. f = [k \in 0..0 |-> IF k = 0 THEN Root ELSE Step(t, f[k - 1], path[k])]
    BY Zenon, <2>1, <2>2
  <2> QED
    BY Zenon, <2>3 DEF Walks
<1>2. ASSUME NEW n \in Nat, n \in T PROVE n + 1 \in T
  <2>1. PICK f : f = [k \in 0..n |-> IF k = 0 THEN Root ELSE Step(t, f[k - 1], path[k])]
    BY Zenon, <1>2 DEF Walks
  <2>2. PICK g : g = [k \in 0..(n + 1) |-> IF k = n + 1 THEN Step(t, f[n], path[n + 1]) ELSE f[k]]
    BY Zenon
  <2>3. ASSUME NEW k \in 0..(n + 1)
        PROVE  g[k] = IF k = 0 THEN Root ELSE Step(t, g[k - 1], path[k])
    <3>1. CASE k = n + 1
      <4>1. k # 0 /\ k - 1 = n /\ n \in 0..(n + 1) /\ n # n + 1
        BY <3>1
      <4>2. g[n] = f[n]
        BY Zenon, <2>2, <4>1
      <4> QED
        BY Zenon, <2>2, <3>1, <4>1, <4>2
    <3>2. CASE k # n + 1
      <4>1. k \in 0..n /\ (k # 0 => k - 1 \in 0..(n + 1) /\ k - 1 # n + 1)
        BY <3>2
      <4>2. g[k] = f[k] /\ (k # 0 => g[k - 1] = f[k - 1])
        BY Zenon, <2>2, <3>2, <4>1
      <4> QED
        BY Zenon, <2>1, <4>1, <4>2
    <3> QED
      BY Zenon, <3>1, <3>2
  <2>4. g = [k \in 0..(n + 1) |-> g[k]]
    BY Zenon, <2>2
  <2>5. g = [k \in 0..(n + 1) |-> IF k = 0 THEN Root ELSE Step(t, g[k - 1], path[k])]
    BY Zenon, <2>3, <2>4
  <2>6. n + 1 \in Nat
    OBVIOUS
  <2> QED
    BY Zenon, <2>5, <2>6 DEF Walks
<1>3. m \in T
  BY Zenon, <1>1, <1>2, SetInduction
<1> QED
  BY Zenon, <1>3

LEMMA ResolveIs ==
  ASSUME NEW t, NEW path, NEW m \in Nat, m = Len(path)
  PROVE  \E f : /\ Walks(t, path, m, f)
                /\ Resolve(t, path) = IF f[m] \in DOMAIN t.inode THEN f[m] ELSE NoIno
<1> DEFINE f == CHOOSE g : g = [k \in 0..Len(path) |-> IF k = 0 THEN Root ELSE Step(t, g[k - 1], path[k])]
<1>1. \E g : g = [k \in 0..Len(path) |-> IF k = 0 THEN Root ELSE Step(t, g[k - 1], path[k])]
  <2>1. PICK g : Walks(t, path, Len(path), g)
    BY Zenon, WalkExists
  <2> QED
    BY Zenon, <2>1 DEF Walks
<1>2. f = [k \in 0..Len(path) |-> IF k = 0 THEN Root ELSE Step(t, f[k - 1], path[k])]
  BY Zenon, <1>1
<1>3. Resolve(t, path) = IF f[Len(path)] \in DOMAIN t.inode THEN f[Len(path)] ELSE NoIno
  BY Zenon DEF Resolve
<1>4. Walks(t, path, m, f)
  BY Zenon, <1>2 DEF Walks
<1> QED
  BY Zenon, <1>3, <1>4

LEMMA StepKept ==
  ASSUME NEW t, NEW u, Grew(t, u), NEW d, NEW n, NEW x, x = Step(t, d, n), x # NoIno
  PROVE  Step(u, d, n) = x
<1>1. ASSUME IsDir(t, d), NEW e \in Lookup(t, d, n), e.type # "subvol"
      PROVE  Step(t, d, n) = Step(u, d, n)
  <2>1. IsDir(u, d)
    BY Zenon, <1>1 DEF IsDir, Grew
  <2>2. <<d, Hash[n]>> \in DOMAIN t.item
    BY Zenon, <1>1 DEF Lookup
  <2>3. <<d, Hash[n]>> \in DOMAIN u.item /\ u.item[<<d, Hash[n]>>] = t.item[<<d, Hash[n]>>]
    BY Zenon, <2>2 DEF Grew
  <2>4. Lookup(u, d, n) = Lookup(t, d, n)
    BY Zenon, <2>2, <2>3 DEF Lookup
  <2>5. TheEntry(u, d, n) = TheEntry(t, d, n)
    BY Zenon, <2>4 DEF TheEntry
  <2> QED
    BY Zenon, <1>1, <2>1, <2>4, <2>5 DEF Step
<1> QED
  BY Zenon, <1>1 DEF Step

\* Where a path led, it leads in any larger tree.
LEMMA ResolveKept ==
  ASSUME NEW t, NEW u, NEW N, NEW lo, NEW hi, Held(t, N, lo, hi), N \in Nat, Grew(t, u),
         NEW path, Len(path) \in Nat, NEW x, x = Resolve(t, path), x # NoIno
  PROVE  Resolve(u, path) = x
<1>1. PICK m \in Nat : m = Len(path)
  BY Zenon
<1>2. PICK f : Walks(t, path, m, f) /\ x = IF f[m] \in DOMAIN t.inode THEN f[m] ELSE NoIno
  BY Zenon, <1>1, ResolveIs
<1>3. PICK g : Walks(u, path, m, g)
               /\ Resolve(u, path) = IF g[m] \in DOMAIN u.inode THEN g[m] ELSE NoIno
  BY Zenon, <1>1, ResolveIs
<1>4. ~IsDir(t, NoIno)
  <2>1. NoIno \notin 1..N
    BY DEF NoIno
  <2> QED
    BY Zenon, <2>1, DirIs
<1> DEFINE T == {n \in Nat : n <= m => f[n] = NoIno \/ f[n] = g[n]}
<1>5. 0 \in T
  <2>1. 0 \in 0..m
    BY <1>1
  <2> QED
    BY Zenon, <1>2, <1>3, <2>1 DEF Walks
<1>6. ASSUME NEW n \in Nat, n \in T PROVE n + 1 \in T
  <2>1. SUFFICES ASSUME n + 1 <= m PROVE f[n + 1] = NoIno \/ f[n + 1] = g[n + 1]
    OBVIOUS
  <2>2. n <= m /\ n + 1 \in 0..m /\ n + 1 # 0 /\ (n + 1) - 1 = n
    BY <2>1
  <2>3. f[n + 1] = Step(t, f[n], path[n + 1]) /\ g[n + 1] = Step(u, g[n], path[n + 1])
    BY Zenon, <1>2, <1>3, <2>2 DEF Walks
  <2>4. CASE f[n] = NoIno
    BY Zenon, <1>4, <2>3, <2>4 DEF Step
  <2>5. CASE f[n] = g[n]
    <3>1. PICK a, b, c : a = f[n] /\ b = path[n + 1] /\ c = f[n + 1]
      BY Zenon
    <3>2. c = Step(t, a, b)
      BY Zenon, <2>3, <3>1
    <3>3. g[n + 1] = Step(u, a, b)
      BY Zenon, <2>3, <2>5, <3>1
    <3>4. CASE c # NoIno
      <4>1. Step(u, a, b) = c
        BY <3>2, <3>4, StepKept
      <4> QED
        BY Zenon, <3>1, <3>3, <4>1
    <3> QED
      BY Zenon, <3>1, <3>4
  <2> QED
    BY Zenon, <1>6, <2>2, <2>4, <2>5
<1>7. m \in T
  BY Zenon, <1>5, <1>6, SetInduction
<1>8. m <= m
  OBVIOUS
<1>9. f[m] = NoIno \/ f[m] = g[m]
  BY Zenon, <1>7, <1>8
<1>10. x = f[m] /\ f[m] \in DOMAIN t.inode /\ f[m] = g[m]
  BY Zenon, <1>2, <1>9
<1> QED
  BY Zenon, <1>3, <1>10 DEF Grew


-----------------------------------------------------------------------------
(* The invariant.                                                            *)

BatchFields == {"open", "tree", "alloc", "extents", "ledger", "bound", "nextIno", "nextIdx",
                "parents", "files"}

WriterFields == {"open", "runs", "streaming", "short"}

\* The tree t is a volume's, and nothing but the blocks u is in use in the space s.
VolumeOK(t, u, s) ==
  /\ \E N \in Nat : Held(t, N, u, u)
  /\ u \subseteq s /\ s # {}
  /\ \E m \in Nat : s \subseteq 0..m

\* What a batch caches of the parents of its files.
ParentsOK(t, parents) ==
  \A p \in DOMAIN parents :
     p \in Paths /\ Resolve(t, p) = parents[p] /\ IsDir(t, parents[p])

\* A batch on the committed tree t with the blocks u, in the space s.
BatchOK(t, u, s, b) ==
  /\ DOMAIN b = BatchFields /\ b.open = TRUE
  /\ \E N \in Nat : Held(b.tree, N, b.alloc, b.alloc)
  /\ Grew(t, b.tree)
  /\ b.files \in Nat /\ (b.files = 0 => b.tree = t)
  /\ u \cup b.extents = b.alloc
  /\ b.alloc \subseteq s /\ b.ledger \subseteq s
  /\ b.bound \in BOOLEAN
  /\ ~b.bound => b.files = 0 /\ DOMAIN b.parents = {}
  /\ b.bound => /\ ParentsOK(t, b.parents) /\ DOMAIN b.tree.inode # {}
                /\ b.nextIno \in Nat /\ b.nextIno - 1 \in Nat
                /\ Held(b.tree, b.nextIno - 1, b.alloc, b.alloc)

\* The blocks reserved for the open writer.
WriterOK(b, w) ==
  /\ DOMAIN w = WriterFields /\ w.open = TRUE
  /\ w.runs \in Seq(Nat)
  /\ Range(w.runs) \subseteq b.ledger /\ Range(w.runs) \cap b.alloc = {}
  /\ IsFiniteSet(Range(w.runs)) /\ Cardinality(Range(w.runs)) = Len(w.runs)

BatchInv == batch = NoBatch \/ BatchOK(disk, used, space, batch)

WriterInv == writer = NoWriter \/ (batch.open = TRUE /\ WriterOK(batch, writer))

TodoInv ==
  /\ \E A : todo \in Seq(A)
  /\ Len(todo) <= DeleteDepth + 1
  /\ ~Idle => batch = NoBatch /\ writer = NoWriter

AckInv == acked = {} \/ (batch.open = TRUE /\ acked \subseteq Links(batch.tree))

Inv == VolumeOK(disk, used, space) /\ BatchInv /\ WriterInv /\ TodoInv /\ AckInv

LEMMA Exact ==
  ASSUME NEW t, NEW N, NEW u, Held(t, N, u, u)
  PROVE  AllBlocks(t) = u
  BY Zenon DEF Held

LEMMA NotOpen == NoBatch.open = FALSE /\ NoWriter.open = FALSE
  BY DEF NoBatch, NoWriter

\* A batch opened on the volume.
LEMMA OpenOK ==
  ASSUME NEW t, NEW u, NEW s, VolumeOK(t, u, s), NEW b, b = OpenBatch(t, u)
  PROVE  BatchOK(t, u, s, b) /\ b.ledger = {} /\ b.tree = t /\ b.alloc = u
<1>1. /\ DOMAIN b = BatchFields /\ b.open = TRUE /\ b.tree = t /\ b.alloc = u /\ b.extents = {}
      /\ b.ledger = {} /\ b.bound = FALSE /\ b.files = 0 /\ b.parents = << >>
  BY DEF OpenBatch, BatchFields
<1>2. Grew(t, t)
  BY Zenon DEF Grew
<1>3. u \cup {} = u /\ {} \subseteq s /\ 0 \in Nat /\ DOMAIN << >> = {} /\ FALSE \in BOOLEAN
  OBVIOUS
<1>4. u \subseteq s /\ \E N \in Nat : Held(t, N, u, u)
  BY Zenon DEF VolumeOK
<1> QED
  BY Zenon, <1>1, <1>2, <1>3, <1>4 DEF BatchOK

\* Only the ledger changes when blocks are reserved or released.
SameButLedger(b, c, L) ==
  /\ c.ledger = L /\ c.tree = b.tree /\ c.alloc = b.alloc
  /\ c.open = TRUE /\ c.files = b.files /\ c.extents = b.extents

LEMMA LedgerOK ==
  ASSUME NEW t, NEW u, NEW s, NEW b, BatchOK(t, u, s, b), NEW L, L \subseteq s,
         NEW c, c = [b EXCEPT !.ledger = L]
  PROVE  BatchOK(t, u, s, c) /\ SameButLedger(b, c, L)
<1>1. DOMAIN b = BatchFields /\ b.open = TRUE
  BY Zenon DEF BatchOK
<1>2. /\ DOMAIN c = BatchFields /\ c.open = TRUE /\ c.ledger = L /\ c.tree = b.tree
      /\ c.alloc = b.alloc /\ c.extents = b.extents /\ c.files = b.files /\ c.bound = b.bound
      /\ c.parents = b.parents /\ c.nextIno = b.nextIno
  BY <1>1 DEF BatchFields
<1>3. BatchOK(t, u, s, c)
  BY Zenon, <1>2 DEF BatchOK
<1> QED
  BY Zenon, <1>2, <1>3 DEF SameButLedger

\* What a commit of the batch leaves: a volume, and the batch armed on it.
LEMMA CommitOK ==
  ASSUME NEW t, NEW u, NEW s, VolumeOK(t, u, s), NEW b, BatchOK(t, u, s, b)
  PROVE  VolumeOK(b.tree, u \cup b.extents, s)
  BY Zenon DEF BatchOK, VolumeOK

LEMMA RearmOK ==
  ASSUME NEW t, NEW u, NEW s, VolumeOK(t, u, s), NEW b, BatchOK(t, u, s, b),
         NEW v, v = u \cup b.extents, NEW c, c = Rearm(b)
  PROVE  BatchOK(b.tree, v, s, c)
<1>1. DOMAIN b = BatchFields /\ b.open = TRUE /\ u \cup b.extents = b.alloc
  BY Zenon DEF BatchOK
<1>2. /\ DOMAIN c = BatchFields /\ c.open = TRUE /\ c.ledger = {} /\ c.tree = b.tree
      /\ c.alloc = b.alloc /\ c.extents = {} /\ c.files = 0 /\ c.bound = b.bound
      /\ c.parents = b.parents /\ c.nextIno = b.nextIno
  BY <1>1 DEF BatchFields, Rearm
<1>3. Grew(b.tree, b.tree)
  BY Zenon DEF Grew
<1>4. v \cup {} = b.alloc /\ {} \subseteq s /\ 0 \in Nat
  BY <1>1
<1>5. b.bound => ParentsOK(b.tree, b.parents)
  <2>1. SUFFICES ASSUME b.bound, NEW p \in DOMAIN b.parents
                 PROVE  /\ p \in Paths /\ Resolve(b.tree, p) = b.parents[p]
                        /\ IsDir(b.tree, b.parents[p])
    BY Zenon DEF ParentsOK
  <2>2. PICK N \in Nat : Held(t, N, u, u)
    BY Zenon DEF VolumeOK
  <2>3. p \in Paths /\ Resolve(t, p) = b.parents[p] /\ IsDir(t, b.parents[p]) /\ Grew(t, b.tree)
    BY Zenon, <2>1 DEF BatchOK, ParentsOK
  <2>4. b.parents[p] \in 1..N
    BY Zenon, <2>2, <2>3, DirIs
  <2>5. b.parents[p] # NoIno /\ Len(p) \in Nat
    <3>1. p \in Seq(Names)
      BY Zenon, <2>3, VolumeAssumption
    <3> QED
      BY <2>4, <3>1 DEF NoIno
  <2>6. Resolve(b.tree, p) = b.parents[p]
    BY <2>2, <2>3, <2>5, ResolveKept
  <2> QED
    BY Zenon, <2>3, <2>6 DEF IsDir, Grew
<1> QED
  BY Zenon, <1>1, <1>2, <1>3, <1>4, <1>5 DEF BatchOK


\* The directory a file goes into is the one its path names.
LEMMA ParentIs ==
  ASSUME NEW t, NEW u, NEW s, NEW b, BatchOK(t, u, s, b), NEW path,
         NEW d, d = ParentOf(t, b, path), d # NoIno
  PROVE  Resolve(t, path) = d /\ IsDir(t, d)
<1>1. CASE b.bound /\ path \in DOMAIN b.parents
  BY Zenon, <1>1 DEF ParentOf, BatchOK, ParentsOK
<1>2. CASE ~(b.bound /\ path \in DOMAIN b.parents)
  <2>1. d = IF IsDir(t, Resolve(t, path)) THEN Resolve(t, path) ELSE NoIno
    BY Zenon, <1>2 DEF ParentOf
  <2> QED
    BY Zenon, <2>1
<1> QED
  BY Zenon, <1>1, <1>2

\* No item has the number a new file gets.
LEMMA NumberIs ==
  ASSUME NEW t, NEW u, NEW s, NEW b, BatchOK(t, u, s, b), DOMAIN b.tree.inode # {},
         NEW i, i = IF b.bound THEN b.nextIno ELSE NextIno(t)
  PROVE  i \in Nat /\ i \in 1..i /\ Held(b.tree, i, b.alloc, b.alloc)
<1>1. CASE b.bound
  <2>1. i \in Nat /\ i - 1 \in Nat /\ Held(b.tree, i - 1, b.alloc, b.alloc)
    BY Zenon, <1>1 DEF BatchOK
  <2>2. i - 1 <= i /\ i \in 1..i
    BY <2>1
  <2> QED
    BY Zenon, <2>1, <2>2, HeldMore
<1>2. CASE ~b.bound
  <2>1. i = NextIno(b.tree)
    BY Zenon, <1>2 DEF BatchOK
  <2>2. PICK N \in Nat : Held(b.tree, N, b.alloc, b.alloc)
    BY Zenon DEF BatchOK
  <2>3. /\ i \in 1..(N + 1)
        /\ \A kind \in Kinds : \A k \in DOMAIN b.tree[kind] : Id(kind, k) < i
    BY Zenon, <2>1, <2>2, NextInoIs
  <2>4. i \in Nat /\ i \in 1..i
    BY <2>3
  <2>5. \A kind \in Kinds : \A k \in DOMAIN b.tree[kind] : Id(kind, k) \in 1..N
    BY Zenon, <2>2 DEF Held
  <2>6. \A kind \in Kinds : \A k \in DOMAIN b.tree[kind] : Id(kind, k) \in 1..i
    <3>1. ASSUME NEW kind \in Kinds, NEW k \in DOMAIN b.tree[kind] PROVE Id(kind, k) \in 1..i
      <4>1. Id(kind, k) \in 1..N /\ Id(kind, k) < i
        BY Zenon, <2>3, <2>5
      <4> QED
        BY <2>4, <4>1
    <3> QED
      BY Zenon, <3>1
  <2> QED
    BY Zenon, <2>2, <2>4, <2>6 DEF Held
<1> QED
  BY Zenon, <1>1, <1>2

\* What a batch holds of the file it was given.
HoldsMore(b, c) ==
  /\ Grew(b.tree, c.tree) /\ c.files \in Nat /\ c.files > 0 /\ c.open = TRUE

\* A file that goes in leaves the batch in order.
LEMMA AddedOK ==
  ASSUME NEW t, NEW u, NEW s, VolumeOK(t, u, s), NEW b, BatchOK(t, u, s, b), NEW path \in Paths,
         NEW n, NEW w, w.runs \in Seq(Nat), Range(w.runs) \subseteq s,
         NEW c \in AddFile(t, b, path, n, w), c # Failed
  PROVE  BatchOK(t, u, s, c) /\ HoldsMore(b, c)
<1>1. PICK d, i : d = ParentOf(t, b, path) /\ i = IF b.bound THEN b.nextIno ELSE NextIno(t)
  BY Zenon
<1>2. PICK j, x, r : /\ r = w.runs
                     /\ x = (IF j = 0 THEN Failed ELSE FileItems(b.tree, d, n, i, j, r))
                     /\ c = (IF x = Failed THEN Failed ELSE Added(b, path, d, x, i, j, r))
                     /\ d # NoIno
  <2>1. ~(w.short \/ d = NoIno \/ Lookup(b.tree, d, n) # {})
    <3>1. SUFFICES ASSUME w.short \/ d = NoIno \/ Lookup(b.tree, d, n) # {} PROVE FALSE
      BY Zenon
    <3>2. AddFile(t, b, path, n, w) = {Failed}
      BY Zenon, <1>1, <3>1 DEF AddFile
    <3> QED
      BY Zenon, <3>2
  <2>2. AddFile(t, b, path, n, w)
          = {IF (IF j = 0 THEN Failed ELSE FileItems(b.tree, d, n, i, j, w.runs)) = Failed THEN Failed
             ELSE Added(b, path, d, IF j = 0 THEN Failed ELSE FileItems(b.tree, d, n, i, j, w.runs), i, j, w.runs)
               : j \in IndexFor(b, d)}
    BY Zenon, <1>1, <2>1 DEF AddFile
  <2>3. PICK j : c = IF (IF j = 0 THEN Failed ELSE FileItems(b.tree, d, n, i, j, w.runs)) = Failed THEN Failed
             ELSE Added(b, path, d, IF j = 0 THEN Failed ELSE FileItems(b.tree, d, n, i, j, w.runs), i, j, w.runs)
    BY Zenon, <2>2
  <2> QED
    BY Zenon, <2>1, <2>3
<1>3. x # Failed /\ x = FileItems(b.tree, d, n, i, j, r) /\ c = Added(b, path, d, x, i, j, r)
  BY Zenon, <1>2
<1>4. Resolve(t, path) = d /\ IsDir(t, d)
  <2>1. d = ParentOf(t, b, path) /\ d # NoIno
    BY Zenon, <1>1, <1>2
  <2> QED
    BY <2>1, ParentIs
<1>5. IsDir(b.tree, d)
  BY Zenon, <1>4 DEF BatchOK, Grew, IsDir
<1>6. DOMAIN b.tree.inode # {}
  BY Zenon, <1>5 DEF IsDir
<1>7. i \in Nat /\ i \in 1..i /\ Held(b.tree, i, b.alloc, b.alloc)
  BY Zenon, <1>1, <1>6, NumberIs
<1>8. d \in 1..i
  BY Zenon, <1>5, <1>7, DirIs
<1>9. DOMAIN r \subseteq Nat
  <2>1. DOMAIN r = 1..Len(r) /\ Len(r) \in Nat
    BY <1>2
  <2> QED
    BY <2>1
<1>10. FileAdded(b.tree, i, r, x, i)
  BY Zenon, <1>3, <1>7, <1>8, <1>9, FileItemsIs
<1>11. AllBlocks(b.tree) = b.alloc
  BY Zenon, <1>7, Exact
<1>12. PICK A : A = b.alloc \cup Range(r)
  BY Zenon
<1>13. Held(x, i, A, A) /\ Grew(b.tree, x) /\ DOMAIN x.inode # {}
  BY Zenon, <1>10, <1>11, <1>12 DEF FileAdded
<1>14. DOMAIN b = BatchFields /\ b.files \in Nat /\ b.open = TRUE /\ u \cup b.extents = b.alloc
       /\ b.alloc \subseteq s /\ b.ledger \subseteq s /\ Grew(t, b.tree)
  BY Zenon DEF BatchOK
<1>15. /\ DOMAIN c = BatchFields /\ c.open = TRUE /\ c.tree = x /\ c.alloc = A
       /\ c.extents = b.extents \cup Range(r) /\ c.ledger = b.ledger /\ c.bound = TRUE
       /\ c.nextIno = i + 1 /\ c.files = b.files + 1
  BY <1>3, <1>12, <1>14 DEF Added, BatchFields
<1>16. c.parents = [p \in DOMAIN b.parents \cup {path} |-> IF p = path THEN d ELSE b.parents[p]]
  BY <1>3, <1>14 DEF Added, BatchFields
<1>17. ParentsOK(t, c.parents)
  <2>1. SUFFICES ASSUME NEW p \in DOMAIN c.parents
                 PROVE  /\ p \in Paths /\ Resolve(t, p) = c.parents[p]
                        /\ IsDir(t, c.parents[p])
    BY Zenon DEF ParentsOK
  <2>2. CASE p = path
    BY Zenon, <1>4, <1>16, <2>2
  <2>3. CASE p # path
    <3>1. p \in DOMAIN b.parents /\ c.parents[p] = b.parents[p]
      BY Zenon, <1>16, <2>1, <2>3
    <3>2. b.bound
      BY Zenon, <3>1 DEF BatchOK
    <3> QED
      BY Zenon, <3>1, <3>2 DEF BatchOK, ParentsOK
  <2> QED
    BY Zenon, <2>2, <2>3
<1>18. c.files \in Nat /\ c.files # 0 /\ c.files > 0 /\ c.nextIno \in Nat /\ c.nextIno - 1 = i
  BY <1>7, <1>14, <1>15
<1>19. u \cup c.extents = A /\ A \subseteq s
  BY <1>2, <1>12, <1>14, <1>15
<1>20. Grew(t, x)
  BY Zenon, <1>13, <1>14, GrewTrans
<1>21. Held(x, c.nextIno - 1, A, A) /\ c.nextIno - 1 \in Nat
  BY Zenon, <1>7, <1>13, <1>18
<1> QED
  BY Zenon, <1>7, <1>13, <1>14, <1>15, <1>17, <1>18, <1>19, <1>20, <1>21 DEF BatchOK, HoldsMore


-----------------------------------------------------------------------------
(* The steps.                                                                *)

LEMMA FlushOK ==
  ASSUME Inv
  PROVE  VolumeOK(Flushed, FlushedUsed, space)
<1>1. CASE HasUncommitted(batch)
  <2>1. BatchOK(disk, used, space, batch)
    BY Zenon, <1>1, NotOpen DEF Inv, BatchInv, HasUncommitted
  <2>2. VolumeOK(batch.tree, used \cup batch.extents, space)
    BY Zenon, <2>1, CommitOK DEF Inv
  <2> QED
    BY Zenon, <1>1, <2>2 DEF Flushed, FlushedUsed
<1>2. CASE ~HasUncommitted(batch)
  BY Zenon, <1>2 DEF Inv, Flushed, FlushedUsed
<1> QED
  BY Zenon, <1>1, <1>2

LEMMA WriterClosed ==
  ASSUME Inv, ~writer.open
  PROVE  writer = NoWriter
  BY Zenon DEF Inv, WriterInv, WriterOK

LEMMA TodoKept ==
  ASSUME Inv, Idle, todo' = todo
  PROVE  TodoInv'
<1>1. (\E A : todo \in Seq(A)) /\ Len(todo) <= DeleteDepth + 1
  BY Zenon DEF Inv, TodoInv
<1>2. Idle'
  BY Zenon DEF Idle
<1> QED
  BY Zenon, <1>1, <1>2 DEF TodoInv

\* A step that leaves no batch, in any of its outcomes.
LEMMA Settled ==
  ASSUME VolumeOK(disk', used', space'), batch' = NoBatch, writer' = NoWriter, acked' = {}, TodoInv'
  PROVE  Inv'
  BY Zenon DEF Inv, BatchInv, WriterInv, AckInv

\* What a transaction on the flushed volume leaves is a volume.
TransactionOK(new, newUsed) == new # Failed => VolumeOK(new, newUsed, space)

LEMMA TransactOK ==
  ASSUME Inv, NEW new, NEW newUsed, TransactionOK(new, newUsed), Transact(new, newUsed)
  PROVE  Inv'
<1>1. writer' = NoWriter /\ TodoInv'
  BY Zenon, WriterClosed, TodoKept DEF Transact
<1>2. VolumeOK(disk', used', space')
  BY Zenon, FlushOK DEF Transact, TransactionOK
<1> QED
  BY Zenon, <1>1, <1>2, Settled DEF Transact

\* A tree made of the flushed one, with the same blocks and perhaps new ones.
LEMMA SameBlocks ==
  ASSUME NEW s, NEW t, NEW u, VolumeOK(t, u, s), NEW new, NEW M \in Nat, NEW v, v \subseteq s,
         Tree(new, M, v, v)
  PROVE  new # Failed => VolumeOK(new, v, s)
  BY Zenon DEF Tree, VolumeOK

LEMMA CreateFileInv ==
  ASSUME Inv, NEW path, NEW n, CreateFile(path, n)
  PROVE  Inv'
<1>1. PICK F, U, d : F = Flushed /\ U = FlushedUsed /\ d = Resolve(F, path)
  BY Zenon
<1>2. PICK N \in Nat : Held(F, N, U, U)
  BY Zenon, <1>1, FlushOK DEF VolumeOK
<1>3. Tree(CreateEmptyFile(F, d, n), N + 1, U, U) /\ N + 1 \in Nat
  <2>1. N + 1 \in Nat
    OBVIOUS
  <2> QED
    BY Zenon, <1>2, <2>1, CreateFileTree
<1>4. VolumeOK(F, U, space) /\ U \subseteq space
  BY Zenon, <1>1, FlushOK DEF VolumeOK
<1>5. TransactionOK(CreateEmptyFile(F, d, n), U)
  BY Zenon, <1>3, <1>4, SameBlocks DEF TransactionOK
<1>6. Transact(CreateEmptyFile(F, d, n), U)
  BY Zenon, <1>1 DEF CreateFile
<1> QED
  BY Zenon, <1>5, <1>6, TransactOK

LEMMA MakeDirectoryInv ==
  ASSUME Inv, NEW path, NEW n, MakeDirectory(path, n)
  PROVE  Inv'
<1>1. PICK F, U, d : F = Flushed /\ U = FlushedUsed /\ d = Resolve(F, path)
  BY Zenon
<1>2. PICK N \in Nat : Held(F, N, U, U)
  BY Zenon, <1>1, FlushOK DEF VolumeOK
<1>3. Tree(CreateDirectory(F, d, n), N + 1, U, U) /\ N + 1 \in Nat
  <2>1. N + 1 \in Nat
    OBVIOUS
  <2> QED
    BY Zenon, <1>2, <2>1, CreateDirTree
<1>4. VolumeOK(F, U, space) /\ U \subseteq space
  BY Zenon, <1>1, FlushOK DEF VolumeOK
<1>5. TransactionOK(CreateDirectory(F, d, n), U)
  BY Zenon, <1>3, <1>4, SameBlocks DEF TransactionOK
<1>6. Transact(CreateDirectory(F, d, n), U)
  BY Zenon, <1>1 DEF MakeDirectory
<1> QED
  BY Zenon, <1>5, <1>6, TransactOK

LEMMA SetMtimeInv ==
  ASSUME Inv, NEW path, SetMtime(path)
  PROVE  Inv'
<1>1. PICK F, U, i : F = Flushed /\ U = FlushedUsed /\ i = Resolve(F, path)
  BY Zenon
<1>2. PICK N \in Nat : Held(F, N, U, U)
  BY Zenon, <1>1, FlushOK DEF VolumeOK
<1>3. Tree(UpdateInodeMtime(F, i), N, U, U)
  BY Zenon, <1>2, HeldIs, MtimeTree
<1>4. VolumeOK(F, U, space) /\ U \subseteq space
  BY Zenon, <1>1, FlushOK DEF VolumeOK
<1>5. PICK new : new = IF i = NoIno THEN Failed ELSE UpdateInodeMtime(F, i)
  BY Zenon
<1>6. Tree(new, N, U, U)
  BY Zenon, <1>3, <1>5 DEF Tree
<1>7. TransactionOK(new, U)
  BY Zenon, <1>4, <1>6, SameBlocks DEF TransactionOK
<1>8. Transact(new, U)
  BY Zenon, <1>1, <1>5 DEF SetMtime
<1> QED
  BY Zenon, <1>7, <1>8, TransactOK


\* The extents of a file that had none.
LEMMA WriteTree ==
  ASSUME NEW t, NEW N \in Nat, NEW u, Held(t, N, u, u), NEW i, NEW runs, DOMAIN runs \subseteq Nat,
         NEW v, v = u \cup Range(runs)
  PROVE  Tree(WriteFileData(t, i, runs), N, v, v)
<1>1. CASE i \notin DOMAIN t.inode \/ IsDir(t, i)
  BY Zenon, <1>1 DEF WriteFileData, Tree
<1>2. CASE ~(i \notin DOMAIN t.inode \/ IsDir(t, i))
  <2>1. i \in DOMAIN t["inode"] /\ "inode" \in Kinds
    BY Zenon, <1>2 DEF Kinds
  <2>2. i \in 1..N
    BY Zenon, <2>1 DEF Held, Id
  <2>3. Tree(AddRuns(t, i, runs), N, v, v)
    BY Zenon, <2>2, HeldIs, AddRunsTree
  <2> QED
    BY Zenon, <1>2, <2>3 DEF WriteFileData
<1> QED
  BY Zenon, <1>1, <1>2

LEMMA WriteFileInv ==
  ASSUME Inv, NEW path, WriteFile(path)
  PROVE  Inv'
<1>1. PICK F, U, i : F = Flushed /\ U = FlushedUsed /\ i = Resolve(F, path)
  BY Zenon
<1>2. PICK N \in Nat : Held(F, N, U, U)
  BY Zenon, <1>1, FlushOK DEF VolumeOK
<1>3. VolumeOK(F, U, space) /\ U \subseteq space
  BY Zenon, <1>1, FlushOK DEF VolumeOK
<1>4. CASE Transact(WriteFileData(F, i, << >>), U)
  <2>1. DOMAIN << >> \subseteq Nat /\ U = U \cup Range(<< >>)
    BY DEF Range
  <2>2. Tree(WriteFileData(F, i, << >>), N, U, U)
    BY Zenon, <1>2, <2>1, WriteTree
  <2>3. TransactionOK(WriteFileData(F, i, << >>), U)
    BY Zenon, <1>3, <2>2, SameBlocks DEF TransactionOK
  <2> QED
    BY Zenon, <1>4, <2>3, TransactOK
<1>5. ASSUME NEW room, room = space \ U, room # {}, NEW a, a = Min(room), NEW v, v = U \cup {a},
             Transact(WriteFileData(F, i, <<a>>), v)
      PROVE  Inv'
  <2>1. room \subseteq Nat
    <3>1. PICK m \in Nat : space \subseteq 0..m
      BY Zenon DEF Inv, VolumeOK
    <3>2. 0..m \subseteq Nat
      OBVIOUS
    <3> QED
      BY Zenon, <1>5, <3>1, <3>2
  <2>2. a \in space
    BY Zenon, <1>5, <2>1, MinIn
  <2>3. DOMAIN <<a>> \subseteq Nat /\ v = U \cup Range(<<a>>) /\ v \subseteq space
    BY <1>3, <1>5, <2>2 DEF Range
  <2>4. Tree(WriteFileData(F, i, <<a>>), N, v, v)
    BY Zenon, <1>2, <2>3, WriteTree
  <2>5. TransactionOK(WriteFileData(F, i, <<a>>), v)
    BY Zenon, <1>3, <2>3, <2>4, SameBlocks DEF TransactionOK
  <2> QED
    BY Zenon, <1>5, <2>5, TransactOK
<1>6. \/ Transact(WriteFileData(F, i, << >>), U)
      \/ /\ space \ U # {}
         /\ Transact(WriteFileData(F, i, <<Min(space \ U)>>), U \cup {Min(space \ U)})
  BY Zenon, <1>1 DEF WriteFile
<1> QED
  BY Zenon, <1>4, <1>5, <1>6

\* The blocks a deletion or a replacement drops are the ones it frees.
LEMMA FewerBlocks ==
  ASSUME NEW s, NEW t, NEW u, VolumeOK(t, u, s), NEW new, NEW N \in Nat, Tree(new, N, {}, u),
         new # Failed, NEW v, v = u \ (AllBlocks(t) \ AllBlocks(new))
  PROVE  VolumeOK(new, v, s)
<1>1. AllBlocks(t) = u
  BY Zenon, Exact DEF VolumeOK
<1>2. Held(new, N, {}, u) /\ AllBlocks(new) \subseteq u
  BY Zenon DEF Tree, Held
<1>3. v = AllBlocks(new) /\ v \subseteq v
  BY <1>1, <1>2
<1>4. Held(new, N, v, v)
  BY Zenon, <1>2, <1>3 DEF Held
<1>5. u \subseteq s /\ v \subseteq s
  BY Zenon, <1>2, <1>3 DEF VolumeOK
<1> QED
  BY Zenon, <1>4, <1>5 DEF VolumeOK

LEMMA RenameEntryInv ==
  ASSUME Inv, NEW from, NEW old, NEW to, NEW new, RenameEntry(from, old, to, new)
  PROVE  Inv'
<1>1. PICK F, U, t : /\ F = Flushed /\ U = FlushedUsed
                     /\ t = Rename(F, Resolve(F, from), old, Resolve(F, to), new, SharedBlocks(F))
  BY Zenon
<1>2. PICK N \in Nat : Held(F, N, U, U)
  BY Zenon, <1>1, FlushOK DEF VolumeOK
<1>3. Tree(t, N, {}, U)
  BY Zenon, <1>1, <1>2, RenameTree
<1>4. PICK v : v = IF t = Failed THEN {} ELSE U \ (AllBlocks(F) \ AllBlocks(t))
  BY Zenon
<1>5. ASSUME t # Failed PROVE VolumeOK(t, v, space)
  <2>1. v = U \ (AllBlocks(F) \ AllBlocks(t)) /\ VolumeOK(F, U, space)
    BY Zenon, <1>1, <1>4, <1>5, FlushOK
  <2> QED
    BY Zenon, <1>3, <1>5, <2>1, FewerBlocks
<1>6. TransactionOK(t, v)
  BY Zenon, <1>5 DEF TransactionOK
<1>7. Transact(t, v)
  BY Zenon, <1>1, <1>4 DEF RenameEntry
<1> QED
  BY Zenon, <1>6, <1>7, TransactOK

LEMMA CommitActiveBatchInv ==
  ASSUME Inv, CommitActiveBatch
  PROVE  Inv'
<1>1. writer' = NoWriter /\ TodoInv'
  BY Zenon, WriterClosed, TodoKept DEF CommitActiveBatch
<1>2. VolumeOK(disk', used', space')
  BY Zenon, FlushOK DEF CommitActiveBatch
<1> QED
  BY Zenon, <1>1, <1>2, Settled DEF CommitActiveBatch

\* A chunk adds blocks past the last one.
LEMMA ChunkOK ==
  ASSUME NEW t, NEW u, NEW s, VolumeOK(t, u, s),
         NEW g, g = s \cup (Max(s) + 1)..(Max(s) + ChunkBlocks)
  PROVE  VolumeOK(t, u, g)
<1>1. PICK m \in Nat : s \subseteq 0..m
  BY Zenon DEF VolumeOK
<1>2. s # {} /\ u \subseteq s
  BY Zenon DEF VolumeOK
<1>3. Max(s) \in s
  BY Zenon, <1>1, <1>2, MaxIn
<1>4. PICK x : x = Max(s)
  BY Zenon
<1>5. x \in Nat /\ x <= m /\ ChunkBlocks \in Nat /\ m + ChunkBlocks \in Nat
  <2>1. ChunkBlocks \in Nat /\ x \in 0..m
    BY Zenon, <1>1, <1>3, <1>4, VolumeAssumption
  <2> QED
    BY <2>1
<1>6. s \cup (x + 1)..(x + ChunkBlocks) \subseteq 0..(m + ChunkBlocks)
  BY <1>1, <1>5
<1>7. g \subseteq 0..(m + ChunkBlocks) /\ u \subseteq g /\ g # {}
  BY Zenon, <1>2, <1>4, <1>6
<1> QED
  BY Zenon, <1>5, <1>7 DEF VolumeOK

LEMMA AllocateDataChunkInv ==
  ASSUME Inv, AllocateDataChunk
  PROVE  Inv'
<1>1. writer' = NoWriter /\ TodoInv'
  BY Zenon, WriterClosed, TodoKept DEF AllocateDataChunk
<1>2. VolumeOK(Flushed, FlushedUsed, space')
  BY Zenon, FlushOK, ChunkOK DEF AllocateDataChunk
<1>3. VolumeOK(disk', used', space')
  BY Zenon, <1>2 DEF AllocateDataChunk
<1> QED
  BY Zenon, <1>1, <1>3, Settled DEF AllocateDataChunk

LEMMA LoseBatchInv ==
  ASSUME Inv, LoseBatch
  PROVE  Inv'
<1>1. Idle
  BY Zenon, NotOpen DEF Inv, TodoInv, LoseBatch
<1>2. TodoInv'
  BY Zenon, <1>1, TodoKept DEF LoseBatch
<1> QED
  BY Zenon, <1>2, Settled DEF LoseBatch, Inv

LEMMA NoFrames == ASSUME todo' = << >> PROVE TodoInv'
<1>1. << >> \in Seq({}) /\ Len(<< >>) = 0 /\ 0 <= DeleteDepth + 1
  BY VolumeAssumption
<1> QED
  BY Zenon, <1>1 DEF TodoInv, Idle

LEMMA CrashInv ==
  ASSUME Inv, Crash
  PROVE  Inv'
  BY Zenon, NoFrames, Settled DEF Crash, Inv


\* Room for n blocks: the volume and the batch in order, the blocks nobody's.
RoomOK(r, n) ==
  /\ VolumeOK(r.disk, r.used, r.space) /\ BatchOK(r.disk, r.used, r.space, r.b)
  /\ r.from \subseteq r.space /\ r.from \cap r.b.alloc = {}
  /\ IsFiniteSet(r.from) /\ r.from \subseteq Nat /\ n <= Cardinality(r.from)
  /\ r.acked = {} \/ r.acked \subseteq Links(r.b.tree)

LEMMA LiveOK ==
  ASSUME Inv, NEW b, b = IF batch.open THEN batch ELSE OpenBatch(disk, used)
  PROVE  BatchOK(disk, used, space, b) /\ (acked = {} \/ acked \subseteq Links(b.tree))
<1>1. CASE batch.open
  BY Zenon, <1>1, NotOpen DEF Inv, BatchInv, AckInv
<1>2. CASE ~batch.open
  <2>1. acked = {} /\ b = OpenBatch(disk, used) /\ VolumeOK(disk, used, space)
    BY Zenon, <1>2 DEF Inv, AckInv
  <2> QED
    BY Zenon, <2>1, OpenOK
<1> QED
  BY Zenon, <1>1, <1>2

LEMMA SpaceFinite ==
  ASSUME NEW t, NEW u, NEW s, VolumeOK(t, u, s), NEW S, S \subseteq s
  PROVE  IsFiniteSet(S) /\ S \subseteq Nat /\ Cardinality(S) \in Nat
<1>1. PICK m \in Nat : s \subseteq 0..m
  BY Zenon DEF VolumeOK
<1>2. IsFiniteSet(0..m) /\ 0..m \subseteq Nat
  <2>1. 0 \in Int /\ m \in Int /\ 0..m \subseteq Nat
    OBVIOUS
  <2> QED
    BY Zenon, <2>1, FS_Interval
<1>3. S \subseteq 0..m
  BY Zenon, <1>1
<1>4. IsFiniteSet(S)
  BY Zenon, <1>2, <1>3, FS_Subset
<1> QED
  BY Zenon, <1>2, <1>3, <1>4, FS_CardinalityType

LEMMA RoomIs ==
  ASSUME Inv, NEW n \in Nat, NEW r \in Room(n)
  PROVE  RoomOK(r, n)
<1>1. PICK live, grown : /\ live = IF batch.open THEN batch ELSE OpenBatch(disk, used)
                         /\ grown = space \cup (Max(space) + 1)..(Max(space) + ChunkBlocks)
  BY Zenon
<1>2. BatchOK(disk, used, space, live) /\ (acked = {} \/ acked \subseteq Links(live.tree))
  BY Zenon, <1>1, LiveOK
<1>3. VolumeOK(disk, used, space)
  BY Zenon DEF Inv
<1>4. CASE Cardinality(Free(live)) >= n
  <2>1. PICK S : S = Free(live)
    BY Zenon
  <2>2. S \subseteq space /\ S \cap live.alloc = {}
    BY Zenon, <2>1 DEF Free
  <2>3. IsFiniteSet(S) /\ S \subseteq Nat /\ Cardinality(S) \in Nat
    BY Zenon, <1>3, <2>2, SpaceFinite
  <2>4. n <= Cardinality(S)
    BY <1>4, <2>1, <2>3
  <2>5. r = [b |-> live, from |-> S, disk |-> disk, used |-> used, space |-> space, acked |-> acked]
    BY Zenon, <1>1, <1>4, <2>1 DEF Room
  <2>6. r.b = live /\ r.from = S /\ r.disk = disk /\ r.used = used /\ r.space = space /\ r.acked = acked
    BY <2>5
  <2> QED
    BY Zenon, <1>2, <1>3, <2>2, <2>3, <2>4, <2>6 DEF RoomOK
<1>5. CASE ~(Cardinality(Free(live)) >= n)
  <2>1. PICK F, U, S, b : F = Flushed /\ U = FlushedUsed /\ S = grown \ U /\ b = OpenBatch(F, U)
    BY Zenon
  <2>2. VolumeOK(F, U, grown)
    BY Zenon, <1>1, <2>1, FlushOK, ChunkOK
  <2>3. BatchOK(F, U, grown, b) /\ b.alloc = U
    BY <2>1, <2>2, OpenOK
  <2>4. S \subseteq grown /\ S \cap U = {}
    BY Zenon, <2>1
  <2>5. IsFiniteSet(S) /\ S \subseteq Nat /\ Cardinality(S) \in Nat
    BY Zenon, <2>2, <2>4, SpaceFinite
  <2>6. /\ Cardinality(S) >= n
        /\ r = [b |-> b, from |-> S, disk |-> F, used |-> U, space |-> grown, acked |-> {}]
    <3>1. Room(n) = IF Cardinality(grown) <= MaxSpace /\ Cardinality(S) >= n
                    THEN {[b |-> b, from |-> S, disk |-> F, used |-> U, space |-> grown, acked |-> {}]}
                    ELSE {}
      BY Zenon, <1>1, <1>5, <2>1 DEF Room
    <3> QED
      BY Zenon, <3>1
  <2>7. n <= Cardinality(S)
    BY <2>5, <2>6
  <2>8. r.b = b /\ r.from = S /\ r.disk = F /\ r.used = U /\ r.space = grown /\ r.acked = {}
    BY <2>6
  <2> QED
    BY Zenon, <2>2, <2>3, <2>4, <2>5, <2>7, <2>8 DEF RoomOK
<1> QED
  BY Zenon, <1>4, <1>5

\* The blocks taken there.
LEMMA RunsIs ==
  ASSUME NEW n \in Nat, NEW r, RoomOK(r, n), NEW runs, runs = Lowest(r.from, n)
  PROVE  /\ runs \in Seq(Nat) /\ Range(runs) \subseteq r.space /\ Range(runs) \cap r.b.alloc = {}
         /\ IsFiniteSet(Range(runs)) /\ Cardinality(Range(runs)) = Len(runs)
<1>1. PICK S : S = r.from
  BY Zenon
<1>2. S \subseteq r.space /\ S \cap r.b.alloc = {} /\ IsFiniteSet(S) /\ S \subseteq Nat
      /\ n <= Cardinality(S)
  BY Zenon, <1>1 DEF RoomOK
<1>3. /\ runs \in Seq(Nat) /\ Len(runs) = n /\ Range(runs) \subseteq S
      /\ Cardinality(Range(runs)) = n
  BY Zenon, <1>1, <1>2, LowestIs
<1>5. Range(runs) \cap r.b.alloc = {} /\ Range(runs) \subseteq r.space
  BY <1>2, <1>3
<1>6. IsFiniteSet(Range(runs))
  BY Zenon, <1>2, <1>3, FS_Subset
<1> QED
  BY Zenon, <1>3, <1>5, <1>6


LEMMA BeginFileInv ==
  ASSUME Inv, NEW n \in Nat, BeginFile(n)
  PROVE  Inv'
<1>1. PICK r \in Room(n), s \in BOOLEAN :
         /\ batch' = [r.b EXCEPT !.ledger = @ \cup Range(Lowest(r.from, n))]
         /\ writer' = [open |-> TRUE, runs |-> Lowest(r.from, n), streaming |-> FALSE, short |-> s]
         /\ disk' = r.disk /\ used' = r.used /\ space' = r.space /\ acked' = r.acked
  BY Zenon DEF BeginFile
<1>2. PICK runs, L : runs = Lowest(r.from, n) /\ L = r.b.ledger \cup Range(runs)
  BY Zenon
<1>3. RoomOK(r, n)
  BY Zenon, RoomIs
<1>4. /\ runs \in Seq(Nat) /\ Range(runs) \subseteq r.space /\ Range(runs) \cap r.b.alloc = {}
      /\ IsFiniteSet(Range(runs)) /\ Cardinality(Range(runs)) = Len(runs)
  BY Zenon, <1>2, <1>3, RunsIs
<1>5. BatchOK(r.disk, r.used, r.space, r.b) /\ VolumeOK(r.disk, r.used, r.space)
      /\ (r.acked = {} \/ r.acked \subseteq Links(r.b.tree))
  BY Zenon, <1>3 DEF RoomOK
<1>6. L \subseteq r.space
  BY Zenon, <1>2, <1>4, <1>5 DEF BatchOK
<1>7. PICK c : c = [r.b EXCEPT !.ledger = L]
  BY Zenon
<1>8. /\ BatchOK(r.disk, r.used, r.space, c) /\ c.ledger = L /\ c.tree = r.b.tree
      /\ c.alloc = r.b.alloc /\ c.open = TRUE
  <2>1. BatchOK(r.disk, r.used, r.space, c) /\ SameButLedger(r.b, c, L)
    BY Zenon, <1>5, <1>6, <1>7, LedgerOK
  <2> QED
    BY Zenon, <2>1 DEF SameButLedger
<1>9. batch' = c /\ writer' = [open |-> TRUE, runs |-> runs, streaming |-> FALSE, short |-> s]
  BY Zenon, <1>1, <1>2, <1>7
<1>10. DOMAIN writer' = WriterFields /\ writer'.open = TRUE /\ writer'.runs = runs
  BY <1>9 DEF WriterFields
<1>11. Range(runs) \subseteq L
  BY Zenon, <1>2
<1>12. WriterOK(batch', writer')
  BY Zenon, <1>4, <1>8, <1>9, <1>10, <1>11 DEF WriterOK
<1>13. VolumeOK(disk', used', space') /\ BatchInv' /\ WriterInv' /\ AckInv'
  BY Zenon, <1>1, <1>5, <1>8, <1>9, <1>12 DEF BatchInv, WriterInv, AckInv
<1>14. TodoInv'
  BY Zenon, TodoKept DEF BeginFile
<1> QED
  BY Zenon, <1>13, <1>14 DEF Inv

LEMMA BeginFileStreamingInv ==
  ASSUME Inv, BeginFileStreaming
  PROVE  Inv'
<1>1. BatchOK(disk, used, space, batch') /\ (acked = {} \/ acked \subseteq Links(batch'.tree))
  BY Zenon, LiveOK DEF BeginFileStreaming
<1>2. /\ DOMAIN writer' = WriterFields /\ writer'.open = TRUE /\ writer'.runs = << >>
      /\ Range(<< >>) = {} /\ Len(<< >>) = 0 /\ << >> \in Seq(Nat)
  BY DEF BeginFileStreaming, WriterFields, Range
<1>3. IsFiniteSet({}) /\ Cardinality({}) = 0
  BY Zenon, FS_EmptySet
<1>4. {} \subseteq batch'.ledger /\ {} \cap batch'.alloc = {}
  BY Zenon
<1>5. WriterOK(batch', writer')
  BY Zenon, <1>2, <1>3, <1>4 DEF WriterOK
<1>6. batch'.open = TRUE
  BY Zenon, <1>1 DEF BatchOK
<1>7. disk' = disk /\ used' = used /\ space' = space /\ acked' = acked
  BY Zenon DEF BeginFileStreaming
<1>8. VolumeOK(disk', used', space') /\ BatchInv' /\ WriterInv' /\ AckInv'
  BY Zenon, <1>1, <1>5, <1>6, <1>7 DEF Inv, BatchInv, WriterInv, AckInv
<1>9. TodoInv'
  BY Zenon, TodoKept DEF BeginFileStreaming
<1> QED
  BY Zenon, <1>8, <1>9 DEF Inv

\* While a writer is open there is a batch, and no deletion is under way.
LEMMA WriterOpen ==
  ASSUME Inv, writer.open
  PROVE  /\ BatchOK(disk, used, space, batch) /\ WriterOK(batch, writer) /\ Idle
         /\ VolumeOK(disk, used, space) /\ (acked = {} \/ acked \subseteq Links(batch.tree))
  BY Zenon, NotOpen DEF Inv, BatchInv, WriterInv, TodoInv, AckInv

LEMMA AppendIs ==
  ASSUME NEW R \in Seq(Nat), NEW a \in Nat
  PROVE  /\ Append(R, a) \in Seq(Nat) /\ Len(Append(R, a)) = Len(R) + 1
         /\ Range(Append(R, a)) = Range(R) \cup {a}
<1>1. PICK n, s : n = Len(R) /\ s = Append(R, a)
  BY Zenon
<1>2. /\ s \in Seq(Nat) /\ Len(s) = n + 1 /\ DOMAIN R = 1..n /\ DOMAIN s = 1..(n + 1)
      /\ s[n + 1] = a /\ \A k \in 1..n : s[k] = R[k]
  BY <1>1
<1>3. /\ \A k \in 1..(n + 1) : k \in 1..n \/ k = n + 1
      /\ \A k \in 1..n : k \in 1..(n + 1)
      /\ n + 1 \in 1..(n + 1)
  <2>1. n \in Nat
    BY <1>1
  <2> QED
    BY <2>1
<1>4. Range(s) = Range(R) \cup {a}
  <2>1. ASSUME NEW x \in Range(s) PROVE x \in Range(R) \cup {a}
    BY Zenon, <1>2, <1>3, <2>1 DEF Range
  <2>2. ASSUME NEW x \in Range(R) \cup {a} PROVE x \in Range(s)
    BY Zenon, <1>2, <1>3, <2>2 DEF Range
  <2> QED
    BY Zenon, <2>1, <2>2
<1> QED
  BY Zenon, <1>1, <1>2, <1>4

LEMMA ExtendRunInv ==
  ASSUME Inv, ExtendRun
  PROVE  Inv'
<1>1. /\ BatchOK(disk, used, space, batch) /\ WriterOK(batch, writer) /\ Idle
      /\ VolumeOK(disk, used, space) /\ (acked = {} \/ acked \subseteq Links(batch.tree))
  BY Zenon, WriterOpen DEF ExtendRun
<1>2. PICK S, a, R, L : /\ S = Free(batch) /\ a = Min(S) /\ R = writer.runs
                        /\ L = batch.ledger \cup {a}
  BY Zenon
<1>3. S # {} /\ writer' = [writer EXCEPT !.runs = Append(@, a)]
      /\ batch' = [batch EXCEPT !.ledger = @ \cup {a}]
  BY Zenon, <1>2 DEF ExtendRun
<1>4. S \subseteq space /\ S = space \ (batch.alloc \cup batch.ledger)
  BY Zenon, <1>2 DEF Free
<1>5. S \subseteq Nat
  BY Zenon, <1>1, <1>4, SpaceFinite
<1>6. a \in S /\ a \in Nat
  BY Zenon, <1>2, <1>3, <1>5, MinIn
<1>7. a \in space /\ a \notin batch.alloc /\ a \notin batch.ledger
  BY Zenon, <1>4, <1>6
<1>8. L \subseteq space
  BY Zenon, <1>1, <1>2, <1>7 DEF BatchOK
<1>9. batch' = [batch EXCEPT !.ledger = L]
  BY Zenon, <1>2, <1>3
<1>10. /\ BatchOK(disk, used, space, batch') /\ batch'.ledger = L /\ batch'.tree = batch.tree
       /\ batch'.alloc = batch.alloc /\ batch'.open = TRUE
  <2>1. BatchOK(disk, used, space, batch') /\ SameButLedger(batch, batch', L)
    BY Zenon, <1>1, <1>8, <1>9, LedgerOK
  <2> QED
    BY Zenon, <2>1 DEF SameButLedger
<1>11. /\ DOMAIN writer = WriterFields /\ writer.open = TRUE /\ R \in Seq(Nat)
       /\ Range(R) \subseteq batch.ledger /\ Range(R) \cap batch.alloc = {}
       /\ IsFiniteSet(Range(R)) /\ Cardinality(Range(R)) = Len(R)
  BY Zenon, <1>1, <1>2 DEF WriterOK
<1>12. DOMAIN writer' = WriterFields /\ writer'.open = TRUE /\ writer'.runs = Append(R, a)
  BY <1>2, <1>3, <1>11 DEF WriterFields
<1>13. /\ Append(R, a) \in Seq(Nat) /\ Len(Append(R, a)) = Len(R) + 1
       /\ Range(Append(R, a)) = Range(R) \cup {a}
  BY Zenon, <1>6, <1>11, AppendIs
<1>14. a \notin Range(R)
  BY Zenon, <1>7, <1>11
<1>15. IsFiniteSet(Range(R) \cup {a}) /\ Cardinality(Range(R) \cup {a}) = Cardinality(Range(R)) + 1
  BY Zenon, <1>11, <1>14, FS_AddElement
<1>16. Range(R) \cup {a} \subseteq L /\ (Range(R) \cup {a}) \cap batch.alloc = {}
  BY Zenon, <1>2, <1>7, <1>11
<1>17. WriterOK(batch', writer')
  BY Zenon, <1>10, <1>11, <1>12, <1>13, <1>15, <1>16 DEF WriterOK
<1>18. disk' = disk /\ used' = used /\ space' = space /\ acked' = acked /\ todo' = todo
  BY Zenon DEF ExtendRun
<1>19. VolumeOK(disk', used', space') /\ BatchInv' /\ WriterInv' /\ AckInv'
  BY Zenon, <1>1, <1>10, <1>17, <1>18 DEF BatchInv, WriterInv, AckInv
<1>20. TodoInv'
  BY Zenon, <1>1, <1>18, TodoKept
<1> QED
  BY Zenon, <1>19, <1>20 DEF Inv


\* commit_and_rearm: what was in the batch is on the volume, the batch is armed on it.
LEMMA CommitAndRearmOK ==
  ASSUME NEW b, VolumeOK(disk, used, space), BatchOK(disk, used, space, b), CommitAndRearm(b),
         space' = space, writer' = NoWriter, TodoInv'
  PROVE  Inv'
<1>1. CASE HasUncommitted(b)
  <2>1. disk' = b.tree /\ used' = used \cup b.extents /\ batch' = Rearm(b) /\ acked' = {}
    BY Zenon, <1>1 DEF CommitAndRearm
  <2>2. VolumeOK(disk', used', space')
    BY Zenon, <2>1, CommitOK
  <2>3. BatchOK(b.tree, used', space, batch')
    BY Zenon, <2>1, RearmOK
  <2> QED
    BY Zenon, <2>1, <2>2, <2>3 DEF Inv, BatchInv, WriterInv, AckInv
<1>2. CASE ~HasUncommitted(b)
  <2>1. disk' = disk /\ used' = used /\ batch' = b /\ acked' = {}
    BY Zenon, <1>2 DEF CommitAndRearm
  <2> QED
    BY Zenon, <2>1 DEF Inv, BatchInv, WriterInv, AckInv
<1> QED
  BY Zenon, <1>1, <1>2

\* The reservation of a file that is refused or abandoned is released.
LEMMA ReleaseOK ==
  ASSUME Inv, writer.open, CommitAndRearm([batch EXCEPT !.ledger = @ \ Range(writer.runs)]),
         space' = space, todo' = todo, writer' = NoWriter
  PROVE  Inv'
<1>1. BatchOK(disk, used, space, batch) /\ Idle /\ VolumeOK(disk, used, space)
  BY Zenon, WriterOpen
<1>2. PICK L, c : L = batch.ledger \ Range(writer.runs) /\ c = [batch EXCEPT !.ledger = L]
  BY Zenon
<1>3. L \subseteq space
  BY Zenon, <1>1, <1>2 DEF BatchOK
<1>4. BatchOK(disk, used, space, c)
  BY Zenon, <1>1, <1>2, <1>3, LedgerOK
<1>5. CommitAndRearm(c)
  BY Zenon, <1>2
<1>6. TodoInv'
  BY Zenon, <1>1, TodoKept
<1> QED
  BY Zenon, <1>1, <1>4, <1>5, <1>6, CommitAndRearmOK

LEMMA AbandonFileInv ==
  ASSUME Inv, AbandonFile
  PROVE  Inv'
  BY Zenon, ReleaseOK DEF AbandonFile

LEMMA FinishFileInv ==
  ASSUME Inv, NEW path \in Paths, NEW n, FinishFile(path, n)
  PROVE  Inv'
<1>1. /\ writer.open /\ writer' = NoWriter /\ space' = space /\ todo' = todo
      /\ \E new \in AddFile(disk, batch, path, n, writer) :
            IF new = Failed THEN CommitAndRearm([batch EXCEPT !.ledger = @ \ Range(writer.runs)])
            ELSE \/ CommitAndRearm(new)
                 \/ /\ batch' = new
                    /\ acked' = acked \cup (Links(new.tree) \ Links(batch.tree))
                    /\ disk' = disk /\ used' = used
  BY Zenon DEF FinishFile
<1>2. PICK new \in AddFile(disk, batch, path, n, writer) :
            IF new = Failed THEN CommitAndRearm([batch EXCEPT !.ledger = @ \ Range(writer.runs)])
            ELSE \/ CommitAndRearm(new)
                 \/ /\ batch' = new
                    /\ acked' = acked \cup (Links(new.tree) \ Links(batch.tree))
                    /\ disk' = disk /\ used' = used
  BY Zenon, <1>1
<1>3. CASE new = Failed
  BY Zenon, <1>1, <1>2, <1>3, ReleaseOK
<1>4. CASE new # Failed
  <2>1. /\ BatchOK(disk, used, space, batch) /\ WriterOK(batch, writer) /\ Idle
        /\ VolumeOK(disk, used, space) /\ (acked = {} \/ acked \subseteq Links(batch.tree))
    BY Zenon, <1>1, WriterOpen
  <2>2. writer.runs \in Seq(Nat) /\ Range(writer.runs) \subseteq space
    BY Zenon, <2>1 DEF WriterOK, BatchOK
  <2>3. BatchOK(disk, used, space, new) /\ HoldsMore(batch, new)
    BY Zenon, <1>2, <1>4, <2>1, <2>2, AddedOK
  <2>4. TodoInv'
    BY Zenon, <1>1, <2>1, TodoKept
  <2>5. CASE CommitAndRearm(new)
    BY Zenon, <1>1, <2>1, <2>3, <2>4, <2>5, CommitAndRearmOK
  <2>6. CASE /\ batch' = new
             /\ acked' = acked \cup (Links(new.tree) \ Links(batch.tree))
             /\ disk' = disk /\ used' = used
    <3>1. Links(batch.tree) \subseteq Links(new.tree)
      BY Zenon, <2>3, LinksGrow DEF HoldsMore
    <3>2. acked' \subseteq Links(new.tree)
      BY Zenon, <2>1, <2>6, <3>1
    <3>3. batch'.open = TRUE
      BY Zenon, <2>3, <2>6 DEF HoldsMore
    <3> QED
      BY Zenon, <1>1, <2>1, <2>3, <2>4, <2>6, <3>2, <3>3 DEF Inv, BatchInv, WriterInv, AckInv
  <2> QED
    BY Zenon, <1>2, <1>4, <2>5, <2>6
<1> QED
  BY Zenon, <1>3, <1>4

\* What create_file_with_data leaves of the room r and the batch b it made of it.
DataOutcome(r, new, b) ==
  /\ disk' = IF HasUncommitted(b) THEN b.tree ELSE r.disk
  /\ used' = IF HasUncommitted(b) THEN r.used \cup b.extents ELSE r.used
  /\ batch' = IF new # Failed THEN NoBatch ELSE IF HasUncommitted(b) THEN Rearm(b) ELSE b
  /\ space' = r.space

LEMMA CreateFileWithDataInv ==
  ASSUME Inv, NEW path \in Paths, NEW n, NEW k \in Nat, CreateFileWithData(path, n, k)
  PROVE  Inv'
<1>1. PICK r, new : /\ r \in Room(k)
                    /\ new \in AddFile(r.disk, r.b, path, n,
                                       [runs |-> Lowest(r.from, k), short |-> FALSE])
                    /\ DataOutcome(r, new, IF new = Failed THEN r.b ELSE new)
  BY Zenon DEF CreateFileWithData, DataOutcome
<1>2. PICK runs, w, b : /\ runs = Lowest(r.from, k) /\ w = [runs |-> runs, short |-> FALSE]
                        /\ b = IF new = Failed THEN r.b ELSE new
  BY Zenon
<1>3. /\ new \in AddFile(r.disk, r.b, path, n, w)
      /\ b = IF new = Failed THEN r.b ELSE new
      /\ disk' = IF HasUncommitted(b) THEN b.tree ELSE r.disk
      /\ used' = IF HasUncommitted(b) THEN r.used \cup b.extents ELSE r.used
      /\ batch' = IF new # Failed THEN NoBatch ELSE IF HasUncommitted(b) THEN Rearm(b) ELSE b
      /\ space' = r.space
  <2>1. DataOutcome(r, new, b) /\ new \in AddFile(r.disk, r.b, path, n, w)
    BY Zenon, <1>1, <1>2
  <2> QED
    BY Zenon, <1>2, <2>1 DEF DataOutcome
<1>4. RoomOK(r, k)
  BY Zenon, <1>1, RoomIs
<1>5. runs \in Seq(Nat) /\ Range(runs) \subseteq r.space
  BY Zenon, <1>2, <1>4, RunsIs
<1>6. VolumeOK(r.disk, r.used, r.space) /\ BatchOK(r.disk, r.used, r.space, r.b)
  BY Zenon, <1>4 DEF RoomOK
<1>7. w.runs = runs
  BY <1>2
<1>8. BatchOK(r.disk, r.used, r.space, b)
  <2>1. CASE new = Failed
    BY Zenon, <1>3, <1>6, <2>1
  <2>2. CASE new # Failed
    <3>1. BatchOK(r.disk, r.used, r.space, new)
      BY Zenon, <1>3, <1>5, <1>6, <1>7, <2>2, AddedOK
    <3> QED
      BY Zenon, <1>3, <2>2, <3>1
  <2> QED
    BY Zenon, <2>1, <2>2
<1>9. PICK U : U = r.used \cup b.extents
  BY Zenon
<1>10. VolumeOK(b.tree, U, r.space) /\ BatchOK(b.tree, U, r.space, Rearm(b))
  BY Zenon, <1>6, <1>8, <1>9, CommitOK, RearmOK
<1>11. VolumeOK(disk', used', space')
  <2>1. CASE HasUncommitted(b)
    <3>1. disk' = b.tree /\ used' = U /\ space' = r.space
      BY Zenon, <1>3, <1>9, <2>1
    <3> QED
      BY Zenon, <1>10, <3>1
  <2>2. CASE ~HasUncommitted(b)
    <3>1. disk' = r.disk /\ used' = r.used /\ space' = r.space
      BY Zenon, <1>3, <2>2
    <3> QED
      BY Zenon, <1>6, <3>1
  <2> QED
    BY Zenon, <2>1, <2>2
<1>12. BatchInv'
  <2>1. CASE new # Failed
    BY Zenon, <1>3, <2>1 DEF BatchInv
  <2>2. CASE new = Failed /\ HasUncommitted(b)
    BY Zenon, <1>3, <1>9, <1>10, <2>2 DEF BatchInv
  <2>3. CASE new = Failed /\ ~HasUncommitted(b)
    BY Zenon, <1>3, <1>8, <2>3 DEF BatchInv
  <2> QED
    BY Zenon, <2>1, <2>2, <2>3
<1>13. writer' = NoWriter /\ acked' = {} /\ TodoInv'
  BY Zenon, WriterClosed, TodoKept DEF CreateFileWithData
<1> QED
  BY Zenon, <1>11, <1>12, <1>13 DEF Inv, WriterInv, AckInv


\* A deletion starts with one frame on the flushed volume.
LEMMA DeleteEntryInv ==
  ASSUME Inv, NEW path, DeleteEntry(path)
  PROVE  Inv'
<1>1. PICK f : f = Frame(Flushed, path)
  BY Zenon
<1>2. todo' = << >> \/ todo' = <<f>>
  BY Zenon, <1>1 DEF DeleteEntry
<1>3. writer' = NoWriter /\ batch' = NoBatch
  BY Zenon, WriterClosed DEF DeleteEntry
<1>4. TodoInv'
  <2>1. CASE todo' = << >>
    BY Zenon, <2>1, NoFrames
  <2>2. CASE todo' = <<f>>
    <3>1. DeleteDepth \in Nat
      BY Zenon, VolumeAssumption
    <3>2. <<f>> \in Seq({f}) /\ Len(<<f>>) <= DeleteDepth + 1
      BY <3>1
    <3> QED
      BY Zenon, <1>3, <2>2, <3>2 DEF TodoInv
  <2> QED
    BY Zenon, <1>2, <2>1, <2>2
<1>5. VolumeOK(disk', used', space')
  BY Zenon, FlushOK DEF DeleteEntry
<1> QED
  BY Zenon, <1>3, <1>4, <1>5, Settled DEF DeleteEntry

LEMMA LenIs == ASSUME NEW A, NEW s \in Seq(A) PROVE Len(s) \in Nat
  OBVIOUS

\* The frames of a deletion with the last one dropped or replaced.
LEMMA FrontIs ==
  ASSUME NEW A, NEW s \in Seq(A), s # << >>
  PROVE  Front(s) \in Seq(A) /\ Len(Front(s)) = Len(s) - 1
<1>1. Len(s) \in Nat /\ Len(s) # 0 /\ s \in [1..Len(s) -> A]
  <2>1. Len(s) \in Nat /\ s \in [1..Len(s) -> A]
    OBVIOUS
  <2>2. Len(s) # 0
    OBVIOUS
  <2> QED
    BY Zenon, <2>1, <2>2
<1>2. PICK m : m \in Nat /\ m = Len(s) - 1
  <2>1. Len(s) - 1 \in Nat
    BY <1>1
  <2> QED
    BY Zenon, <2>1
<1>3. m <= Len(s)
  BY <1>1, <1>2
<1>4. SubSeq(s, 1, m) \in Seq(A) /\ Len(SubSeq(s, 1, m)) = m
  BY <1>1, <1>2, <1>3
<1> QED
  BY Zenon, <1>2, <1>4 DEF Front

LEMMA PushIs ==
  ASSUME NEW A, NEW s \in Seq(A), s # << >>, NEW x, NEW y, NEW B, B = A \cup {x, y}
  PROVE  /\ Append(Append(Front(s), x), y) \in Seq(B)
         /\ Len(Append(Append(Front(s), x), y)) = Len(s) + 1
<1>1. PICK f : f = Front(s)
  BY Zenon
<1>2. f \in Seq(A) /\ Len(f) = Len(s) - 1 /\ Len(s) \in Nat
  BY Zenon, <1>1, FrontIs, LenIs
<1>3. f \in Seq(B)
  <2>1. PICK n \in Nat : f \in [1..n -> A]
    <3>1. f \in [1..Len(f) -> A] /\ Len(f) \in Nat
      BY <1>2
    <3> QED
      BY Zenon, <3>1
  <2>2. f \in [1..n -> B]
    BY Zenon, <2>1
  <2> QED
    BY <2>2
<1>4. x \in B /\ y \in B
  BY Zenon
<1>5. Append(f, x) \in Seq(B) /\ Len(Append(f, x)) = Len(f) + 1
  BY <1>3, <1>4
<1>6. Append(Append(f, x), y) \in Seq(B) /\ Len(Append(Append(f, x), y)) = Len(f) + 2
  BY <1>3, <1>4, <1>5
<1>7. Len(f) + 2 = Len(s) + 1
  BY <1>2
<1> QED
  BY Zenon, <1>1, <1>6, <1>7

LEMMA DescendIntoInv ==
  ASSUME Inv, DescendInto
  PROVE  Inv'
<1>1. todo # << >> /\ batch = NoBatch /\ writer = NoWriter
  BY Zenon DEF DescendInto, Idle, Inv, TodoInv
<1>2. PICK A : todo \in Seq(A)
  BY Zenon DEF Inv, TodoInv
<1>3. PICK x, y : /\ x = [Top EXCEPT !.kids = Tail(@)]
                  /\ y = Frame(disk, Append(Top.path, Head(Top.kids).name))
  BY Zenon
<1>4. todo' = << >> \/ (/\ ~(Len(todo) > DeleteDepth)
                        /\ todo' = Append(Append(Front(todo), x), y))
  BY Zenon, <1>3 DEF DescendInto
<1>5. /\ disk' = disk /\ used' = used /\ space' = space /\ batch' = NoBatch /\ writer' = NoWriter
      /\ acked' = acked
  BY Zenon, <1>1 DEF DescendInto
<1>6. acked = {}
  BY Zenon, <1>1, NotOpen DEF Inv, AckInv
<1>7. TodoInv'
  <2>1. CASE todo' = << >>
    BY Zenon, <2>1, NoFrames
  <2>2. CASE ~(Len(todo) > DeleteDepth) /\ todo' = Append(Append(Front(todo), x), y)
    <3>1. PICK B : B = A \cup {x, y}
      BY Zenon
    <3>2. todo' \in Seq(B) /\ Len(todo') = Len(todo) + 1
      BY Zenon, <1>1, <1>2, <2>2, <3>1, PushIs
    <3>3. Len(todo) \in Nat /\ DeleteDepth \in Nat
      BY Zenon, <1>2, LenIs, VolumeAssumption
    <3>4. Len(todo') <= DeleteDepth + 1
      BY <2>2, <3>2, <3>3
    <3> QED
      BY Zenon, <1>5, <3>2, <3>4 DEF TodoInv
  <2> QED
    BY Zenon, <1>4, <2>1, <2>2
<1>8. VolumeOK(disk', used', space')
  BY Zenon, <1>5 DEF Inv
<1> QED
  BY Zenon, <1>5, <1>6, <1>7, <1>8, Settled

LEMMA DeleteOneInv ==
  ASSUME Inv, DeleteOne
  PROVE  Inv'
<1>1. /\ todo # << >> /\ batch = NoBatch /\ writer = NoWriter /\ Len(todo) <= DeleteDepth + 1
      /\ VolumeOK(disk, used, space)
  BY Zenon DEF DeleteOne, Idle, Inv, TodoInv
<1>2. PICK A : todo \in Seq(A)
  BY Zenon DEF Inv, TodoInv
<1>3. PICK t : t = DeleteFile(disk, Resolve(disk, Front(Top.path)), Last(Top.path), SharedBlocks(disk))
  BY Zenon
<1>4. \/ /\ t # Failed /\ disk' = t /\ used' = used \ (AllBlocks(disk) \ AllBlocks(t))
         /\ todo' = Front(todo)
      \/ todo' = << >> /\ disk' = disk /\ used' = used
  BY Zenon, <1>3 DEF DeleteOne
<1>5. space' = space /\ batch' = NoBatch /\ writer' = NoWriter /\ acked' = acked
  BY Zenon, <1>1 DEF DeleteOne
<1>6. acked = {}
  BY Zenon, <1>1, NotOpen DEF Inv, AckInv
<1>7. CASE /\ t # Failed /\ disk' = t /\ used' = used \ (AllBlocks(disk) \ AllBlocks(t))
           /\ todo' = Front(todo)
  <2>1. PICK N \in Nat : Held(disk, N, used, used)
    BY Zenon, <1>1 DEF VolumeOK
  <2>2. Tree(t, N, {}, used)
    BY Zenon, <1>3, <2>1, DeleteTree
  <2>3. VolumeOK(t, used', space)
    BY Zenon, <1>1, <1>7, <2>2, FewerBlocks
  <2>4. Front(todo) \in Seq(A) /\ Len(Front(todo)) = Len(todo) - 1
    BY Zenon, <1>1, <1>2, FrontIs
  <2>5. Len(todo) \in Nat /\ DeleteDepth \in Nat
    BY Zenon, <1>2, LenIs, VolumeAssumption
  <2>6. Len(Front(todo)) <= DeleteDepth + 1
    BY <1>1, <2>4, <2>5
  <2>7. TodoInv'
    BY Zenon, <1>5, <1>7, <2>4, <2>6 DEF TodoInv
  <2> QED
    BY Zenon, <1>5, <1>6, <1>7, <2>3, <2>7, Settled
<1>8. CASE todo' = << >> /\ disk' = disk /\ used' = used
  <2>1. TodoInv'
    BY Zenon, <1>8, NoFrames
  <2> QED
    BY Zenon, <1>1, <1>5, <1>6, <1>8, <2>1, Settled
<1> QED
  BY Zenon, <1>4, <1>7, <1>8


-----------------------------------------------------------------------------
(* The invariant holds.                                                      *)

LEMMA InitInv == Init => Inv
<1> SUFFICES ASSUME Init PROVE Inv
  OBVIOUS
<1>1. /\ disk \in InitTrees /\ used = AllBlocks(disk) /\ space = InitSpace /\ batch = NoBatch
      /\ writer = NoWriter /\ todo = << >> /\ acked = {}
  BY Zenon DEF Init
<1>2. /\ DOMAIN disk = Kinds
      /\ \A i \in DOMAIN disk.inode : DOMAIN disk.inode[i] = Fields
      /\ ObjectIds(disk) \subseteq Nat \ {NoIno} /\ IsFiniteSet(ObjectIds(disk))
      /\ AllBlocks(disk) \subseteq InitSpace
      /\ InitSpace # {} /\ InitSpace \subseteq Nat /\ IsFiniteSet(InitSpace)
  BY Zenon, <1>1, VolumeAssumption DEF Fields
<1>3. ObjectIds(disk) \subseteq Nat /\ NoIno \notin ObjectIds(disk)
  BY Zenon, <1>2
<1>4. PICK N \in Nat : ObjectIds(disk) \subseteq 0..N
  BY Zenon, <1>2, <1>3, FiniteBound
<1>5. ASSUME NEW kind \in Kinds, NEW k \in DOMAIN disk[kind] PROVE Id(kind, k) \in 1..N
  <2>1. Id(kind, k) \in ObjectIds(disk)
    BY Zenon, <1>2, IdIn
  <2>2. Id(kind, k) \in 0..N /\ Id(kind, k) # 0
    BY Zenon, <1>3, <1>4, <2>1 DEF NoIno
  <2> QED
    BY <2>2
<1>6. Held(disk, N, used, used)
  BY Zenon, <1>1, <1>2, <1>5 DEF Held
<1>7. PICK m \in Nat : InitSpace \subseteq 0..m
  BY Zenon, <1>2, FiniteBound
<1>8. VolumeOK(disk, used, space)
  BY Zenon, <1>1, <1>2, <1>6, <1>7 DEF VolumeOK
<1>9. << >> \in Seq({}) /\ Len(<< >>) <= DeleteDepth + 1
  <2>1. DeleteDepth \in Nat
    BY Zenon, VolumeAssumption
  <2> QED
    BY <2>1
<1> QED
  BY Zenon, <1>1, <1>8, <1>9 DEF Inv, BatchInv, WriterInv, TodoInv, AckInv, Idle

LEMMA StutterInv == Inv /\ UNCHANGED vars => Inv'
<1> SUFFICES ASSUME Inv, UNCHANGED vars PROVE Inv'
  OBVIOUS
<1>1. /\ disk' = disk /\ used' = used /\ space' = space /\ batch' = batch
      /\ writer' = writer /\ todo' = todo /\ acked' = acked
  BY DEF vars
<1>2. VolumeOK(disk', used', space') /\ BatchInv' /\ WriterInv' /\ AckInv'
  BY Zenon, <1>1 DEF Inv, BatchInv, WriterInv, AckInv
<1>3. TodoInv'
  BY Zenon, <1>1 DEF Inv, TodoInv, Idle
<1> QED
  BY Zenon, <1>2, <1>3 DEF Inv

LEMMA NextInv == Inv /\ Next => Inv'
<1> SUFFICES ASSUME Inv, Next PROVE Inv'
  OBVIOUS
<1>1. ASSUME NEW p \in Paths, NEW n \in Names,
             \/ CreateFile(p, n) \/ MakeDirectory(p, n) \/ FinishFile(p, n)
             \/ SetMtime(Append(p, n)) \/ WriteFile(Append(p, n)) \/ DeleteEntry(Append(p, n))
      PROVE  Inv'
  BY Zenon, <1>1, CreateFileInv, MakeDirectoryInv, FinishFileInv, SetMtimeInv, WriteFileInv,
     DeleteEntryInv
<1>2. ASSUME NEW p \in Paths, NEW q \in Paths, NEW m \in Names, NEW n \in Names,
             RenameEntry(p, m, q, n)
      PROVE  Inv'
  BY Zenon, <1>2, RenameEntryInv
<1>3. 0..MaxRuns \subseteq Nat
  <2>1. MaxRuns \in Nat
    BY Zenon, VolumeAssumption
  <2> QED
    BY <2>1
<1>4. ASSUME NEW k \in 0..MaxRuns, BeginFile(k) PROVE Inv'
  BY Zenon, <1>3, <1>4, BeginFileInv
<1>5. ASSUME NEW p \in Paths, NEW n \in Names, NEW k \in 0..MaxRuns, CreateFileWithData(p, n, k)
      PROVE  Inv'
  BY Zenon, <1>3, <1>5, CreateFileWithDataInv
<1>6. CASE \/ CommitActiveBatch \/ AllocateDataChunk \/ BeginFileStreaming \/ ExtendRun
           \/ AbandonFile \/ DescendInto \/ DeleteOne \/ LoseBatch \/ Crash
  BY Zenon, <1>6, CommitActiveBatchInv, AllocateDataChunkInv, BeginFileStreamingInv, ExtendRunInv,
     AbandonFileInv, DescendIntoInv, DeleteOneInv, LoseBatchInv, CrashInv
<1> QED
  BY Zenon, <1>1, <1>2, <1>4, <1>5, <1>6 DEF Next

LEMMA Invariance == Spec => []Inv
<1>1. Inv /\ [Next]_vars => Inv'
  BY Zenon, NextInv, StutterInv
<1> QED
  BY <1>1, InitInv, PTL DEF Spec

-----------------------------------------------------------------------------
(* What follows from it.                                                     *)

LEMMA InvTyped == Inv => TypeOK
<1> SUFFICES ASSUME Inv PROVE TypeOK
  OBVIOUS
<1>1. PICK N \in Nat : Held(disk, N, used, used)
  BY Zenon DEF Inv, VolumeOK
<1>2. DOMAIN disk = Kinds /\ AllBlocks(disk) \subseteq space /\ used \subseteq space
  <2>1. AllBlocks(disk) = used
    BY Zenon, <1>1, Exact
  <2> QED
    BY Zenon, <1>1, <2>1 DEF Inv, VolumeOK, Held
<1>3. ASSUME batch.open PROVE /\ DOMAIN batch.tree = Kinds /\ AllBlocks(batch.tree) \subseteq space
                              /\ batch.alloc \subseteq space /\ batch.ledger \subseteq space
  <2>1. BatchOK(disk, used, space, batch)
    BY Zenon, <1>3, NotOpen DEF Inv, BatchInv
  <2>2. PICK M \in Nat : Held(batch.tree, M, batch.alloc, batch.alloc)
    BY Zenon, <2>1 DEF BatchOK
  <2>3. AllBlocks(batch.tree) = batch.alloc
    BY Zenon, <2>2, Exact
  <2> QED
    BY Zenon, <2>1, <2>2, <2>3 DEF BatchOK, Held
<1>4. ASSUME NEW t \in Trees PROVE DOMAIN t = Kinds /\ AllBlocks(t) \subseteq space
  <2>1. t = disk \/ (batch.open /\ t = batch.tree)
    BY Zenon DEF Trees
  <2> QED
    BY Zenon, <1>2, <1>3, <2>1
<1>5. writer.open => batch.open /\ Range(writer.runs) \subseteq batch.ledger
  BY Zenon, NotOpen DEF Inv, WriterInv, WriterOK
<1>6. Len(todo) <= DeleteDepth + 1
  BY Zenon DEF Inv, TodoInv
<1> QED
  BY Zenon, <1>2, <1>3, <1>4, <1>5, <1>6 DEF TypeOK

LEMMA InvAccounted == Inv => SpaceAccounted
<1> SUFFICES ASSUME Inv PROVE SpaceAccounted
  OBVIOUS
<1>1. used = AllBlocks(disk)
  BY Zenon, Exact DEF Inv, VolumeOK
<1>2. ASSUME batch.open PROVE /\ batch.alloc = AllBlocks(batch.tree)
                              /\ used \cup batch.extents = AllBlocks(batch.tree)
  <2>1. BatchOK(disk, used, space, batch)
    BY Zenon, <1>2, NotOpen DEF Inv, BatchInv
  <2>2. batch.alloc = AllBlocks(batch.tree)
    BY Zenon, <2>1, Exact DEF BatchOK
  <2> QED
    BY Zenon, <2>1, <2>2 DEF BatchOK
<1>3. ASSUME writer.open
      PROVE  /\ Range(writer.runs) \cap (AllBlocks(disk) \cup AllBlocks(batch.tree)) = {}
             /\ Cardinality(Range(writer.runs)) = Len(writer.runs)
  <2>1. BatchOK(disk, used, space, batch) /\ WriterOK(batch, writer)
    BY Zenon, <1>3, WriterOpen
  <2>2. batch.open /\ Range(writer.runs) \cap batch.alloc = {}
        /\ Cardinality(Range(writer.runs)) = Len(writer.runs)
    BY Zenon, <2>1 DEF BatchOK, WriterOK
  <2>3. AllBlocks(disk) \subseteq batch.alloc /\ AllBlocks(batch.tree) = batch.alloc
    BY Zenon, <1>1, <1>2, <2>2
  <2> QED
    BY Zenon, <2>2, <2>3
<1> QED
  BY Zenon, <1>1, <1>2, <1>3, InvTyped DEF SpaceAccounted

LEMMA InvCaches == Inv => CachesTrue
<1> SUFFICES ASSUME Inv, batch.open, batch.bound
             PROVE  /\ \A p \in DOMAIN batch.parents :
                          Resolve(disk, p) = batch.parents[p] /\ IsDir(disk, batch.parents[p])
                    /\ batch.nextIno >= NextIno(batch.tree)
  BY Zenon DEF CachesTrue
<1>1. BatchOK(disk, used, space, batch)
  BY Zenon, NotOpen DEF Inv, BatchInv
<1>2. /\ ParentsOK(disk, batch.parents) /\ DOMAIN batch.tree.inode # {}
      /\ batch.nextIno \in Nat /\ batch.nextIno - 1 \in Nat
      /\ Held(batch.tree, batch.nextIno - 1, batch.alloc, batch.alloc)
  BY Zenon, <1>1 DEF BatchOK
<1>3. NextIno(batch.tree) \in 1..((batch.nextIno - 1) + 1)
  BY Zenon, <1>2, NextInoIs
<1>4. batch.nextIno >= NextIno(batch.tree)
  <2>1. PICK a, b : a = batch.nextIno /\ b = NextIno(batch.tree)
    BY Zenon
  <2>2. a \in Nat /\ b \in 1..((a - 1) + 1)
    BY Zenon, <1>2, <1>3, <2>1
  <2>3. a >= b
    BY <2>2
  <2> QED
    BY Zenon, <2>1, <2>3
<1> QED
  BY Zenon, <1>2, <1>4 DEF ParentsOK

\* For any volume, names, paths and sizes: after every operation, batch commit, failed commit,
\* abandoned writer and crash the extent tree records exactly the blocks files refer to, the
\* batch's allocator knows those and its own, and no file of either tree refers to a block
\* reserved for the open writer (write/mod.rs, write/batch.rs, write/txn).
THEOREM ExtentsAreExact == Spec => []SpaceAccounted
  BY Invariance, InvAccounted, PTL

\* The parents and the next inode number a batch keeps across commit_and_rearm are true of the
\* volume for as long as the batch lives (add_file_internal in write/batch.rs).
THEOREM CachesStayTrue == Spec => []CachesTrue
  BY Invariance, InvCaches, PTL

\* The names finish_file accepted are in the live batch until it is committed or lost.
THEOREM AcceptedFilesAreHeld == Spec => []AckedHeld
<1>1. Inv => AckedHeld
  BY Zenon DEF Inv, AckInv, AckedHeld
<1> QED
  BY <1>1, Invariance, PTL
=============================================================================
