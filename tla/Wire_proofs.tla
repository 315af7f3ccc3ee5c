----------------------------- MODULE Wire_proofs -----------------------------
(***************************************************************************)
(* Theorems of Acknowledgement, for lists of any numbers, any MTU and any  *)
(* limit of the reader, and of Framing: packet::split for contents of any  *)
(* length, the packet codec for every packet whose length fits its field,  *)
(* the message codec for any number of addresses.                          *)
(***************************************************************************)
EXTENDS Acknowledgement, Framing, SequenceTheorems, FiniteSetTheorems, NaturalsInduction, TLAPS

(* Induction over 0 .. n, from the least number of a set.                  *)
LEMMA UpTo ==
  ASSUME NEW n \in Nat, NEW S, 0 \in S,
         \A k \in 1 .. n : k - 1 \in S => k \in S
  PROVE  \A k \in 0 .. n : k \in S
<1> DEFINE T == {k \in Nat : k <= n /\ k \notin S}
<1>1. SUFFICES T = {}
  OBVIOUS
<1>2. SUFFICES ASSUME T # {} PROVE FALSE
  OBVIOUS
<1>3. PICK k \in T : \A l \in T : ~ (<<l, k>> \in OpToRel(<, Nat))
  BY <1>2, WFMin, NatLessThanWellFounded, Zenon
<1>4. k \in Nat /\ k <= n /\ k \notin S /\ k # 0
  BY <1>3
<1>5. k - 1 \in Nat /\ k - 1 < k /\ k - 1 <= n /\ k \in 1 .. n
  BY <1>4
<1>6. k - 1 \notin T
  BY <1>3, <1>5 DEF OpToRel
<1> QED
  BY <1>4, <1>5, <1>6

(* A set of positions that holds k and none beyond has k as its Max.       *)
LEMMA Largest ==
  ASSUME NEW k \in Nat, NEW s \in SUBSET (1 .. k), k \in s
  PROVE  Max(s) = k
<1>1. /\ k \in s /\ \A y \in s : k >= y
  OBVIOUS
<1>2. \A x \in s : (\A y \in s : x >= y) => x = k
  BY <1>1
<1> QED
  BY <1>1, <1>2, Zenon DEF Max

(* Max of a set of positions is one of them, and none lies beyond.         *)
LEMMA LargestIn ==
  ASSUME NEW n \in Nat, NEW s \in SUBSET (1 .. n), s # {}
  PROVE  Max(s) \in s /\ s \in SUBSET (1 .. Max(s))
<1> DEFINE P == {k \in 0 .. n : \A t \in SUBSET (1 .. k) :
                     t = {} \/ (Max(t) \in t /\ t \in SUBSET (1 .. Max(t)))}
<1>1. 0 \in P
  <2>1. \A t \in SUBSET (1 .. 0) : t = {}
    OBVIOUS
  <2> QED
    BY <2>1
<1>2. ASSUME NEW k \in 1 .. n, k - 1 \in P
      PROVE  k \in P
  <2> SUFFICES ASSUME NEW t \in SUBSET (1 .. k), t # {}
               PROVE  Max(t) \in t /\ t \in SUBSET (1 .. Max(t))
    OBVIOUS
  <2>1. CASE k \in t
    BY <2>1, Largest
  <2>2. CASE k \notin t
    <3>1. t \in SUBSET (1 .. (k - 1))
      BY <2>2
    <3> QED
      BY <1>2, <3>1
  <2> QED
    BY <2>1, <2>2
<1> HIDE DEF P
<1>3. \A k \in 0 .. n : k \in P
  BY <1>1, <1>2, UpTo, Zenon
<1>4. n \in P
  BY <1>3
<1> QED
  BY <1>4 DEF P

(* FoldLeft is a recursive function of the sets of positions, which takes  *)
(* the last one first. A prover knows it as a CHOOSE of its equation, so   *)
(* that some function has to satisfy it: for a step from R to R there is   *)
(* one.                                                                    *)
FoldOf(f, base, step, k) ==
    f = [s \in SUBSET (1 .. k) |->
           IF s = {} THEN base ELSE step[<<Max(s), f[s \ {Max(s)}]>>]]

LEMMA Folding ==
  ASSUME NEW R, NEW base \in R, NEW n \in Nat, NEW step \in [(1 .. n) \X R -> R]
  PROVE  \E f \in [SUBSET (1 .. n) -> R] : FoldOf(f, base, step, n)
<1> DEFINE P == {k \in 0 .. n : \E f \in [SUBSET (1 .. k) -> R] : FoldOf(f, base, step, k)}
<1>1. 0 \in P
  <2> DEFINE f == [s \in SUBSET (1 .. 0) |-> base]
  <2>1. \A s \in SUBSET (1 .. 0) : s = {}
    OBVIOUS
  <2>2. f \in [SUBSET (1 .. 0) -> R]
    OBVIOUS
  <2>3. f = [s \in SUBSET (1 .. 0) |->
               IF s = {} THEN base ELSE step[<<Max(s), f[s \ {Max(s)}]>>]]
    BY <2>1
  <2>4. FoldOf(f, base, step, 0)
    BY <2>3 DEF FoldOf
  <2> HIDE DEF f
  <2>5. \E h \in [SUBSET (1 .. 0) -> R] : FoldOf(h, base, step, 0)
    BY <2>2, <2>4, Zenon
  <2>6. 0 \in 0 .. n
    OBVIOUS
  <2> QED
    BY <2>5, <2>6, Zenon
<1>2. ASSUME NEW k \in 1 .. n, k - 1 \in P
      PROVE  k \in P
  <2>1. PICK f \in [SUBSET (1 .. (k - 1)) -> R] : FoldOf(f, base, step, k - 1)
    BY <1>2
  <2>2. \A s \in SUBSET (1 .. (k - 1)) :
           f[s] = IF s = {} THEN base ELSE step[<<Max(s), f[s \ {Max(s)}]>>]
    BY <2>1 DEF FoldOf
  <2> DEFINE g == [s \in SUBSET (1 .. k) |->
                     IF k \in s THEN step[<<k, f[s \ {k}]>>] ELSE f[s]]
  <2>3. \A s \in SUBSET (1 .. k) : s \ {k} \in SUBSET (1 .. (k - 1))
    OBVIOUS
  <2>4. \A s \in SUBSET (1 .. k) : k \notin s => s \in SUBSET (1 .. (k - 1))
    OBVIOUS
  <2>5. g \in [SUBSET (1 .. k) -> R]
    BY <2>1, <2>3, <2>4
  <2>6. \A s \in SUBSET (1 .. k) : g[s] = IF k \in s THEN step[<<k, f[s \ {k}]>>] ELSE f[s]
    OBVIOUS
  <2> HIDE DEF g
  <2>7. ASSUME NEW s \in SUBSET (1 .. k)
        PROVE  g[s] = IF s = {} THEN base ELSE step[<<Max(s), g[s \ {Max(s)}]>>]
    <3>1. CASE k \in s
      <4>1. Max(s) = k
        BY <3>1, Largest
      <4>2. s \ {k} \in SUBSET (1 .. k) /\ k \notin s \ {k}
        OBVIOUS
      <4>3. g[s \ {k}] = f[s \ {k}]
        BY <2>6, <4>2
      <4> QED
        BY <2>6, <3>1, <4>1, <4>3
    <3>2. CASE k \notin s
      <4>1. s \in SUBSET (1 .. (k - 1))
        BY <3>2
      <4>2. s # {} => s \ {Max(s)} \in SUBSET (1 .. k) /\ k \notin s \ {Max(s)}
        BY <3>2
      <4>3. s # {} => g[s \ {Max(s)}] = f[s \ {Max(s)}]
        BY <2>6, <4>2
      <4>4. g[s] = f[s]
        BY <2>6, <3>2
      <4> QED
        BY <2>2, <4>1, <4>3, <4>4
    <3> QED
      BY <3>1, <3>2
  <2>8. FoldOf(g, base, step, k)
    BY <2>5, <2>7 DEF FoldOf
  <2> QED
    BY <2>5, <2>8
<1> HIDE DEF P
<1>3. \A k \in 0 .. n : k \in P
  BY <1>1, <1>2, UpTo, Zenon
<1>4. n \in P
  BY <1>3
<1> QED
  BY <1>4 DEF P

(* The last of the positions 1 .. k is k, and before it are 1 .. k - 1: a  *)
(* fold over k elements is a step after the fold over k - 1.               *)
LEMMA FirstOnes ==
  ASSUME NEW n \in Nat, NEW k \in 1 .. n
  PROVE  /\ 1 .. k \in SUBSET (1 .. n) /\ 1 .. k # {}
         /\ Max(1 .. k) = k /\ (1 .. k) \ {Max(1 .. k)} = 1 .. (k - 1)
<1>1. k \in Nat /\ k \in 1 .. k /\ 1 .. k \in SUBSET (1 .. k)
  OBVIOUS
<1>2. Max(1 .. k) = k
  BY <1>1, Largest
<1>3. 1 .. k \in SUBSET (1 .. n) /\ 1 .. k # {}
  OBVIOUS
<1>4. (1 .. k) \ {k} = 1 .. (k - 1)
  OBVIOUS
<1> QED
  BY <1>2, <1>3, <1>4, Zenon

(* A record, as it is written.                                             *)
Records == [first : Nat, last : Nat]

(* Size as a loop over the records.                                        *)
LEMMA Sizes ==
  ASSUME NEW records \in Seq(Records)
  PROVE  \E f : /\ f[0] = 2 /\ Size(records) = f[Len(records)]
                /\ \A k \in 1 .. Len(records) : f[k] = f[k - 1] + RecordSize(records[k])
<1> DEFINE n == Len(records)
           Sums(g) == g = [s \in SUBSET DOMAIN records |->
                           IF s = {} THEN 2 ELSE g[s \ {Max(s)}] + RecordSize(records[Max(s)])]
           step == [p \in (1 .. n) \X Nat |-> p[2] + RecordSize(records[p[1]])]
<1>1. n \in Nat /\ DOMAIN records = 1 .. n
  OBVIOUS
<1>2. step \in [(1 .. n) \X Nat -> Nat]
  BY DEF RecordSize
<1> HIDE DEF n
<1>3. 2 \in Nat
  OBVIOUS
<1>4. \A i \in 1 .. n, r \in Nat : step[<<i, r>>] = r + RecordSize(records[i])
  OBVIOUS
<1> HIDE DEF step
<1>5. PICK h \in [SUBSET (1 .. n) -> Nat] : FoldOf(h, 2, step, n)
  BY <1>1, <1>2, <1>3, Folding
<1>6. Sums(h)
  <2>1. ASSUME NEW s \in SUBSET (1 .. n), s # {}
        PROVE  step[<<Max(s), h[s \ {Max(s)}]>>] = h[s \ {Max(s)}] + RecordSize(records[Max(s)])
    <3>1. Max(s) \in 1 .. n /\ s \ {Max(s)} \in SUBSET (1 .. n)
      BY <1>1, <2>1, LargestIn
    <3> QED
      BY <1>4, <1>5, <3>1
  <2> QED
    BY <1>1, <1>5, <2>1 DEF FoldOf
<1> DEFINE f0 == CHOOSE g : Sums(g)
<1>7. Sums(f0)
  BY <1>6, Zenon
<1>8. Size(records) = f0[DOMAIN records]
  BY Zenon DEF Size, FoldLeft, MapThenFoldSet
<1> HIDE DEF f0
<1>9. \A s \in SUBSET (1 .. n) : f0[s] =
         IF s = {} THEN 2 ELSE f0[s \ {Max(s)}] + RecordSize(records[Max(s)])
  BY <1>1, <1>7
<1> DEFINE f == [k \in 0 .. n |-> f0[1 .. k]]
<1>10. f[0] = 2
  <2>1. 1 .. 0 = {} /\ {} \in SUBSET (1 .. n)
    OBVIOUS
  <2>2. f0[{}] = 2
    BY <1>9, <2>1
  <2>3. f[0] = f0[1 .. 0]
    BY <1>1
  <2> QED
    BY <2>1, <2>2, <2>3
<1>11. ASSUME NEW k \in 1 .. n
       PROVE  f[k] = f[k - 1] + RecordSize(records[k])
  <2>1. f[k] = f0[1 .. k] /\ f[k - 1] = f0[1 .. (k - 1)]
    BY <1>1
  <2>2. /\ 1 .. k \in SUBSET (1 .. n) /\ 1 .. k # {}
        /\ Max(1 .. k) = k /\ (1 .. k) \ {Max(1 .. k)} = 1 .. (k - 1)
    BY <1>1, FirstOnes
  <2> HIDE DEF f
  <2> QED
    BY <1>9, <2>1, <2>2, Zenon
<1>12. Size(records) = f[n]
  BY <1>1, <1>8
<1> QED
  BY <1>10, <1>11, <1>12 DEF n

(* The loop of write_to_buf.                                               *)
Ws == [n : Nat, records : Seq(Records), full : BOOLEAN, open : Records]

(* The state of write_to_buf's loop.                                       *)
LEMMA WriteOneType ==
  ASSUME NEW w \in Ws, NEW pk \in Nat
  PROVE  WriteOne(w, pk) \in Ws
<1>1. /\ w.n \in Nat /\ w.records \in Seq(Records) /\ w.full \in BOOLEAN /\ w.open \in Records
      /\ w = [n |-> w.n, records |-> w.records, full |-> w.full, open |-> w.open]
  BY DEF Ws
<1>2. [first |-> pk, last |-> pk] \in Records /\ [w.open EXCEPT !.last = pk] \in Records
  BY <1>1 DEF Records
<1>3. w.n + 1 \in Nat /\ Append(w.records, w.open) \in Seq(Records)
  BY <1>1
<1>4. /\ [w EXCEPT !.full = TRUE] \in Ws
      /\ [w EXCEPT !.n = @ + 1, !.open.last = pk] \in Ws
      /\ [w EXCEPT !.n = @ + 1, !.records = Append(@, w.open),
                   !.open = [first |-> pk, last |-> pk]] \in Ws
  BY <1>1, <1>2, <1>3 DEF Ws
<1> QED
  BY <1>4 DEF WriteOne

(* The fold of WriteOne as a loop over the list.                           *)
LEMMA Writes ==
  ASSUME NEW base \in Ws, NEW list \in Seq(Nat)
  PROVE  \E f : /\ f[0] = base /\ FoldLeft(WriteOne, base, list) = f[Len(list)]
                /\ \A k \in 1 .. Len(list) : f[k] = WriteOne(f[k - 1], list[k])
<1> DEFINE n == Len(list)
           Steps(g) == g = [s \in SUBSET DOMAIN list |->
                            IF s = {} THEN base ELSE WriteOne(g[s \ {Max(s)}], list[Max(s)])]
           step == [p \in (1 .. n) \X Ws |-> WriteOne(p[2], list[p[1]])]
<1>1. n \in Nat /\ DOMAIN list = 1 .. n /\ \A i \in 1 .. n : list[i] \in Nat
  OBVIOUS
<1>2. step \in [(1 .. n) \X Ws -> Ws]
  BY <1>1, WriteOneType
<1> HIDE DEF n
<1>3. \A i \in 1 .. n, r \in Ws : step[<<i, r>>] = WriteOne(r, list[i])
  OBVIOUS
<1> HIDE DEF step
<1>4. PICK h \in [SUBSET (1 .. n) -> Ws] : FoldOf(h, base, step, n)
  BY <1>1, <1>2, Folding
<1>5. Steps(h)
  <2>1. ASSUME NEW s \in SUBSET (1 .. n), s # {}
        PROVE  step[<<Max(s), h[s \ {Max(s)}]>>] = WriteOne(h[s \ {Max(s)}], list[Max(s)])
    <3>1. Max(s) \in 1 .. n /\ s \ {Max(s)} \in SUBSET (1 .. n)
      BY <1>1, <2>1, LargestIn
    <3> QED
      BY <1>3, <1>4, <3>1
  <2> QED
    BY <1>1, <1>4, <2>1 DEF FoldOf
<1> DEFINE g == CHOOSE g : Steps(g)
<1>6. Steps(g)
  BY <1>5, Zenon
<1>7. FoldLeft(WriteOne, base, list) = g[DOMAIN list]
  BY Zenon DEF FoldLeft, MapThenFoldSet
<1> HIDE DEF g
<1>8. \A s \in SUBSET (1 .. n) : g[s] =
         IF s = {} THEN base ELSE WriteOne(g[s \ {Max(s)}], list[Max(s)])
  BY <1>1, <1>6
<1> DEFINE f == [k \in 0 .. n |-> g[1 .. k]]
<1>9. f[0] = base
  <2>1. 1 .. 0 = {} /\ {} \in SUBSET (1 .. n)
    OBVIOUS
  <2>2. g[{}] = base
    BY <1>8, <2>1
  <2>3. f[0] = g[1 .. 0]
    BY <1>1
  <2> QED
    BY <2>1, <2>2, <2>3
<1>10. ASSUME NEW k \in 1 .. n
       PROVE  f[k] = WriteOne(f[k - 1], list[k])
  <2>1. f[k] = g[1 .. k] /\ f[k - 1] = g[1 .. (k - 1)]
    BY <1>1
  <2>2. /\ 1 .. k \in SUBSET (1 .. n) /\ 1 .. k # {}
        /\ Max(1 .. k) = k /\ (1 .. k) \ {Max(1 .. k)} = 1 .. (k - 1)
    BY <1>1, FirstOnes
  <2> HIDE DEF f
  <2> QED
    BY <1>8, <2>1, <2>2, Zenon
<1>11. FoldLeft(WriteOne, base, list) = f[n]
  BY <1>1, <1>7
<1> QED
  BY <1>9, <1>10, <1>11 DEF n

(* The loop of read.                                                       *)
Rs == [numbers : SUBSET Nat, error : BOOLEAN]

(* The state of read's loop.                                               *)
LEMMA ReadOneType ==
  ASSUME NEW r \in Rs, NEW record \in Records
  PROVE  ReadOne(r, record) \in Rs
<1>1. r.numbers \cup (record.first .. record.last) \in SUBSET Nat
  BY DEF Rs, Records
<1>2. /\ [r EXCEPT !.error = TRUE] \in Rs
      /\ [r EXCEPT !.numbers = @ \cup (record.first .. record.last)] \in Rs
  BY <1>1 DEF Rs
<1> QED
  BY <1>2 DEF ReadOne

(* Read as a loop over the records.                                        *)
LEMMA Reading ==
  ASSUME NEW list \in Seq(Records)
  PROVE  \E f : /\ f[0] = [numbers |-> {}, error |-> FALSE] /\ Read(list) = f[Len(list)]
                /\ \A k \in 1 .. Len(list) : f[k] = ReadOne(f[k - 1], list[k])
<1> DEFINE base == [numbers |-> {}, error |-> FALSE]
           n == Len(list)
           Steps(g) == g = [s \in SUBSET DOMAIN list |->
                            IF s = {} THEN base ELSE ReadOne(g[s \ {Max(s)}], list[Max(s)])]
           step == [p \in (1 .. n) \X Rs |-> ReadOne(p[2], list[p[1]])]
<1>1. n \in Nat /\ DOMAIN list = 1 .. n /\ \A i \in 1 .. n : list[i] \in Records
  OBVIOUS
<1>2. step \in [(1 .. n) \X Rs -> Rs]
  BY <1>1, ReadOneType
<1>0. base \in Rs
  BY DEF Rs
<1> HIDE DEF n
<1>3. \A i \in 1 .. n, r \in Rs : step[<<i, r>>] = ReadOne(r, list[i])
  OBVIOUS
<1> HIDE DEF step
<1>4. PICK h \in [SUBSET (1 .. n) -> Rs] : FoldOf(h, base, step, n)
  BY <1>0, <1>1, <1>2, Folding
<1>5. Steps(h)
  <2>1. ASSUME NEW s \in SUBSET (1 .. n), s # {}
        PROVE  step[<<Max(s), h[s \ {Max(s)}]>>] = ReadOne(h[s \ {Max(s)}], list[Max(s)])
    <3>1. Max(s) \in 1 .. n /\ s \ {Max(s)} \in SUBSET (1 .. n)
      BY <1>1, <2>1, LargestIn
    <3> QED
      BY <1>3, <1>4, <3>1
  <2> QED
    BY <1>1, <1>4, <2>1 DEF FoldOf
<1> DEFINE g == CHOOSE g : Steps(g)
<1>6. Steps(g)
  BY <1>5, Zenon
<1>7. Read(list) = g[DOMAIN list]
  BY Zenon DEF Read, FoldLeft, MapThenFoldSet
<1> HIDE DEF g
<1>8. \A s \in SUBSET (1 .. n) : g[s] =
         IF s = {} THEN base ELSE ReadOne(g[s \ {Max(s)}], list[Max(s)])
  BY <1>1, <1>6
<1> DEFINE f == [k \in 0 .. n |-> g[1 .. k]]
<1>9. f[0] = base
  <2>1. 1 .. 0 = {} /\ {} \in SUBSET (1 .. n)
    OBVIOUS
  <2>2. g[{}] = base
    BY <1>8, <2>1
  <2>3. f[0] = g[1 .. 0]
    BY <1>1
  <2> QED
    BY <2>1, <2>2, <2>3
<1>10. ASSUME NEW k \in 1 .. n
       PROVE  f[k] = ReadOne(f[k - 1], list[k])
  <2>1. f[k] = g[1 .. k] /\ f[k - 1] = g[1 .. (k - 1)]
    BY <1>1
  <2>2. /\ 1 .. k \in SUBSET (1 .. n) /\ 1 .. k # {}
        /\ Max(1 .. k) = k /\ (1 .. k) \ {Max(1 .. k)} = 1 .. (k - 1)
    BY <1>1, FirstOnes
  <2> HIDE DEF f
  <2> QED
    BY <1>8, <2>1, <2>2, Zenon
<1>11. Read(list) = f[n]
  BY <1>1, <1>7
<1> QED
  BY <1>9, <1>10, <1>11 DEF n

-----------------------------------------------------------------------------

(* A list of the numbers of a set, in ascending order.                     *)
SortsTo(s, S) ==
    /\ s \in Seq(S) /\ Len(s) = Cardinality(S)
    /\ \A i, j \in 1 .. Len(s) : i < j => s[i] < s[j]
    /\ \A x \in S : \E i \in 1 .. Len(s) : s[i] = x

(* Sorted lists every number once, in ascending order: how many numbers    *)
(* are below it tells any two apart, so that there is one for every        *)
(* position.                                                               *)
LEMMA SortedIs ==
  ASSUME NEW S \in SUBSET Nat, IsFiniteSet(S)
  PROVE  SortsTo(Sorted(S), S)
<1> DEFINE n == Cardinality(S)
           Below(x) == {y \in S : y < x}
           rank == [x \in S |-> Cardinality(Below(x))]
           s == Sorted(S)
<1>1. n \in Nat
  BY FS_CardinalityType
<1>2. ASSUME NEW x \in S
      PROVE  rank[x] \in 0 .. (n - 1) /\ IsFiniteSet(Below(x))
  <2>1. IsFiniteSet(S \ {x}) /\ Cardinality(S \ {x}) = n - 1
    BY FS_RemoveElement
  <2>2. Below(x) \in SUBSET (S \ {x})
    OBVIOUS
  <2>3. IsFiniteSet(Below(x)) /\ Cardinality(Below(x)) <= n - 1
    BY <2>1, <2>2, FS_Subset
  <2>4. Cardinality(Below(x)) \in Nat
    BY <2>3, FS_CardinalityType
  <2> QED
    BY <1>1, <2>3, <2>4
<1>3. ASSUME NEW x \in S, NEW y \in S, x < y
      PROVE  rank[x] < rank[y]
  <2>1. x \in Nat /\ y \in Nat /\ \A z \in S : z \in Nat
    OBVIOUS
  <2>2. x \in Below(y) /\ x \notin Below(x) /\ \A z \in Below(x) : z \in Below(y)
    BY <1>3, <2>1
  <2>3. Below(x) \cup {x} \in SUBSET Below(y)
    BY <2>2, Zenon
  <2> HIDE DEF Below
  <2>4. Cardinality(Below(x) \cup {x}) = Cardinality(Below(x)) + 1
    BY <1>2, <2>2, FS_AddElement
  <2>5. Cardinality(Below(x) \cup {x}) <= Cardinality(Below(y))
    BY <1>2, <2>3, FS_Subset
  <2> QED
    BY <1>2, <2>4, <2>5
<1> HIDE DEF n
<1>4. rank \in Injection(S, 0 .. (n - 1))
  <2>1. \A x, y \in S : x # y => x < y \/ y < x
    OBVIOUS
  <2>2. \A x, y \in S : rank[x] = rank[y] => x = y
    BY <1>2, <1>3, <2>1
  <2>3. rank \in [S -> 0 .. (n - 1)]
    BY <1>2
  <2> HIDE DEF rank
  <2> QED
    BY <2>2, <2>3 DEF Injection, IsInjective
<1>5. rank \in Surjection(S, 0 .. (n - 1))
  <2>1. IsFiniteSet(0 .. (n - 1)) /\ Cardinality(0 .. (n - 1)) = n
    BY <1>1, FS_Interval
  <2> HIDE DEF rank
  <2> QED
    BY <1>4, <2>1, FS_Injection DEF n
<1>6. ASSUME NEW i \in 1 .. n
      PROVE  s[i] \in S /\ rank[s[i]] = i - 1
  <2>1. i - 1 \in 0 .. (n - 1)
    BY <1>1
  <2>2. \E x \in S : rank[x] = i - 1
    BY <1>5, <2>1 DEF Surjection
  <2>3. \E x \in S : Cardinality({y \in S : y < x}) = i - 1
    BY <2>2
  <2>4. s[i] = CHOOSE x \in S : Cardinality({y \in S : y < x}) = i - 1
    BY DEF n, Sorted
  <2>5. s[i] \in S /\ Cardinality({y \in S : y < s[i]}) = i - 1
    BY <2>3, <2>4
  <2> QED
    BY <2>5
<1>7. s \in Seq(S) /\ Len(s) = n
  <2> DEFINE nth(i) == CHOOSE x \in S : Cardinality({y \in S : y < x}) = i - 1
  <2>1. s = [i \in 1 .. n |-> nth(i)]
    BY Zenon DEF n, Sorted
  <2> HIDE DEF s, nth
  <2>2. s \in [1 .. n -> S]
    BY <1>6, <2>1
  <2> QED
    BY <1>1, <2>2, IsASeq
<1> HIDE DEF s
<1>8. ASSUME NEW i \in 1 .. n, NEW j \in 1 .. n, i < j
      PROVE  s[i] < s[j]
  <2>1. s[i] \in S /\ s[j] \in S /\ rank[s[i]] = i - 1 /\ rank[s[j]] = j - 1
    BY <1>6
  <2> HIDE DEF rank
  <2>2. rank[s[i]] < rank[s[j]] /\ rank[s[i]] # rank[s[j]]
    BY <1>1, <1>8, <2>1
  <2>3. s[i] # s[j] /\ s[i] \in Nat /\ s[j] \in Nat
    BY <2>1, <2>2
  <2>4. ~ (s[j] < s[i])
    <3> SUFFICES ASSUME s[j] < s[i] PROVE FALSE
      OBVIOUS
    <3>1. rank[s[j]] < rank[s[i]]
      BY <1>3, <2>1
    <3> QED
      BY <1>1, <1>8, <2>1, <3>1
  <2> QED
    BY <2>2, <2>3, <2>4
<1>9. ASSUME NEW x \in S
      PROVE  \E i \in 1 .. n : s[i] = x
  <2> DEFINE i == rank[x] + 1
  <2>1. i \in 1 .. n /\ i - 1 = rank[x]
    BY <1>1, <1>2
  <2>2. s[i] \in S /\ rank[s[i]] = rank[x]
    BY <1>6, <2>1
  <2>3. s[i] = x
    BY <1>4, <2>2 DEF Injection, IsInjective
  <2> QED
    BY <2>1, <2>3
<1> QED
  BY <1>7, <1>8, <1>9 DEF SortsTo, n, s

(* There is one such list.                                                 *)
LEMMA SortedOnce ==
  ASSUME NEW S \in SUBSET Nat, IsFiniteSet(S), NEW s, NEW t, SortsTo(s, S), SortsTo(t, S)
  PROVE  s = t
<1> DEFINE n == Cardinality(S)
<1>1. /\ n \in Nat /\ s \in Seq(S) /\ t \in Seq(S) /\ Len(s) = n /\ Len(t) = n
      /\ \A i, j \in 1 .. n : i < j => s[i] < s[j] /\ t[i] < t[j]
      /\ \A x \in S : (\E i \in 1 .. n : s[i] = x) /\ (\E i \in 1 .. n : t[i] = x)
      /\ \A i \in 1 .. n : s[i] \in S /\ t[i] \in S /\ s[i] \in Nat /\ t[i] \in Nat
  <2>1. n \in Nat
    BY FS_CardinalityType
  <2>2. s \in Seq(S) /\ t \in Seq(S) /\ Len(s) = n /\ Len(t) = n
    BY DEF SortsTo
  <2>3. /\ \A i, j \in 1 .. n : i < j => s[i] < s[j] /\ t[i] < t[j]
        /\ \A x \in S : (\E i \in 1 .. n : s[i] = x) /\ (\E i \in 1 .. n : t[i] = x)
    BY <2>2 DEF SortsTo
  <2> HIDE DEF n
  <2>4. \A i \in 1 .. n : s[i] \in S /\ t[i] \in S
    BY <2>1, <2>2, ElementOfSeq
  <2> QED
    BY <2>1, <2>2, <2>3, <2>4
<1> HIDE DEF n
<1> DEFINE P == {k \in 0 .. n : \A i \in 1 .. k : s[i] = t[i]}
<1>2. 0 \in P
  BY <1>1
<1>3. ASSUME NEW k \in 1 .. n, k - 1 \in P
      PROVE  k \in P
  <2>1. \A i \in 1 .. n : i < k => s[i] = t[i]
    BY <1>1, <1>3
  <2>2. PICK i \in 1 .. n : t[i] = s[k]
    BY <1>1
  <2>3. PICK j \in 1 .. n : s[j] = t[k]
    BY <1>1
  <2>4. \A l \in 1 .. n : l < k => s[l] < s[k] /\ t[l] < t[k] /\ s[k] \in Nat /\ t[k] \in Nat
    BY <1>1
  <2>5. ~ (i < k) /\ ~ (j < k)
    BY <2>1, <2>2, <2>3, <2>4
  <2>6. (k = i \/ k < i) /\ (k = j \/ k < j)
    BY <2>5
  <2>7. /\ s[k] \in Nat /\ t[k] \in Nat
        /\ \A l \in 1 .. n : k < l => s[k] < s[l] /\ t[k] < t[l]
    BY <1>1
  <2>8. t[k] <= s[k] /\ s[k] <= t[k]
    BY <2>2, <2>3, <2>6, <2>7
  <2>9. s[k] = t[k]
    BY <2>7, <2>8
  <2>10. \A l \in 1 .. k : l = k \/ (l \in 1 .. n /\ l < k)
    BY <1>1
  <2> QED
    BY <2>1, <2>9, <2>10
<1> HIDE DEF P
<1>4. n \in P
  <2>1. n \in Nat /\ n \in 0 .. n
    BY <1>1
  <2> QED
    BY <1>2, <1>3, <2>1, UpTo, Zenon
<1>5. \A i \in 1 .. n : s[i] = t[i]
  BY <1>4 DEF P
<1> QED
  BY <1>1, <1>5, SeqEqual

-----------------------------------------------------------------------------

(* Size is a number of bytes.                                              *)
LEMMA SizeType ==
  ASSUME NEW records \in Seq(Records)
  PROVE  Size(records) \in Nat
<1> DEFINE n == Len(records)
<1>1. n \in Nat /\ n \in 0 .. n /\ \A k \in 1 .. n : RecordSize(records[k]) \in Nat
  BY DEF RecordSize
<1>2. PICK f : /\ f[0] = 2 /\ Size(records) = f[n]
               /\ \A k \in 1 .. n : f[k] = f[k - 1] + RecordSize(records[k])
  BY Sizes
<1> HIDE DEF n
<1> DEFINE P == {k \in 0 .. n : f[k] \in Nat}
<1>3. 0 \in P
  BY <1>1, <1>2
<1>4. ASSUME NEW k \in 1 .. n, k - 1 \in P
      PROVE  k \in P
  BY <1>1, <1>2, <1>4
<1> HIDE DEF P
<1>5. n \in P
  BY <1>1, <1>3, <1>4, UpTo, Zenon
<1> QED
  BY <1>2, <1>5 DEF P

(* One more record adds its own bytes.                                     *)
LEMMA SizeAppended ==
  ASSUME NEW records \in Seq(Records), NEW r \in Records
  PROVE  Size(Append(records, r)) = Size(records) + RecordSize(r)
<1> DEFINE n == Len(records)
           more == Append(records, r)
<1>1. /\ n \in Nat /\ n \in 0 .. n /\ more \in Seq(Records) /\ Len(more) = n + 1
      /\ more[n + 1] = r /\ \A k \in 1 .. n : more[k] = records[k]
  BY AppendProperties
<1>2. PICK f : /\ f[0] = 2 /\ Size(records) = f[n]
               /\ \A k \in 1 .. n : f[k] = f[k - 1] + RecordSize(records[k])
  BY Sizes
<1> HIDE DEF n, more
<1>3. PICK g : /\ g[0] = 2 /\ Size(more) = g[n + 1]
               /\ \A k \in 1 .. n + 1 : g[k] = g[k - 1] + RecordSize(more[k])
  <2>1. \E g : /\ g[0] = 2 /\ Size(more) = g[Len(more)]
               /\ \A k \in 1 .. Len(more) : g[k] = g[k - 1] + RecordSize(more[k])
    BY <1>1, Sizes, Zenon
  <2>2. Len(more) = n + 1
    BY <1>1
  <2> QED
    BY <2>1, <2>2
<1> DEFINE P == {k \in 0 .. n : f[k] = g[k]}
<1>4. 0 \in P
  BY <1>1, <1>2, <1>3
<1>5. ASSUME NEW k \in 1 .. n, k - 1 \in P
      PROVE  k \in P
  <2>1. k \in 1 .. n + 1
    BY <1>1
  <2>2. g[k] = g[k - 1] + RecordSize(records[k])
    BY <1>1, <1>3, <2>1
  <2> QED
    BY <1>2, <1>5, <2>2
<1> HIDE DEF P
<1>6. n \in P
  BY <1>1, <1>4, <1>5, UpTo, Zenon
<1>7. f[n] = g[n]
  BY <1>6 DEF P
<1>8. n + 1 \in 1 .. n + 1 /\ (n + 1) - 1 = n
  BY <1>1
<1>9. g[n + 1] = g[n] + RecordSize(r)
  BY <1>1, <1>3, <1>8
<1> QED
  BY <1>2, <1>3, <1>7, <1>9 DEF more

(* No record, the two bytes of their count.                                *)
LEMMA SizeEmpty ==
  Size(<<>>) = 2
<1>1. <<>> \in Seq(Records) /\ Len(<<>>) = 0
  OBVIOUS
<1> QED
  BY <1>1, Sizes

(* The numbers that records stand for.                                     *)
Covered(records) == UNION {records[i].first .. records[i].last : i \in DOMAIN records}

(* One more record covers its own range.                                   *)
LEMMA CoveredAppended ==
  ASSUME NEW records \in Seq(Records), NEW r \in Records
  PROVE  Covered(Append(records, r)) = Covered(records) \cup (r.first .. r.last)
<1> DEFINE n == Len(records)
           more == Append(records, r)
<1>1. /\ DOMAIN records = 1 .. n /\ DOMAIN more = (1 .. n) \cup {n + 1}
      /\ more[n + 1] = r /\ \A k \in 1 .. n : more[k] = records[k]
  BY AppendProperties
<1> HIDE DEF more
<1>2. Covered(more) = UNION {more[i].first .. more[i].last : i \in (1 .. n) \cup {n + 1}}
  BY <1>1 DEF Covered
<1>3. Covered(records) = UNION {more[i].first .. more[i].last : i \in 1 .. n}
  BY <1>1 DEF Covered
<1> QED
  BY <1>1, <1>2, <1>3 DEF more

(* What read makes of the records: their numbers, or fewer and an error.   *)
LEMMA ReadBack ==
  ASSUME NEW records \in Seq(Records)
  PROVE  /\ Read(records).error \in BOOLEAN
         /\ Read(records).numbers \subseteq Covered(records)
         /\ ~ Read(records).error => Read(records).numbers = Covered(records)
<1> DEFINE n == Len(records)
           Upto(k) == UNION {records[i].first .. records[i].last : i \in 1 .. k}
<1>1. /\ n \in Nat /\ n \in 0 .. n /\ DOMAIN records = 1 .. n
  OBVIOUS
<1>2. PICK f : /\ f[0] = [numbers |-> {}, error |-> FALSE] /\ Read(records) = f[n]
               /\ \A k \in 1 .. n : f[k] = ReadOne(f[k - 1], records[k])
  BY Reading
<1>3. Covered(records) = Upto(n)
  BY DEF Covered
<1> HIDE DEF n
<1>4. ASSUME NEW k \in 1 .. n
      PROVE  Upto(k) = Upto(k - 1) \cup (records[k].first .. records[k].last)
  <2>1. 1 .. k = (1 .. (k - 1)) \cup {k}
    BY <1>1
  <2> QED
    BY <2>1
<1>5. Upto(0) = {}
  OBVIOUS
<1> HIDE DEF Upto
<1> DEFINE P == {k \in 0 .. n : /\ f[k] = [numbers |-> f[k].numbers, error |-> f[k].error]
                                /\ f[k].error \in BOOLEAN /\ f[k].numbers \subseteq Upto(k)
                                /\ ~ f[k].error => f[k].numbers = Upto(k)}
<1>6. 0 \in P
  <2>1. /\ f[0] = [numbers |-> f[0].numbers, error |-> f[0].error]
        /\ f[0].error \in BOOLEAN /\ f[0].numbers = {}
    BY <1>2
  <2>2. 0 \in 0 .. n
    BY <1>1
  <2> QED
    BY <1>5, <2>1, <2>2, Zenon
<1>7. ASSUME NEW k \in 1 .. n, k - 1 \in P
      PROVE  k \in P
  <2> DEFINE r == f[k - 1]
             s == f[k]
  <2>1. s = ReadOne(r, records[k])
    BY <1>2
  <2>2. /\ r = [numbers |-> r.numbers, error |-> r.error]
        /\ r.error \in BOOLEAN /\ r.numbers \subseteq Upto(k - 1)
        /\ ~ r.error => r.numbers = Upto(k - 1)
    BY <1>7
  <2>3. \/ s = [r EXCEPT !.error = TRUE]
        \/ /\ ~ r.error
           /\ s = [r EXCEPT !.numbers = @ \cup (records[k].first .. records[k].last)]
    BY <2>1, Zenon DEF ReadOne
  <2> HIDE DEF r, s
  <2>4. /\ s = [numbers |-> s.numbers, error |-> s.error] /\ s.error \in BOOLEAN
        /\ s.numbers \subseteq Upto(k) /\ (~ s.error => s.numbers = Upto(k))
    BY <1>4, <2>2, <2>3
  <2> QED
    BY <2>4 DEF s
<1> HIDE DEF P
<1>8. n \in P
  BY <1>1, <1>6, <1>7, UpTo, Zenon
<1> QED
  BY <1>2, <1>3, <1>8 DEF P

(* The first n numbers of a list.                                          *)
Firsts(sorted, n) == {sorted[i] : i \in 1 .. n}

(* write_to_buf's loop after k numbers behind the first: the records and   *)
(* the open range cover the numbers that it has counted, and the records   *)
(* leave room for one byte at least.                                       *)
WriteInv(w, sorted, k) ==
    /\ w \in Ws /\ w.n \in 1 .. k + 1 /\ (~ w.full => w.n = k + 1)
    /\ w.open.first <= w.open.last /\ w.open.last = sorted[w.n]
    /\ Covered(w.records) \cup (w.open.first .. w.open.last) = Firsts(sorted, w.n)
    /\ Size(w.records) <= Mtu - 1

(* A range, and the number behind its last.                                *)
LEMMA OneMore ==
  ASSUME NEW a \in Nat, NEW b \in Nat, a <= b
  PROVE  a .. (b + 1) = (a .. b) \cup {b + 1} /\ a <= b + 1
OBVIOUS

(* One turn of write_to_buf's loop: a number behind the open range makes   *)
(* it longer, any other ends it, and nothing is written once the room is   *)
(* less than a record.                                                     *)
LEMMA WriteOneKeeps ==
  ASSUME NEW sorted \in Seq(Nat), NEW k \in Nat, k + 1 < Len(sorted), NEW w,
         sorted[k + 1] < sorted[k + 2],
         WriteInv(w, sorted, k)
  PROVE  WriteInv(WriteOne(w, sorted[k + 2]), sorted, k + 1)
<1> DEFINE pk == sorted[k + 2]
           v == WriteOne(w, pk)
<1>1. /\ w \in Ws /\ w.n \in 1 .. k + 1 /\ (~ w.full => w.n = k + 1)
      /\ w.open.first <= w.open.last /\ w.open.last = sorted[w.n]
      /\ Covered(w.records) \cup (w.open.first .. w.open.last) = Firsts(sorted, w.n)
      /\ Size(w.records) <= Mtu - 1
  BY DEF WriteInv
<1>2. /\ w.n \in Nat /\ w.records \in Seq(Records) /\ w.full \in BOOLEAN /\ w.open \in Records
      /\ w.open.first \in Nat /\ w.open.last \in Nat /\ pk \in Nat
      /\ k + 2 = (k + 1) + 1
  BY <1>1 DEF Ws, Records
<1>3. v \in Ws
  BY <1>1, <1>2, WriteOneType
<1>4. ASSUME w.n = k + 1
      PROVE  Firsts(sorted, w.n + 1) = Firsts(sorted, w.n) \cup {pk}
  <2>1. 1 .. w.n + 1 = (1 .. w.n) \cup {w.n + 1} /\ w.n + 1 = k + 2
    BY <1>2, <1>4
  <2> QED
    BY <2>1 DEF Firsts
<1>5. Mtu \in Nat /\ Size(w.records) \in Nat
  BY <1>2, SizeType, AcknowledgementAssumption
<1>6. CASE w.full \/ Size(w.records) >= Mtu - 7
  <2>1. v = [w EXCEPT !.full = TRUE]
    BY <1>6 DEF WriteOne
  <2>2. /\ v.n = w.n /\ v.records = w.records /\ v.open = w.open /\ v.full
    BY <1>1, <2>1 DEF Ws
  <2>3. w.n \in 1 .. (k + 1) + 1
    BY <1>1
  <2> QED
    BY <1>1, <1>3, <2>2, <2>3 DEF WriteInv
<1>7. CASE ~ (w.full \/ Size(w.records) >= Mtu - 7) /\ pk = w.open.last + 1
  <2>1. v = [w EXCEPT !.n = @ + 1, !.open.last = pk]
    BY <1>7 DEF WriteOne
  <2>2. /\ v.n = w.n + 1 /\ v.records = w.records
        /\ v.open.first = w.open.first /\ v.open.last = pk
    BY <1>1, <1>2, <2>1 DEF Ws, Records
  <2>3. w.n = k + 1 /\ w.n + 1 = k + 2 /\ w.n + 1 \in 1 .. (k + 1) + 1
    <3>1. w.n = k + 1
      BY <1>1, <1>7, Zenon
    <3> QED
      BY <1>2, <3>1
  <2>4. w.open.first .. pk = (w.open.first .. w.open.last) \cup {pk} /\ w.open.first <= pk
    <3>1. /\ w.open.first .. (w.open.last + 1)
                = (w.open.first .. w.open.last) \cup {w.open.last + 1}
          /\ w.open.first <= w.open.last + 1
      BY <1>1, <1>2, OneMore
    <3> QED
      BY <1>7, <3>1, Zenon
  <2>5. Covered(w.records) \cup (w.open.first .. pk) = Firsts(sorted, w.n + 1)
    BY <1>1, <1>4, <2>3, <2>4
  <2> HIDE DEF v
  <2>6. v.open.last = sorted[v.n] /\ v.n = (k + 1) + 1
    BY <1>2, <2>2, <2>3
  <2>7. WriteInv(v, sorted, k + 1)
    BY <1>1, <1>3, <2>2, <2>3, <2>4, <2>5, <2>6, Zenon DEF WriteInv
  <2> QED
    BY <2>7 DEF v
<1>8. CASE ~ (w.full \/ Size(w.records) >= Mtu - 7) /\ pk # w.open.last + 1
  <2>1. v = [w EXCEPT !.n = @ + 1, !.records = Append(@, w.open),
                      !.open = [first |-> pk, last |-> pk]]
    BY <1>8 DEF WriteOne
  <2>2. /\ v.n = w.n + 1 /\ v.records = Append(w.records, w.open)
        /\ v.open.first = pk /\ v.open.last = pk
    BY <1>1, <2>1 DEF Ws
  <2>3. w.n = k + 1 /\ w.n + 1 = k + 2 /\ w.n + 1 \in 1 .. (k + 1) + 1
    <3>1. w.n = k + 1
      BY <1>1, <1>8, Zenon
    <3> QED
      BY <1>2, <3>1
  <2>4. pk .. pk = {pk} /\ pk <= pk
    BY <1>2
  <2>5. Covered(v.records) = Covered(w.records) \cup (w.open.first .. w.open.last)
    BY <1>2, <2>2, CoveredAppended
  <2>6. Covered(v.records) \cup (pk .. pk) = Firsts(sorted, w.n + 1)
    BY <1>1, <1>4, <2>3, <2>4, <2>5
  <2>7. Size(v.records) <= Mtu - 1
    <3>1. Size(v.records) = Size(w.records) + RecordSize(w.open)
      BY <1>2, <2>2, SizeAppended
    <3> QED
      BY <1>5, <1>8, <3>1 DEF RecordSize
  <2> HIDE DEF v
  <2>8. v.open.last = sorted[v.n] /\ v.n = (k + 1) + 1
    BY <1>2, <2>2, <2>3
  <2>9. WriteInv(v, sorted, k + 1)
    BY <1>3, <2>2, <2>3, <2>4, <2>6, <2>7, <2>8, Zenon DEF WriteInv
  <2> QED
    BY <2>9 DEF v
<1> QED
  BY <1>6, <1>7, <1>8

(* What write_to_buf writes: the first of the sorted numbers, all of them  *)
(* that it counts and no other, in no more bytes than one record beyond    *)
(* the MTU.                                                                *)
LEMMA Written ==
  ASSUME NEW list \in Seq(Nat), NEW sorted \in Seq(Nat), sorted = Sorted(ToSet(list)),
         Len(sorted) > 0, \A i, j \in 1 .. Len(sorted) : i < j => sorted[i] < sorted[j]
  PROVE  LET w == WriteToBuf(list) IN
         /\ w.n \in 1 .. Len(sorted) /\ w.records \in Seq(Records)
         /\ Covered(w.records) = Firsts(sorted, w.n)
         /\ Size(w.records) \in Nat /\ Size(w.records) <= Mtu + 6
<1> DEFINE base == [n |-> 1, records |-> <<>>, full |-> FALSE,
                    open |-> [first |-> sorted[1], last |-> sorted[1]]]
           tail == Tail(sorted)
           w == FoldLeft(WriteOne, base, tail)
           m == Len(tail)
<1>1. sorted[1] \in Nat /\ 1 \in Nat /\ <<>> \in Seq(Records) /\ FALSE \in BOOLEAN
  OBVIOUS
<1>2. base \in Ws
  BY <1>1 DEF Ws, Records
<1>3. /\ m \in Nat /\ m = Len(sorted) - 1 /\ tail \in Seq(Nat)
      /\ \A k \in 1 .. m : tail[k] = sorted[k + 1]
  OBVIOUS
<1>4. WriteToBuf(list) = [n |-> w.n, records |-> Append(w.records, w.open)]
  BY DEF WriteToBuf
<1>5. WriteInv(base, sorted, 0)
  <2>1. sorted[1] .. sorted[1] = {sorted[1]} /\ sorted[1] <= sorted[1]
    BY <1>1
  <2>2. Firsts(sorted, 1) = {sorted[1]}
    BY DEF Firsts
  <2>3. Covered(<<>>) = {}
    BY DEF Covered
  <2>4. Size(<<>>) <= Mtu - 1
    BY SizeEmpty, AcknowledgementAssumption
  <2> QED
    BY <1>2, <2>1, <2>2, <2>3, <2>4 DEF WriteInv
<1>6. PICK f : /\ f[0] = base /\ w = f[m]
               /\ \A k \in 1 .. m : f[k] = WriteOne(f[k - 1], tail[k])
  BY <1>2, <1>3, Writes
<1> HIDE DEF base, tail, w, m
<1> DEFINE P == {k \in 0 .. m : WriteInv(f[k], sorted, k)}
<1>7. 0 \in P
  BY <1>3, <1>5, <1>6
<1>8. ASSUME NEW k \in 1 .. m, k - 1 \in P
      PROVE  k \in P
  <2> DEFINE l == k - 1
  <2>1. l \in Nat /\ l + 1 = k /\ l + 2 = k + 1 /\ l + 1 < Len(sorted)
        /\ k \in 1 .. Len(sorted) /\ k + 1 \in 1 .. Len(sorted) /\ k < k + 1
    BY <1>3
  <2>2. WriteInv(f[l], sorted, l)
    BY <1>8
  <2>3. f[k] = WriteOne(f[l], sorted[l + 2])
    BY <1>3, <1>6, <2>1
  <2> HIDE DEF l
  <2>4. sorted[l + 1] < sorted[l + 2]
    BY <2>1, Zenon
  <2>5. WriteInv(f[k], sorted, k)
    BY <2>1, <2>2, <2>3, <2>4, WriteOneKeeps
  <2> QED
    BY <2>5
<1> HIDE DEF P
<1>9. m \in P
  <2>1. m \in 0 .. m
    BY <1>3
  <2> QED
    BY <1>3, <1>7, <1>8, <2>1, UpTo, Zenon
<1>10. WriteInv(w, sorted, m)
  BY <1>6, <1>9 DEF P
<1>11. /\ w.n \in 1 .. Len(sorted) /\ w.records \in Seq(Records) /\ w.open \in Records
       /\ Covered(w.records) \cup (w.open.first .. w.open.last) = Firsts(sorted, w.n)
       /\ Size(w.records) <= Mtu - 1
  BY <1>3, <1>10 DEF WriteInv, Ws
<1>12. /\ Append(w.records, w.open) \in Seq(Records)
       /\ Covered(Append(w.records, w.open)) = Firsts(sorted, w.n)
  <2>1. Append(w.records, w.open) \in Seq(Records)
    BY <1>11
  <2>2. Covered(Append(w.records, w.open)) = Covered(w.records) \cup (w.open.first .. w.open.last)
    BY <1>11, CoveredAppended
  <2> QED
    BY <1>11, <2>1, <2>2, Zenon
<1>13. /\ Size(Append(w.records, w.open)) \in Nat
       /\ Size(Append(w.records, w.open)) <= Mtu + 6
  <2>1. Size(Append(w.records, w.open)) = Size(w.records) + RecordSize(w.open)
    BY <1>11, SizeAppended
  <2>2. Size(w.records) \in Nat /\ Mtu \in Nat
    BY <1>11, SizeType, AcknowledgementAssumption
  <2> QED
    BY <1>11, <2>1, <2>2 DEF RecordSize
<1> QED
  BY <1>4, <1>11, <1>12, <1>13

Distinct(s) == \A i, j \in 1 .. Len(s) : s[i] = s[j] => i = j
Ascending(s) == \A i, j \in 1 .. Len(s) : i < j => s[i] < s[j]

(* A list without duplicates has as many numbers as elements.              *)
LEMMA ListSet ==
  ASSUME NEW list \in Seq(Nat), Distinct(list)
  PROVE  /\ ToSet(list) \in SUBSET Nat /\ IsFiniteSet(ToSet(list))
         /\ Cardinality(ToSet(list)) = Len(list)
         /\ ToSet(list) = Firsts(list, Len(list))
<1> DEFINE n == Len(list)
           S == ToSet(list)
<1>1. n \in Nat /\ list \in [1 .. n -> Nat] /\ DOMAIN list = 1 .. n
  BY LenProperties
<1>2. S = {list[i] : i \in 1 .. n}
  BY <1>1 DEF ToSet
<1> HIDE DEF n, S
<1>3. list \in Surjection(1 .. n, S)
  <2>1. list \in [1 .. n -> S]
    BY <1>1, <1>2
  <2>2. \A t \in S : \E i \in 1 .. n : list[i] = t
    BY <1>2
  <2> QED
    BY <2>1, <2>2 DEF Surjection
<1>4. list \in Injection(1 .. n, S)
  <2>1. \A i, j \in DOMAIN list : list[i] = list[j] => i = j
    BY <1>1 DEF Distinct, n
  <2> QED
    BY <1>3, <2>1 DEF Injection, Surjection, IsInjective
<1>5. IsFiniteSet(1 .. n) /\ Cardinality(1 .. n) = n
  <2>1. 1 \in Int /\ n \in Int
    BY <1>1
  <2>2. IsFiniteSet(1 .. n) /\ Cardinality(1 .. n) = IF 1 > n THEN 0 ELSE n - 1 + 1
    BY <2>1, FS_Interval, Zenon
  <2> QED
    BY <1>1, <2>2
<1>6. IsFiniteSet(S) /\ Cardinality(S) = n
  BY <1>3, <1>4, <1>5, FS_Surjection
<1> QED
  BY <1>1, <1>2, <1>6 DEF n, S, Firsts

(* Sorting leaves a list in ascending order as it is.                      *)
LEMMA AscendingSorted ==
  ASSUME NEW list \in Seq(Nat), Distinct(list), Ascending(list)
  PROVE  Sorted(ToSet(list)) = list
<1> DEFINE S == ToSet(list)
<1>1. /\ S \in SUBSET Nat /\ IsFiniteSet(S) /\ Cardinality(S) = Len(list)
      /\ S = Firsts(list, Len(list))
  BY ListSet
<1> HIDE DEF S
<1>2. SortsTo(list, S)
  <2>1. list \in Seq(S)
    <3>1. \A i \in 1 .. Len(list) : list[i] \in S
      BY <1>1 DEF Firsts
    <3>2. list = [i \in 1 .. Len(list) |-> list[i]] /\ Len(list) \in Nat
      OBVIOUS
    <3>3. list \in [1 .. Len(list) -> S]
      BY <3>1, <3>2
    <3> QED
      BY <3>2, <3>3
  <2>2. \A x \in S : \E i \in 1 .. Len(list) : list[i] = x
    BY <1>1 DEF Firsts
  <2> QED
    BY <1>1, <2>1, <2>2 DEF SortsTo, Ascending
<1>3. SortsTo(Sorted(S), S)
  BY <1>1, SortedIs
<1> QED
  BY <1>1, <1>2, <1>3, SortedOnce DEF S

(* One datagram: what is written of a list and what is read of it.         *)
LEMMA OneDatagram ==
  ASSUME NEW list \in Seq(Nat), Distinct(list), list # <<>>
  PROVE  LET w == WriteToBuf(list) r == Read(w.records) IN
         /\ w.n \in 1 .. Len(list)
         /\ Size(w.records) \in Nat /\ Size(w.records) <= Mtu + 6
         /\ r.error \in BOOLEAN /\ r.numbers \subseteq ToSet(list)
         /\ ~ r.error /\ w.n = Len(list) => r.numbers = ToSet(list)
         /\ ~ r.error /\ Ascending(list) => r.numbers = Firsts(list, w.n)
<1> DEFINE w == WriteToBuf(list)
           r == Read(w.records)
           S == ToSet(list)
           sorted == Sorted(S)
<1>1. S \in SUBSET Nat /\ IsFiniteSet(S) /\ Cardinality(S) = Len(list)
  BY ListSet
<1>2. SortsTo(sorted, S)
  BY <1>1, SortedIs
<1>3. Len(list) \in Nat /\ Len(list) > 0
  OBVIOUS
<1> HIDE DEF S, sorted
<1>4. /\ sorted \in Seq(S) /\ Len(sorted) = Len(list)
      /\ \A i, j \in 1 .. Len(sorted) : i < j => sorted[i] < sorted[j]
      /\ \A x \in S : \E i \in 1 .. Len(sorted) : sorted[i] = x
  BY <1>1, <1>2 DEF SortsTo
<1>5. sorted \in Seq(Nat) /\ \A i \in 1 .. Len(sorted) : sorted[i] \in S
  <2>1. \A i \in 1 .. Len(sorted) : sorted[i] \in S
    BY <1>4, ElementOfSeq
  <2>2. Len(sorted) \in Nat /\ sorted \in [1 .. Len(sorted) -> S]
    BY <1>4, LenProperties
  <2>3. sorted \in [1 .. Len(sorted) -> Nat]
    BY <1>1, <2>2
  <2>4. sorted \in Seq(Nat)
    BY <2>2, <2>3
  <2> QED
    BY <2>1, <2>4
<1>6. /\ w.n \in 1 .. Len(sorted) /\ w.records \in Seq(Records)
      /\ Covered(w.records) = Firsts(sorted, w.n)
      /\ Size(w.records) \in Nat /\ Size(w.records) <= Mtu + 6
  <2>1. sorted = Sorted(ToSet(list)) /\ Len(sorted) > 0
    BY <1>3, <1>4 DEF S, sorted
  <2> QED
    BY <1>4, <1>5, <2>1, Written
<1> HIDE DEF w
<1>7. /\ r.error \in BOOLEAN /\ r.numbers \subseteq Firsts(sorted, w.n)
      /\ ~ r.error => r.numbers = Firsts(sorted, w.n)
  BY <1>6, ReadBack
<1> HIDE DEF r
<1>8. Firsts(sorted, w.n) \subseteq S
  <2>1. \A i \in 1 .. w.n : i \in 1 .. Len(sorted)
    BY <1>3, <1>4, <1>6
  <2> QED
    BY <1>5, <2>1 DEF Firsts
<1>9. Firsts(sorted, Len(list)) = S
  BY <1>4, <1>5 DEF Firsts
<1>10. Ascending(list) => sorted = list
  BY AscendingSorted DEF S, sorted
<1>11. /\ ~ r.error /\ w.n = Len(list) => r.numbers = S
       /\ ~ r.error /\ Ascending(list) => r.numbers = Firsts(list, w.n)
  BY <1>7, <1>9, <1>10, Zenon
<1>12. r.numbers \subseteq S
  BY <1>7, <1>8, Zenon
<1> QED
  BY <1>4, <1>6, <1>7, <1>11, <1>12 DEF r, w, S

-----------------------------------------------------------------------------
(* What the loop of send_acknowledgement keeps. The list is the end of the *)
(* one that was given; what was heard is of it, and is all that was taken  *)
(* off when it was ascending; the first datagram takes the list as it was. *)
Done == Len(given) - Len(packets)
AckInv ==
    /\ given \in Seq(Nat) /\ Distinct(given)
    /\ packets \in Seq(Nat) /\ Len(packets) <= Len(given)
    /\ \A i \in 1 .. Len(packets) : packets[i] = given[Done + i]
    /\ heard \subseteq ToSet(given) /\ refused \in BOOLEAN
    /\ Ascending(given) /\ ~ refused => heard = Firsts(given, Done)
    /\ sizes \in Seq(Nat) /\ \A k \in 1 .. Len(sizes) : sizes[k] <= Mtu + 7
    /\ sizes = <<>> => packets = given /\ heard = {}
    /\ Len(sizes) = 1 /\ packets = <<>> /\ ~ refused => heard = ToSet(given)

(* What is left of a list without its first n elements.                    *)
LEMMA Rest ==
  ASSUME NEW s \in Seq(Nat), NEW n \in 1 .. Len(s)
  PROVE  LET t == SubSeq(s, n + 1, Len(s)) IN
         /\ t \in Seq(Nat) /\ Len(t) = Len(s) - n
         /\ \A i \in 1 .. Len(s) - n : t[i] = s[n + i]
<1> DEFINE m == Len(s)
           t == SubSeq(s, n + 1, m)
<1>1. m \in Nat /\ n \in Nat /\ n <= m /\ n + 1 \in 1 .. m + 1 /\ m \in n .. m
  OBVIOUS
<1>2. \A i \in (n + 1) .. m : s[i] \in Nat
  BY <1>1
<1>3. Len(t) = m - n
  BY <1>1
<1>4. t \in Seq(Nat)
  BY <1>1, <1>2
<1>5. \A i \in 1 .. m - n : t[i] = s[n + i]
  BY <1>1, <1>3
<1> QED
  BY <1>3, <1>4, <1>5

(* Before the first datagram.                                              *)
LEMMA AckStart ==
  ListInit => AckInv
<1> SUFFICES ASSUME ListInit PROVE AckInv
  OBVIOUS
<1>1. PICK n \in 0 .. Cardinality(Numbers) :
         given \in {s \in [1 .. n -> Numbers] : \A i, j \in 1 .. n : s[i] = s[j] => i = j}
  BY DEF ListInit, Lists
<1>2. /\ n \in Nat /\ given \in [1 .. n -> Numbers]
      /\ \A i, j \in 1 .. n : given[i] = given[j] => i = j
  BY <1>1
<1>3. given \in Seq(Nat) /\ Len(given) = n /\ Distinct(given)
  <2>1. given \in [1 .. n -> Nat]
    BY <1>2, AcknowledgementAssumption
  <2>2. given \in Seq(Nat) /\ Len(given) = n
    BY <1>2, <2>1
  <2> QED
    BY <1>2, <2>2 DEF Distinct
<1>4. packets = given /\ heard = {} /\ refused = FALSE /\ sizes = <<>>
  BY DEF ListInit
<1>5. Done = 0 /\ \A i \in 1 .. n : 0 + i = i
  BY <1>2, <1>3, <1>4 DEF Done
<1>6. Firsts(given, 0) = {}
  BY DEF Firsts
<1>7. /\ sizes \in Seq(Nat) /\ Len(sizes) = 0 /\ \A k \in 1 .. Len(sizes) : sizes[k] <= Mtu + 7
      /\ Len(packets) <= Len(given) /\ \A i \in 1 .. Len(packets) : packets[i] = given[Done + i]
  BY <1>2, <1>3, <1>4, <1>5
<1>8. Len(sizes) # 1 /\ heard \subseteq ToSet(given) /\ refused \in BOOLEAN
      /\ heard = Firsts(given, Done)
  <2>1. Len(sizes) # 1
    BY <1>7
  <2>2. heard \subseteq ToSet(given) /\ refused \in BOOLEAN
    BY <1>4
  <2>3. heard = Firsts(given, Done)
    BY <1>4, <1>5, <1>6, Zenon
  <2> QED
    BY <2>1, <2>2, <2>3
<1> QED
  BY <1>3, <1>4, <1>7, <1>8, Zenon DEF AckInv

(* One datagram more.                                                      *)
LEMMA AckStep ==
  ASSUME AckInv, [ListNext]_listVars
  PROVE  AckInv'
<1>1. CASE UNCHANGED listVars
  BY <1>1 DEF listVars, AckInv, Done
<1>2. CASE ListNext
  <2> DEFINE w == WriteToBuf(packets)
             r == Read(w.records)
             n == w.n
             size == 1 + Size(w.records)
             k == Done
             m == Len(packets)
  <2>1. /\ given \in Seq(Nat) /\ Distinct(given)
        /\ packets \in Seq(Nat) /\ Len(packets) <= Len(given)
        /\ \A i \in 1 .. m : packets[i] = given[k + i]
        /\ heard \subseteq ToSet(given) /\ refused \in BOOLEAN
        /\ Ascending(given) /\ ~ refused => heard = Firsts(given, k)
        /\ sizes \in Seq(Nat) /\ \A i \in 1 .. Len(sizes) : sizes[i] <= Mtu + 7
        /\ sizes = <<>> => packets = given /\ heard = {}
    BY DEF AckInv
  <2>2. /\ packets # <<>> /\ packets' = SubSeq(packets, n + 1, Len(packets))
        /\ IF r.error THEN refused' = TRUE /\ heard' = heard
           ELSE heard' = heard \cup r.numbers /\ refused' = refused
        /\ sizes' = Append(sizes, size) /\ given' = given
    BY <1>2 DEF ListNext, Send, Remaining
  <2>3. m \in Nat /\ k \in Nat /\ k + m = Len(given) /\ Len(given) \in Nat
    BY <2>1 DEF Done
  <2>4. Distinct(packets) /\ (Ascending(given) => Ascending(packets))
    <3>1. \A i \in 1 .. m : k + i \in 1 .. Len(given)
      BY <2>3
    <3>2. \A i, j \in 1 .. m : k + i = k + j => i = j
      BY <2>3
    <3>3. \A i, j \in 1 .. m : i < j => k + i < k + j
      BY <2>3
    <3> HIDE DEF k, m
    <3>4. \A i, j \in 1 .. m : packets[i] = packets[j] => i = j
      BY <2>1, <3>1, <3>2, Zenon DEF Distinct
    <3>5. Ascending(given) => \A i, j \in 1 .. m : i < j => packets[i] < packets[j]
      BY <2>1, <3>1, <3>3, Zenon DEF Ascending
    <3> QED
      BY <3>4, <3>5 DEF Distinct, Ascending, m
  <2>5. /\ n \in 1 .. m /\ Size(w.records) \in Nat /\ Size(w.records) <= Mtu + 6
        /\ r.error \in BOOLEAN /\ r.numbers \subseteq ToSet(packets)
        /\ ~ r.error /\ n = m => r.numbers = ToSet(packets)
        /\ ~ r.error /\ Ascending(packets) => r.numbers = Firsts(packets, n)
    BY <2>1, <2>2, <2>4, OneDatagram
  <2>6. size \in Nat /\ size <= Mtu + 7
    BY <2>5, AcknowledgementAssumption
  <2> HIDE DEF w, r, n, size
  <2>7. /\ packets' \in Seq(Nat) /\ Len(packets') = m - n
        /\ \A i \in 1 .. m - n : packets'[i] = packets[n + i]
    BY <2>1, <2>2, <2>5, Rest DEF m
  <2>8. Done' = k + n
    <3>1. Done' = Len(given) - (m - n)
      BY <2>2, <2>7, Zenon DEF Done
    <3> HIDE DEF k, m
    <3> QED
      BY <2>3, <2>5, <3>1
  <2> HIDE DEF k, m
  <2>9. \A i \in 1 .. Len(packets') : packets'[i] = given[(k + n) + i]
    <3>1. \A i \in 1 .. m - n : n + i \in 1 .. m /\ k + (n + i) = (k + n) + i
      BY <2>3, <2>5
    <3> QED
      BY <2>1, <2>7, <3>1
  <2>10. ToSet(packets) \subseteq ToSet(given)
    <3>1. \A i \in 1 .. m : k + i \in 1 .. Len(given)
      BY <2>3
    <3>2. /\ ToSet(packets) = {packets[i] : i \in 1 .. m}
          /\ ToSet(given) = {given[i] : i \in 1 .. Len(given)}
      BY <2>1 DEF ToSet, m
    <3> QED
      BY <2>1, <3>1, <3>2
  <2>11. heard' \subseteq ToSet(given) /\ refused' \in BOOLEAN
    BY <2>1, <2>2, <2>5, <2>10
  <2>12. Ascending(given) /\ ~ refused' => heard' = Firsts(given, k + n)
    <3> SUFFICES ASSUME Ascending(given), ~ refused' PROVE heard' = Firsts(given, k + n)
      OBVIOUS
    <3>1. heard' = Firsts(given, k) \cup Firsts(packets, n)
      BY <2>1, <2>2, <2>4, <2>5
    <3>2. 1 .. k + n = (1 .. k) \cup {k + i : i \in 1 .. n}
      <4>1. \A j \in 1 .. k + n : j \in 1 .. k \/ (j - k \in 1 .. n /\ j = k + (j - k))
        BY <2>3, <2>5
      <4>2. \A i \in 1 .. n : k + i \in 1 .. k + n
        BY <2>3, <2>5
      <4>3. \A i \in 1 .. k : i \in 1 .. k + n
        BY <2>3, <2>5
      <4> QED
        BY <4>1, <4>2, <4>3
    <3>3. \A i \in 1 .. n : packets[i] = given[k + i]
      BY <2>1, <2>3, <2>5
    <3> QED
      BY <3>1, <3>2, <3>3 DEF Firsts
  <2>13. /\ sizes' \in Seq(Nat) /\ sizes' # <<>> /\ (Len(sizes') = 1 => Len(sizes) = 0)
         /\ \A i \in 1 .. Len(sizes') : sizes'[i] <= Mtu + 7
    <3>1. /\ sizes' \in Seq(Nat) /\ Len(sizes') = Len(sizes) + 1 /\ Len(sizes) \in Nat
          /\ \A i \in 1 .. Len(sizes) + 1 : sizes'[i] = IF i <= Len(sizes) THEN sizes[i] ELSE size
      BY <2>1, <2>2, <2>6, AppendProperties
    <3>2. \A i \in 1 .. Len(sizes) + 1 : i <= Len(sizes) => i \in 1 .. Len(sizes)
      BY <3>1
    <3>3. sizes' # <<>>
      BY <3>1
    <3> DEFINE l == Len(sizes)
    <3>4. l \in Nat /\ Len(sizes') = l + 1
      BY <3>1
    <3> HIDE DEF l
    <3>5. Len(sizes') = 1 => l = 0
      BY <3>4
    <3> QED
      BY <2>1, <2>6, <3>1, <3>2, <3>3, <3>5 DEF l
  <2>14. Len(sizes') = 1 /\ packets' = <<>> /\ ~ refused' => heard' = ToSet(given)
    <3> SUFFICES ASSUME Len(sizes') = 1, packets' = <<>>, ~ refused'
                 PROVE  heard' = ToSet(given)
      OBVIOUS
    <3>1. Len(sizes) = 0
      BY <2>13
    <3>2. sizes = <<>>
      BY <2>1, <3>1
    <3>3. n = m
      BY <2>3, <2>5, <2>7
    <3> QED
      BY <2>1, <2>2, <2>5, <3>2, <3>3
  <2>15. Len(packets') <= Len(given)
    BY <2>3, <2>5, <2>7
  <2> QED
    BY <2>1, <2>2, <2>7, <2>8, <2>9, <2>11, <2>12, <2>13, <2>14, <2>15 DEF AckInv
<1> QED
  BY <1>1, <1>2

(* Every turn of send_acknowledgement keeps it.                            *)
LEMMA AckInvariant ==
  ListSpec => []AckInv
<1> QED
  BY AckStart, AckStep, PTL DEF ListSpec

(* send_acknowledgement, acknowledge.rs:42: no range covers a number that  *)
(* was not in the list, for lists in any order, whatever the datagrams     *)
(* hold and wherever the reader stops.                                     *)
THEOREM NothingInvented ==
  ListSpec => []HeardWasGiven
<1>1. AckInv => HeardWasGiven
  BY DEF AckInv, HeardWasGiven
<1> QED
  BY AckInvariant, <1>1, PTL

(* acknowledge.rs:77: the room is looked at before a number is taken, so   *)
(* that at most one record is written beyond it, and no datagram is longer *)
(* than the MTU by more than the seven bytes of a range.                   *)
THEOREM OverrunByOneRecord ==
  ListSpec => []OverrunBounded
<1>1. AckInv => OverrunBounded
  <2> SUFFICES ASSUME AckInv PROVE OverrunBounded
    OBVIOUS
  <2>1. sizes \in Seq(Nat) /\ \A k \in 1 .. Len(sizes) : sizes[k] <= Mtu + 7
    BY DEF AckInv
  <2>2. DOMAIN sizes = 1 .. Len(sizes)
    BY <2>1
  <2> QED
    BY <2>1, <2>2, Zenon DEF OverrunBounded
<1> QED
  BY AckInvariant, <1>1, PTL

(* conn.rs:676: a list in ascending order, or one that needs one datagram, *)
(* arrives whole unless the reader finds it too long: what is taken off    *)
(* the list is what was written.                                           *)
THEOREM AscendingListArrives ==
  ListSpec => []AscendingArrives
<1>1. AckInv => AscendingArrives
  <2> SUFFICES ASSUME AckInv, packets = <<>>, ~ refused,
                      \/ Len(sizes) <= 1
                      \/ \A i, j \in DOMAIN given : i < j => given[i] < given[j]
               PROVE  heard = ToSet(given)
    BY DEF AscendingArrives
  <2>1. /\ given \in Seq(Nat) /\ sizes \in Seq(Nat) /\ Len(packets) = 0
        /\ Done = Len(given) /\ DOMAIN given = 1 .. Len(given)
    BY DEF AckInv, Done
  <2>2. CASE Len(sizes) = 0
    <3>1. sizes = <<>>
      BY <2>1, <2>2
    <3>2. given = <<>> /\ heard = {}
      BY <3>1 DEF AckInv
    <3> QED
      BY <3>2 DEF ToSet
  <2>3. CASE Len(sizes) = 1
    BY <2>3 DEF AckInv
  <2>4. CASE \A i, j \in DOMAIN given : i < j => given[i] < given[j]
    <3>1. Ascending(given)
      BY <2>1, <2>4 DEF Ascending
    <3>2. heard = Firsts(given, Len(given))
      BY <2>1, <3>1 DEF AckInv
    <3>3. Firsts(given, Len(given)) = ToSet(given)
      BY <2>1 DEF Firsts, ToSet
    <3> QED
      BY <3>2, <3>3
  <2> DEFINE l == Len(sizes)
  <2>5. l \in Nat
    BY <2>1
  <2> HIDE DEF l
  <2>6. l <= 1 => l = 0 \/ l = 1
    BY <2>5
  <2> QED
    BY <2>2, <2>3, <2>4, <2>6 DEF l
<1> QED
  BY AckInvariant, <1>1, PTL

-----------------------------------------------------------------------------
(* Division, rounded up.                                                   *)
LEMMA CountBounds ==
  ASSUME NEW n \in Nat \ {0}, NEW max \in Nat \ {0}
  PROVE  LET count == FragmentCount(n, max) IN
         /\ count \in Nat \ {0} /\ (count - 1) * max < n /\ n <= count * max
<1> DEFINE q == (n + max - 1) \div max
           r == (n + max - 1) % max
<1>1. q \in Int /\ r \in 0 .. (max - 1) /\ n + max - 1 = max * q + r
  BY Z3
<1> HIDE DEF q, r
<1>2. max * q = q * max /\ (q - 1) * max = q * max - max
  BY <1>1, Z3
<1>3. (q - 1) * max < n /\ n <= q * max
  BY <1>1, <1>2
<1>4. q > 0
  <2>1. SUFFICES ASSUME q <= 0 PROVE FALSE
    BY <1>1
  <2>2. PICK k \in Nat : q = - k
    BY <1>1, <2>1
  <2>3. k * max \in Nat
    BY <2>2
  <2>4. q * max = - (k * max)
    BY <2>2, Z3
  <2> QED
    BY <1>3, <2>3, <2>4
<1> QED
  BY <1>1, <1>3, <1>4 DEF q, FragmentCount

-----------------------------------------------------------------------------
(* Bytes are a sequence of as many fields, and one sequence behind another *)
(* is as long as both.                                                     *)
IsBytes(s, S, n) == s \in Seq(S) /\ Len(s) = n

(* The bytes of a field.                                                   *)
LEMMA BytesType ==
  ASSUME NEW S, NEW field \in S, NEW w \in Nat
  PROVE  IsBytes(Bytes(field, w), S, w)
BY DEF Bytes, IsBytes

(* One sequence of bytes behind another.                                   *)
LEMMA Behind ==
  ASSUME NEW S, NEW s, NEW t, NEW m \in Nat, NEW n \in Nat,
         IsBytes(s, S, m), IsBytes(t, S, n)
  PROVE  IsBytes(s \o t, S, m + n)
BY DEF IsBytes

(* Bytes that are there on a condition.                                    *)
LEMMA Perhaps ==
  ASSUME NEW S, NEW c \in BOOLEAN, NEW s, NEW n \in Nat, IsBytes(s, S, n)
  PROVE  IsBytes(When(c, s), S, IF c THEN n ELSE 0)
<1>1. CASE c
  BY <1>1 DEF When
<1>2. CASE ~ c
  <2>1. When(c, s) = <<>>
    BY <1>2 DEF When
  <2> QED
    BY <1>2, <2>1 DEF IsBytes
<1> QED
  BY <1>1, <1>2

(* A sequence of m, n and then o bytes is a, b and c.                      *)
IsInThree(s, a, b, c, m, n, o) ==
    /\ Len(s) = m + n + o
    /\ \A i \in 1 .. m : s[i] = a[i]
    /\ \A i \in 1 .. n : s[m + i] = b[i]
    /\ SubSeq(s, m + 1, m + n) = b
    /\ SubSeq(s, m + n + 1, m + n + o) = c

LEMMA InThree ==
  ASSUME NEW S, NEW a, NEW b, NEW c, NEW m \in Nat, NEW n \in Nat, NEW o \in Nat,
         IsBytes(a, S, m), IsBytes(b, S, n), IsBytes(c, S, o)
  PROVE  IsInThree(a \o b \o c, a, b, c, m, n, o)
<1>1. /\ a \in Seq(S) /\ b \in Seq(S) /\ c \in Seq(S)
      /\ Len(a) = m /\ Len(b) = n /\ Len(c) = o
  BY DEF IsBytes
<1> DEFINE s == a \o b \o c
<1>2. /\ s \in Seq(S) /\ Len(s) = m + n + o
      /\ \A i \in 1 .. m + n + o :
           s[i] = IF i <= m THEN a[i] ELSE IF i <= m + n THEN b[i - m] ELSE c[i - (m + n)]
  <2> DEFINE ab == a \o b
             k == m + n
  <2>1. /\ ab \in Seq(S) /\ Len(ab) = k /\ k \in Nat
        /\ \A i \in 1 .. k : ab[i] = IF i <= m THEN a[i] ELSE b[i - m]
    BY <1>1, ConcatProperties
  <2> HIDE DEF ab, k
  <2>2. /\ ab \o c \in Seq(S) /\ Len(ab \o c) = k + o
        /\ \A i \in 1 .. k + o : (ab \o c)[i] = IF i <= k THEN ab[i] ELSE c[i - k]
    BY <1>1, <2>1, ConcatProperties
  <2>3. s = ab \o c
    BY DEF ab
  <2> HIDE DEF s
  <2> QED
    BY <2>1, <2>2, <2>3 DEF k
<1> HIDE DEF s
<1>3. SubSeq(s, m + 1, m + n) = b
  <2> DEFINE t == SubSeq(s, m + 1, m + n)
  <2>1. /\ t \in Seq(S) /\ Len(t) = n
        /\ \A i \in 1 .. n : t[i] = s[m + i]
    BY <1>2
  <2> HIDE DEF t
  <2>2. \A i \in 1 .. n : s[m + i] = b[i]
    BY <1>2
  <2>3. t = b
    BY <1>1, <2>1, <2>2, SeqEqual
  <2> QED
    BY <2>3 DEF t
<1>4. SubSeq(s, m + n + 1, m + n + o) = c
  <2> DEFINE t == SubSeq(s, m + n + 1, m + n + o)
  <2>1. /\ t \in Seq(S) /\ Len(t) = o
        /\ \A i \in 1 .. o : t[i] = s[m + n + i]
    BY <1>2
  <2> HIDE DEF t
  <2>2. \A i \in 1 .. o : s[m + n + i] = c[i]
    BY <1>2
  <2>3. t = c
    BY <1>1, <2>1, <2>2, SeqEqual
  <2> QED
    BY <2>3 DEF t
<1>5. \A i \in 1 .. m : s[i] = a[i]
  BY <1>2
<1>6. \A i \in 1 .. n : s[m + i] = b[i]
  BY <1>2
<1> QED
  BY <1>2, <1>3, <1>4, <1>5, <1>6, Zenon DEF s, IsInThree

(* The fields of a packet, and how many bytes they take.                   *)
FieldNames == {"message_index", "sequence_index", "order_index", "channel",
               "split_count", "split_id", "split_index", "content"}
FieldsWidth(p) ==
    (IF IsReliable(p.reliability) THEN 3 ELSE 0) + (IF IsSequenced(p.reliability) THEN 3 ELSE 0)
    + OrderWidth(p.reliability) + (IF p.split THEN 10 ELSE 0)

(* PacketFields takes the bytes the header tells of.                       *)
LEMMA FieldsType ==
  ASSUME NEW p, p.split \in BOOLEAN, NEW S, FieldNames \subseteq S
  PROVE  FieldsWidth(p) \in Nat /\ IsBytes(PacketFields(p), S, FieldsWidth(p))
<1> DEFINE reliable == When(IsReliable(p.reliability), Bytes("message_index", 3))
           sequenced == When(IsSequenced(p.reliability), Bytes("sequence_index", 3))
           order == Bytes("order_index", 3) \o <<"channel">>
           ordered == When(IsSequencedOrOrdered(p.reliability), order)
           fragment == Bytes("split_count", 4) \o Bytes("split_id", 2) \o Bytes("split_index", 4)
           split == When(p.split, fragment)
           a == IF IsReliable(p.reliability) THEN 3 ELSE 0
           b == IF IsSequenced(p.reliability) THEN 3 ELSE 0
           c == IF IsSequencedOrOrdered(p.reliability) THEN 4 ELSE 0
           d == IF p.split THEN 10 ELSE 0
<1>1. /\ IsBytes(Bytes("message_index", 3), S, 3) /\ IsBytes(Bytes("sequence_index", 3), S, 3)
      /\ IsBytes(Bytes("order_index", 3), S, 3) /\ IsBytes(Bytes("split_count", 4), S, 4)
      /\ IsBytes(Bytes("split_id", 2), S, 2) /\ IsBytes(Bytes("split_index", 4), S, 4)
  BY BytesType DEF FieldNames
<1>2. "channel" \in S
  BY DEF FieldNames
<1>3. IsBytes(<<"channel">>, S, 1)
  BY <1>2 DEF IsBytes
<1>4. 3 + 1 = 4 /\ 4 + 2 = 6 /\ 6 + 4 = 10
      /\ 1 \in Nat /\ 2 \in Nat /\ 3 \in Nat /\ 4 \in Nat /\ 6 \in Nat /\ 10 \in Nat
  OBVIOUS
<1>5. IsBytes(order, S, 4)
  BY <1>1, <1>3, <1>4, Behind, Zenon
<1>6. IsBytes(Bytes("split_count", 4) \o Bytes("split_id", 2), S, 6)
  BY <1>1, <1>4, Behind, Zenon
<1>7. IsBytes(fragment, S, 10)
  BY <1>1, <1>4, <1>6, Behind, Zenon
<1> HIDE DEF order, fragment
<1>8. /\ IsReliable(p.reliability) \in BOOLEAN /\ IsSequenced(p.reliability) \in BOOLEAN
      /\ IsSequencedOrOrdered(p.reliability) \in BOOLEAN
  BY DEF IsReliable, IsSequenced, IsSequencedOrOrdered
<1>9. /\ IsBytes(reliable, S, a) /\ IsBytes(sequenced, S, b)
      /\ IsBytes(ordered, S, c) /\ IsBytes(split, S, d)
  <2>1. IsBytes(reliable, S, a)
    BY <1>1, <1>4, <1>8, Perhaps, Zenon
  <2>2. IsBytes(sequenced, S, b)
    BY <1>1, <1>4, <1>8, Perhaps, Zenon
  <2>3. IsBytes(ordered, S, c)
    BY <1>4, <1>5, <1>8, Perhaps, Zenon
  <2>4. IsBytes(split, S, d)
    BY <1>4, <1>7, Perhaps, Zenon
  <2> QED
    BY <2>1, <2>2, <2>3, <2>4
<1>10. a \in Nat /\ b \in Nat /\ c \in Nat /\ d \in Nat
  OBVIOUS
<1>11. PacketFields(p) = reliable \o sequenced \o ordered \o split
  BY DEF PacketFields, order, fragment
<1>12. FieldsWidth(p) = a + b + c + d
  BY DEF FieldsWidth, OrderWidth
<1> HIDE DEF reliable, sequenced, ordered, split, a, b, c, d
<1>13. a + b \in Nat /\ a + b + c \in Nat /\ a + b + c + d \in Nat
  BY <1>10
<1>14. IsBytes(reliable \o sequenced, S, a + b)
  BY <1>9, <1>10, Behind, Zenon
<1>15. IsBytes(reliable \o sequenced \o ordered, S, a + b + c)
  BY <1>9, <1>10, <1>13, <1>14, Behind, Zenon
<1>16. IsBytes(reliable \o sequenced \o ordered \o split, S, a + b + c + d)
  BY <1>9, <1>10, <1>13, <1>15, Behind, Zenon
<1> QED
  BY <1>11, <1>12, <1>13, <1>16

(* The bytes of a packet as a Conn sends it, its datagram included.        *)
LEMMA SizeWritten ==
  ASSUME NEW p, p.reliability = 3, p.split \in BOOLEAN, p.length \in Nat
  PROVE  DatagramSize(p) = p.length + PACKET_ADDITIONAL_SIZE
                           + IF p.split THEN SPLIT_ADDITIONAL_SIZE ELSE 0
<1> DEFINE S == FieldNames \cup {Header(p), ContentLength(p)}
           head == <<Header(p), ContentLength(p), ContentLength(p)>>
           fields == PacketFields(p)
           content == Bytes("content", p.length)
           w == FieldsWidth(p)
           n == p.length
<1>1. n \in Nat
  OBVIOUS
<1>2. w \in Nat /\ IsBytes(fields, S, w)
  BY FieldsType
<1>3. IsBytes(content, S, n)
  BY <1>1, BytesType DEF FieldNames
<1>4. IsBytes(head, S, 3)
  BY DEF IsBytes
<1>5. WritePacket(p) = head \o fields \o content
  BY DEF WritePacket
<1>6. w = 7 + IF p.split THEN 10 ELSE 0
  BY DEF FieldsWidth, OrderWidth, IsReliable, IsSequenced, IsSequencedOrOrdered
<1> HIDE DEF S, head, fields, content, w, n
<1>7. IsInThree(head \o fields \o content, head, fields, content, 3, w, n)
  <2>1. 3 \in Nat /\ n \in Nat /\ w \in Nat
    BY <1>1, <1>2
  <2> QED
    BY <1>2, <1>3, <1>4, <2>1, InThree, Zenon
<1>8. Len(WritePacket(p)) = 3 + w + n
  BY <1>5, <1>7, Zenon DEF IsInThree
<1> QED
  BY <1>1, <1>2, <1>6, <1>8 DEF n, DatagramSize, PACKET_ADDITIONAL_SIZE, SPLIT_ADDITIONAL_SIZE

(* The longest content whose number of bits fits the 16 of its field.      *)
LongestLength == 8191

(* The number of bits, in a field of 16, gives back the length.            *)
LEMMA LengthBits ==
  ASSUME NEW n \in 1 .. LongestLength
  PROVE  (n * 8) % 65536 \in Nat /\ ((n * 8) % 65536) \div 8 = n
BY Z3 DEF LongestLength

(* The header's bits give back what was packed.                            *)
LEMMA HeaderBits ==
  ASSUME NEW r \in 0 .. 4
  PROVE  /\ r * 32 + 16 \in Nat /\ ((r * 32 + 16) \div 32) % 8 = r
         /\ ((r * 32 + 16) \div 16) % 2 = 1
         /\ r * 32 + 0 \in Nat /\ ((r * 32 + 0) \div 32) % 8 = r
         /\ ((r * 32 + 0) \div 16) % 2 = 0
BY Z3

(* The header of a packet.                                                 *)
LEMMA HeaderRead ==
  ASSUME NEW p, p.reliability \in 0 .. 4, p.split \in BOOLEAN
  PROVE  /\ Header(p) \in Nat
         /\ (Header(p) \div 32) % 8 = p.reliability
         /\ ((Header(p) \div 16) % 2 = 1) = p.split
<1> DEFINE r == p.reliability
<1>1. r \in 0 .. 4 /\ Header(p) = r * 32 + IF p.split THEN 16 ELSE 0
  BY DEF Header
<1> HIDE DEF r
<1>2. CASE p.split
  <2>1. Header(p) = r * 32 + 16
    BY <1>1, <1>2
  <2> QED
    BY <1>1, <1>2, <2>1, HeaderBits DEF r
<1>3. CASE ~ p.split
  <2>1. Header(p) = r * 32 + 0
    BY <1>1, <1>3
  <2> QED
    BY <1>1, <1>3, <2>1, HeaderBits DEF r
<1> QED
  BY <1>2, <1>3

(* The length of a packet.                                                 *)
LEMMA LengthRead ==
  ASSUME NEW p, p.length \in 1 .. LongestLength
  PROVE  ContentLength(p) \in Nat /\ ContentLength(p) \div 8 = p.length
<1> DEFINE n == p.length
<1>1. n \in 1 .. LongestLength /\ ContentLength(p) = (n * 8) % 65536
  BY DEF ContentLength
<1> HIDE DEF n
<1>2. ContentLength(p) \in Nat /\ ContentLength(p) \div 8 = n
  BY <1>1, LengthBits
<1> QED
  BY <1>2 DEF n

(* What Packet::read makes of the bytes that Packet::write has written.    *)
LEMMA PacketRead ==
  ASSUME NEW p, p.reliability \in 0 .. 4, p.split \in BOOLEAN, p.length \in 1 .. LongestLength
  PROVE  ReadPacket(WritePacket(p)) =
           [kind |-> "packet", reliability |-> p.reliability, split |-> p.split,
            fields |-> PacketFields(p), content |-> Bytes("content", p.length)]
<1> DEFINE S == FieldNames \cup {Header(p), ContentLength(p)}
           head == <<Header(p), ContentLength(p), ContentLength(p)>>
           fields == PacketFields(p)
           content == Bytes("content", p.length)
           bytes == WritePacket(p)
           w == FieldsWidth(p)
           n == p.length
<1>1. n \in 1 .. LongestLength
  OBVIOUS
<1> HIDE DEF n
<1>2. n \in Nat \ {0}
  BY <1>1 DEF LongestLength
<1>3. w \in Nat /\ IsBytes(fields, S, w)
  BY FieldsType
<1>4. IsBytes(content, S, n)
  BY <1>2, BytesType DEF FieldNames, n
<1>5. IsBytes(head, S, 3)
  BY DEF IsBytes
<1>6. bytes = head \o fields \o content
  BY DEF WritePacket
<1>7. head[1] = Header(p) /\ head[2] = ContentLength(p)
  OBVIOUS
<1>8. w = (IF IsReliable(p.reliability) THEN 3 ELSE 0)
          + (IF IsSequenced(p.reliability) THEN 3 ELSE 0)
          + OrderWidth(p.reliability) + (IF p.split THEN 10 ELSE 0)
  BY DEF FieldsWidth
<1> HIDE DEF S, head, fields, content, bytes, w
<1>9. IsInThree(bytes, head, fields, content, 3, w, n)
  <2>1. 3 \in Nat /\ n \in Nat /\ w \in Nat
    BY <1>2, <1>3
  <2>2. IsInThree(head \o fields \o content, head, fields, content, 3, w, n)
    BY <1>3, <1>4, <1>5, <2>1, InThree, Zenon
  <2> QED
    BY <1>6, <2>2
<1>10. /\ Len(bytes) = 3 + w + n
       /\ bytes[1] = Header(p) /\ bytes[2] = ContentLength(p)
       /\ SubSeq(bytes, 3 + 1, 3 + w) = fields
       /\ SubSeq(bytes, 3 + w + 1, 3 + w + n) = content
  BY <1>7, <1>9 DEF IsInThree
<1>11. /\ (bytes[1] \div 32) % 8 = p.reliability /\ ((bytes[1] \div 16) % 2 = 1) = p.split
       /\ bytes[2] \div 8 = n
  BY <1>10, HeaderRead, LengthRead, Zenon DEF n
<1>12. 3 + (IF IsReliable(p.reliability) THEN 3 ELSE 0)
         + (IF IsSequenced(p.reliability) THEN 3 ELSE 0)
         + OrderWidth(p.reliability) + (IF p.split THEN 10 ELSE 0) = 3 + w
  BY <1>8 DEF OrderWidth
<1>13. n # 0 /\ ~ (Len(bytes) < 3 + w + n)
  BY <1>2, <1>3, <1>10
<1>14. ReadPacket(bytes) =
         [kind |-> "packet", reliability |-> p.reliability, split |-> p.split,
          fields |-> SubSeq(bytes, 3 + 1, 3 + w),
          content |-> SubSeq(bytes, 3 + w + 1, 3 + w + n)]
  BY <1>11, <1>12, <1>13, Zenon DEF ReadPacket
<1> QED
  BY <1>10, <1>14, Zenon DEF bytes, fields, content, n

-----------------------------------------------------------------------------
(* The pieces packet::split makes of a content.                            *)
LEMMA SplitPieces ==
  ASSUME NEW n \in Nat \ {0}, NEW mtu \in Nat,
         mtu > PACKET_ADDITIONAL_SIZE + SPLIT_ADDITIONAL_SIZE
  PROVE  LET pieces == Split(n, mtu) IN
         /\ Len(pieces) \in Nat \ {0} /\ DOMAIN pieces = 1 .. Len(pieces)
         /\ pieces[1].from = 0
         /\ \A i \in 1 .. Len(pieces) :
              /\ pieces[i].length \in Nat \ {0}
              /\ pieces[i].from + pieces[i].length =
                   IF i < Len(pieces) THEN pieces[i + 1].from ELSE n
              /\ pieces[i].length + PACKET_ADDITIONAL_SIZE
                 + (IF Len(pieces) > 1 THEN SPLIT_ADDITIONAL_SIZE ELSE 0) <= mtu
<1> DEFINE max == MaxSize(n, mtu)
           count == FragmentCount(n, max)
           pieces == Split(n, mtu)
<1>1. /\ max \in Nat \ {0}
      /\ n > max => max = mtu - PACKET_ADDITIONAL_SIZE - SPLIT_ADDITIONAL_SIZE
      /\ max <= mtu - PACKET_ADDITIONAL_SIZE
  BY DEF MaxSize, PACKET_ADDITIONAL_SIZE, SPLIT_ADDITIONAL_SIZE
<1> HIDE DEF max
<1>2. count \in Nat \ {0} /\ (count - 1) * max < n /\ n <= count * max
  BY <1>1, CountBounds
<1> HIDE DEF count
<1>3. pieces = [i \in 1 .. count |->
                  [from |-> (i - 1) * max,
                   length |-> IF i < count THEN max ELSE n - (i - 1) * max]]
  BY DEF Split, max, count
<1> HIDE DEF pieces
<1>4. Len(pieces) = count /\ DOMAIN pieces = 1 .. count
  BY <1>2, <1>3
<1>5. \A i \in 1 .. count : /\ pieces[i].from = (i - 1) * max
                            /\ pieces[i].length = IF i < count THEN max ELSE n - (i - 1) * max
  BY <1>3
<1>6. \A i \in Nat : i * max \in Nat /\ (i + 1) * max = i * max + max
  BY <1>1
<1>7. count * max = (count - 1) * max + max
  BY <1>1, <1>2, Z3
<1>8. count > 1 => n > max
  BY <1>1, <1>2, Z3
<1>9. pieces[1].from = 0
  BY <1>1, <1>2, <1>5
<1>10. ASSUME NEW i \in 1 .. count
       PROVE  /\ pieces[i].length \in Nat \ {0} /\ pieces[i].length <= max
              /\ pieces[i].from + pieces[i].length =
                   IF i < count THEN pieces[i + 1].from ELSE n
  <2>1. CASE i < count
    <3>1. (i - 1) * max + max = i * max /\ i + 1 \in 1 .. count
      BY <1>1, <1>2, <2>1, Z3
    <3>2. pieces[i + 1].from = i * max
      BY <1>5, <3>1
    <3> QED
      BY <1>1, <1>5, <2>1, <3>1, <3>2
  <2>2. CASE i = count
    <3>1. (count - 1) * max \in Nat
      BY <1>2, <1>6
    <3>2. pieces[i].from = (count - 1) * max /\ pieces[i].length = n - (count - 1) * max
      BY <1>5, <2>2
    <3> QED
      BY <1>1, <1>2, <1>7, <2>2, <3>1, <3>2
  <2> QED
    BY <1>2, <2>1, <2>2
<1>11. ASSUME NEW i \in 1 .. count
       PROVE  pieces[i].length + PACKET_ADDITIONAL_SIZE
              + (IF count > 1 THEN SPLIT_ADDITIONAL_SIZE ELSE 0) <= mtu
  BY <1>1, <1>8, <1>10 DEF PACKET_ADDITIONAL_SIZE, SPLIT_ADDITIONAL_SIZE
<1> QED
  BY <1>2, <1>4, <1>9, <1>10, <1>11 DEF pieces

-----------------------------------------------------------------------------
(* The reader of the addresses: what it may take for a family, its state   *)
(* and its loop.                                                           *)
Known(bytes) == {bytes[i] : i \in Nat}
As(bytes) == [offset : Nat, addresses : Seq(Known(bytes)), ended : BOOLEAN, failed : BOOLEAN]

(* The state of the loop over the addresses.                               *)
LEMMA ReadAddressType ==
  ASSUME NEW bytes, NEW r \in As(bytes)
  PROVE  ReadAddress(bytes, r) \in As(bytes)
<1>1. /\ r.offset \in Nat /\ r.addresses \in Seq(Known(bytes))
      /\ r.ended \in BOOLEAN /\ r.failed \in BOOLEAN
  BY DEF As
<1> DEFINE family == bytes[r.offset + 1]
<1>2. family \in Known(bytes)
  BY <1>1 DEF Known
<1>3. r.offset + AddrSize(family) \in Nat
  BY <1>1 DEF AddrSize, SIZEOF_ADDR4, SIZEOF_ADDR6
<1>4. Append(r.addresses, family) \in Seq(Known(bytes))
  BY <1>1, <1>2
<1> HIDE DEF family
<1>5. /\ [r EXCEPT !.ended = TRUE] \in As(bytes)
      /\ [r EXCEPT !.ended = TRUE, !.failed = TRUE] \in As(bytes)
      /\ [r EXCEPT !.offset = @ + AddrSize(family), !.addresses = Append(@, family)] \in As(bytes)
  BY <1>1, <1>3, <1>4 DEF As
<1> QED
  BY <1>5 DEF ReadAddress, family

ReadAddresses(bytes, base, n) ==
    FoldLeft(LAMBDA r, k : ReadAddress(bytes, r), base, [k \in 1 .. n |-> k])

(* The fold of ReadAddress as a loop.                                      *)
LEMMA Addressing ==
  ASSUME NEW bytes, NEW base \in As(bytes), NEW n \in Nat
  PROVE  \E f : /\ f[0] = base /\ ReadAddresses(bytes, base, n) = f[n]
                /\ \A k \in 1 .. n : f[k] = ReadAddress(bytes, f[k - 1])
<1> DEFINE Steps(g) == g = [s \in SUBSET DOMAIN [k \in 1 .. n |-> k] |->
                            IF s = {} THEN base ELSE ReadAddress(bytes, g[s \ {Max(s)}])]
           step == [p \in (1 .. n) \X As(bytes) |-> ReadAddress(bytes, p[2])]
<1>1. n \in Nat /\ DOMAIN [k \in 1 .. n |-> k] = 1 .. n
  OBVIOUS
<1>2. step \in [(1 .. n) \X As(bytes) -> As(bytes)]
  BY <1>1, ReadAddressType
<1>3. \A i \in 1 .. n, r \in As(bytes) : step[<<i, r>>] = ReadAddress(bytes, r)
  OBVIOUS
<1> HIDE DEF step
<1>4. PICK h \in [SUBSET (1 .. n) -> As(bytes)] : FoldOf(h, base, step, n)
  BY <1>1, <1>2, Folding
<1>5. Steps(h)
  <2>1. ASSUME NEW s \in SUBSET (1 .. n), s # {}
        PROVE  step[<<Max(s), h[s \ {Max(s)}]>>] = ReadAddress(bytes, h[s \ {Max(s)}])
    <3>1. Max(s) \in 1 .. n /\ s \ {Max(s)} \in SUBSET (1 .. n)
      BY <1>1, <2>1, LargestIn
    <3> QED
      BY <1>3, <1>4, <3>1
  <2> QED
    BY <1>1, <1>4, <2>1 DEF FoldOf
<1> DEFINE g == CHOOSE g : Steps(g)
<1>6. Steps(g)
  BY <1>5, Zenon
<1>7. ReadAddresses(bytes, base, n) = g[DOMAIN [k \in 1 .. n |-> k]]
  BY Zenon DEF ReadAddresses, FoldLeft, MapThenFoldSet
<1> HIDE DEF g
<1>8. \A s \in SUBSET (1 .. n) : g[s] =
         IF s = {} THEN base ELSE ReadAddress(bytes, g[s \ {Max(s)}])
  BY <1>1, <1>6
<1> DEFINE f == [k \in 0 .. n |-> g[1 .. k]]
<1>9. f[0] = base
  <2>1. 1 .. 0 = {} /\ {} \in SUBSET (1 .. n)
    OBVIOUS
  <2>2. g[{}] = base
    BY <1>8, <2>1
  <2>3. f[0] = g[1 .. 0]
    BY <1>1
  <2> QED
    BY <2>1, <2>2, <2>3
<1>10. ASSUME NEW k \in 1 .. n
       PROVE  f[k] = ReadAddress(bytes, f[k - 1])
  <2>1. f[k] = g[1 .. k] /\ f[k - 1] = g[1 .. (k - 1)]
    BY <1>1
  <2>2. /\ 1 .. k \in SUBSET (1 .. n) /\ 1 .. k # {}
        /\ Max(1 .. k) = k /\ (1 .. k) \ {Max(1 .. k)} = 1 .. (k - 1)
    BY <1>1, FirstOnes
  <2> HIDE DEF f
  <2> QED
    BY <1>8, <2>1, <2>2, Zenon
<1>11. ReadAddresses(bytes, base, n) = f[n]
  <2>1. f[n] = g[1 .. n]
    BY <1>1
  <2> QED
    BY <1>1, <1>7, <2>1, Zenon
<1> QED
  BY <1>9, <1>10, <1>11

(* The addresses of a message, in bytes.                                   *)
AddressBytes(addresses) ==
    [k \in DOMAIN addresses |-> Bytes(addresses[k], AddrSize(addresses[k]))]

(* Every address takes at least the bytes of an IPv4 one.                  *)
LEMMA AddrSizeType ==
  ASSUME NEW family
  PROVE  AddrSize(family) \in Nat /\ AddrSize(family) > 6
BY DEF AddrSize, SIZEOF_ADDR4, SIZEOF_ADDR6

(* Sequences that are joined one behind the other, f after each of them.   *)
AreParts(parts, n, S) ==
    /\ DOMAIN parts = 1 .. n /\ Len(parts) = n /\ (n = 0 => parts = <<>>)
    /\ \A k \in 1 .. n : parts[k] \in Seq(S)
Joins(f, parts, n, S) ==
    /\ f[0] = <<>> /\ FlattenSeq(parts) = f[n]
    /\ \A k \in 1 .. n : f[k] = f[k - 1] \o parts[k]
    /\ \A k \in 0 .. n : f[k] \in Seq(S)

(* FlattenSeq as a loop: what is joined so far, and one sequence more.     *)
LEMMA Flattened ==
  ASSUME NEW n \in Nat, NEW S, NEW parts, AreParts(parts, n, S)
  PROVE  \E f : Joins(f, parts, n, S)
<1>0. /\ DOMAIN parts = 1 .. n /\ Len(parts) = n /\ (n = 0 => parts = <<>>)
      /\ \A k \in 1 .. n : parts[k] \in Seq(S)
  BY DEF AreParts
<1> DEFINE R == Seq(S)
           step == [p \in (1 .. n) \X R |-> IF p[1] = 1 THEN parts[1] ELSE p[2] \o parts[p[1]]]
           Flat(g) == g = [i \in 1 .. Len(parts) |->
                              IF i = 1 THEN parts[i] ELSE g[i - 1] \o parts[i]]
<1>1. <<>> \in R /\ \A i \in 1 .. n, r \in R : r \o parts[i] \in R /\ parts[i] \in R
  BY <1>0
<1> HIDE DEF R
<1>2. step \in [(1 .. n) \X R -> R]
  BY <1>1
<1>3. \A i \in 1 .. n, r \in R : step[<<i, r>>] = IF i = 1 THEN parts[i] ELSE r \o parts[i]
  OBVIOUS
<1> HIDE DEF step
<1>4. PICK h \in [SUBSET (1 .. n) -> R] : FoldOf(h, <<>>, step, n)
  BY <1>1, <1>2, Folding
<1> DEFINE flat == [i \in 1 .. n |-> h[1 .. i]]
<1>5. ASSUME NEW i \in 1 .. n
      PROVE  flat[i] = IF i = 1 THEN parts[i] ELSE flat[i - 1] \o parts[i]
  <2>1. /\ 1 .. i \in SUBSET (1 .. n) /\ 1 .. i # {}
        /\ Max(1 .. i) = i /\ (1 .. i) \ {Max(1 .. i)} = 1 .. (i - 1)
    BY FirstOnes
  <2>2. h[1 .. i] = step[<<i, h[1 .. (i - 1)]>>]
    BY <1>4, <2>1 DEF FoldOf
  <2>3. h[1 .. (i - 1)] \in R
    BY <1>4, <2>1
  <2>4. i # 1 => i - 1 \in 1 .. n
    OBVIOUS
  <2>5. flat[i] = IF i = 1 THEN parts[i] ELSE h[1 .. (i - 1)] \o parts[i]
    BY <1>3, <2>2, <2>3
  <2> QED
    BY <2>4, <2>5
<1>6. Flat(flat)
  <2>1. flat = [i \in 1 .. n |-> flat[i]]
    OBVIOUS
  <2> HIDE DEF flat
  <2>2. flat = [i \in 1 .. n |-> IF i = 1 THEN parts[i] ELSE flat[i - 1] \o parts[i]]
    BY <1>5, <2>1
  <2> QED
    BY <1>0, <2>2, Zenon
<1> HIDE DEF flat
<1> DEFINE g == CHOOSE g : Flat(g)
<1>7. Flat(g)
  BY <1>6, Zenon
<1>8. n # 0 => FlattenSeq(parts) = g[n]
  <2>1. FlattenSeq(parts) = IF Len(parts) = 0 THEN parts ELSE g[Len(parts)]
    BY Zenon DEF FlattenSeq
  <2> HIDE DEF g
  <2> QED
    BY <1>0, <2>1
<1> HIDE DEF g
<1>9. \A i \in 1 .. n : g[i] = IF i = 1 THEN parts[i] ELSE g[i - 1] \o parts[i]
  BY <1>0, <1>7
<1> DEFINE f == [k \in 0 .. n |-> IF k = 0 THEN <<>> ELSE g[k]]
<1>10. f[0] = <<>> /\ FlattenSeq(parts) = f[n]
  <2>1. CASE n = 0
    <3>1. FlattenSeq(parts) = <<>>
      BY <1>0, <2>1 DEF FlattenSeq
    <3> QED
      BY <2>1, <3>1
  <2>2. CASE n # 0
    <3>1. f[n] = g[n] /\ f[0] = <<>>
      BY <2>2
    <3> QED
      BY <1>8, <2>2, <3>1, Zenon
  <2> QED
    BY <2>1, <2>2
<1>11. ASSUME NEW k \in 1 .. n
       PROVE  f[k] = f[k - 1] \o parts[k]
  <2>1. f[k] = IF k = 1 THEN parts[k] ELSE g[k - 1] \o parts[k]
    BY <1>9
  <2>2. CASE k = 1
    <3>1. f[k - 1] = <<>> /\ f[k] = parts[k]
      BY <2>1, <2>2
    <3>2. parts[k] \in Seq(S)
      BY <1>0
    <3> QED
      BY <3>1, <3>2, ConcatEmptySeq
  <2>3. CASE k # 1
    <3>1. f[k - 1] = g[k - 1]
      BY <2>3
    <3> QED
      BY <2>1, <2>3, <3>1
  <2> QED
    BY <2>2, <2>3
<1> HIDE DEF f
<1> DEFINE P == {k \in 0 .. n : f[k] \in Seq(S)}
<1>12. 0 \in P
  <2>1. f[0] \in Seq(S) /\ 0 \in 0 .. n
    BY <1>10
  <2> QED
    BY <2>1
<1>13. ASSUME NEW k \in 1 .. n, k - 1 \in P
       PROVE  k \in P
  <2>1. f[k - 1] \in Seq(S) /\ parts[k] \in Seq(S)
    BY <1>0, <1>13
  <2>2. f[k - 1] \o parts[k] \in Seq(S)
    BY <2>1
  <2>3. f[k] \in Seq(S)
    BY <1>11, <2>2, Zenon
  <2>4. k \in 0 .. n
    OBVIOUS
  <2> QED
    BY <2>3, <2>4, Zenon
<1> HIDE DEF P
<1>14. \A k \in 0 .. n : k \in P
  BY <1>12, <1>13, UpTo, Zenon
<1>15. \A k \in 0 .. n : f[k] \in Seq(S)
  BY <1>14 DEF P
<1> QED
  BY <1>10, <1>11, <1>15, Zenon DEF Joins

MessageFields == Families \cup {"index", "time"}

(* Where the addresses are among their bytes: behind one another.          *)
Lies(f, addresses, n) ==
    /\ f[0] = <<>> /\ \A k \in 0 .. n : f[k] \in Seq(MessageFields)
    /\ \A k \in 1 .. n : Len(f[k]) = Len(f[k - 1]) + AddrSize(addresses[k])
    /\ \A k \in 1 .. n : f[n][Len(f[k - 1]) + 1] = addresses[k]
    /\ \A k \in 0 .. n : Len(f[k]) <= Len(f[n])

(* Every address begins where those before it end.                         *)
LEMMA AddressesLie ==
  ASSUME NEW n \in Nat, NEW addresses \in [1 .. n -> Families]
  PROVE  \E f : Lies(f, addresses, n) /\ FlattenSeq(AddressBytes(addresses)) = f[n]
<1> DEFINE S == MessageFields
           parts == AddressBytes(addresses)
           size(k) == AddrSize(addresses[k])
<1>1. \A k \in 1 .. n : addresses[k] \in S /\ size(k) \in Nat /\ size(k) > 6
  BY AddrSizeType DEF MessageFields
<1>2. /\ DOMAIN parts = 1 .. n /\ Len(parts) = n /\ (n = 0 => parts = <<>>)
      /\ \A k \in 1 .. n : parts[k] = Bytes(addresses[k], size(k))
  BY DEF AddressBytes
<1> HIDE DEF S, parts, size
<1>3. ASSUME NEW k \in 1 .. n
      PROVE  /\ parts[k] \in Seq(S) /\ Len(parts[k]) = size(k)
             /\ parts[k][1] = addresses[k]
  <2>1. IsBytes(Bytes(addresses[k], size(k)), S, size(k))
    BY <1>1, BytesType
  <2>2. Bytes(addresses[k], size(k))[1] = addresses[k]
    BY <1>1 DEF Bytes
  <2> QED
    BY <1>2, <2>1, <2>2 DEF IsBytes
<1>4. PICK f : /\ f[0] = <<>> /\ FlattenSeq(parts) = f[n]
               /\ \A k \in 1 .. n : f[k] = f[k - 1] \o parts[k]
               /\ \A k \in 0 .. n : f[k] \in Seq(S)
  <2>1. \A k \in 1 .. n : parts[k] \in Seq(S)
    BY <1>3
  <2>2. AreParts(parts, n, S)
    BY <1>2, <2>1, Zenon DEF AreParts
  <2>3. \E f : Joins(f, parts, n, S)
    BY <2>2, Flattened
  <2> QED
    BY <2>3, Zenon DEF Joins
<1>5. ASSUME NEW j \in 1 .. n
      PROVE  /\ Len(f[j - 1]) \in Nat /\ Len(f[j]) = Len(f[j - 1]) + size(j)
             /\ \A i \in 1 .. Len(f[j - 1]) : f[j][i] = f[j - 1][i]
             /\ f[j][Len(f[j - 1]) + 1] = addresses[j]
  <2> DEFINE a == f[j - 1]
             b == parts[j]
  <2>1. /\ a \in Seq(S) /\ b \in Seq(S) /\ f[j] = a \o b
        /\ Len(b) = size(j) /\ b[1] = addresses[j]
    <3>1. j - 1 \in 0 .. n
      OBVIOUS
    <3>2. f[j - 1] \in Seq(S)
      BY <1>4, <3>1
    <3> QED
      BY <1>3, <1>4, <3>2
  <2>2. size(j) \in Nat /\ size(j) > 6
    BY <1>1
  <2> HIDE DEF a, b
  <2>3. /\ Len(a) \in Nat /\ Len(f[j]) = Len(a) + size(j)
        /\ \A i \in 1 .. Len(a) + size(j) : f[j][i] = IF i <= Len(a) THEN a[i] ELSE b[i - Len(a)]
    <3>1. /\ Len(a) \in Nat /\ Len(a \o b) = Len(a) + Len(b)
          /\ \A i \in 1 .. Len(a) + Len(b) :
               (a \o b)[i] = IF i <= Len(a) THEN a[i] ELSE b[i - Len(a)]
      BY <2>1, ConcatProperties, LenProperties
    <3> QED
      BY <2>1, <3>1, Zenon
  <2>4. \A i \in 1 .. Len(a) : f[j][i] = a[i]
    BY <2>2, <2>3
  <2>5. f[j][Len(a) + 1] = b[1]
    <3>1. /\ Len(a) + 1 \in 1 .. Len(a) + size(j) /\ ~ (Len(a) + 1 <= Len(a))
          /\ Len(a) + 1 - Len(a) = 1
      BY <2>2, <2>3
    <3> QED
      BY <2>3, <3>1
  <2> QED
    BY <2>1, <2>3, <2>4, <2>5 DEF a
<1> DEFINE P == {j \in 0 .. n : /\ \A k \in 1 .. j : f[j][Len(f[k - 1]) + 1] = addresses[k]
                                /\ \A k \in 0 .. j : Len(f[k]) <= Len(f[j])}
<1>6. 0 \in P
  <2>1. Len(f[0]) = 0
    BY <1>4
  <2> QED
    BY <2>1
<1>7. ASSUME NEW j \in 1 .. n, j - 1 \in P
      PROVE  j \in P
  <2> DEFINE before == Len(f[j - 1])
  <2>1. /\ before \in Nat /\ Len(f[j]) = before + size(j) /\ size(j) \in Nat /\ size(j) > 6
        /\ \A i \in 1 .. before : f[j][i] = f[j - 1][i]
        /\ f[j][before + 1] = addresses[j]
    BY <1>1, <1>5
  <2>2. /\ \A k \in 1 .. j - 1 : f[j - 1][Len(f[k - 1]) + 1] = addresses[k]
        /\ \A k \in 0 .. j - 1 : Len(f[k]) <= before
    BY <1>7
  <2>3. ASSUME NEW k \in 1 .. j PROVE f[j][Len(f[k - 1]) + 1] = addresses[k]
    <3>1. CASE k = j
      BY <2>1, <3>1
    <3>2. CASE k # j
      <4>1. k \in 1 .. j - 1 /\ k \in 0 .. j - 1 /\ k \in 1 .. n /\ k - 1 \in 0 .. j - 1
        BY <3>2
      <4>2. Len(f[k]) <= before /\ Len(f[k]) = Len(f[k - 1]) + size(k) /\ Len(f[k - 1]) \in Nat
            /\ size(k) \in Nat /\ size(k) > 6
        BY <1>1, <1>5, <2>2, <4>1
      <4> DEFINE l == Len(f[k - 1])
      <4>3. l + 1 \in 1 .. before
        <5>1. l \in Nat /\ l + size(k) <= before
          BY <4>2
        <5> HIDE DEF l, before
        <5> QED
          BY <2>1, <4>2, <5>1
      <4>4. f[j][l + 1] = f[j - 1][l + 1]
        BY <2>1, <4>3
      <4> QED
        BY <2>2, <4>1, <4>4
    <3> QED
      BY <3>1, <3>2
  <2>4. ASSUME NEW k \in 0 .. j PROVE Len(f[k]) <= Len(f[j])
    <3>1. CASE k = j
      BY <2>1, <3>1
    <3>2. CASE k # j
      <4>1. k \in 0 .. j - 1 /\ k \in 0 .. n
        BY <3>2
      <4>2. Len(f[k]) <= before /\ Len(f[k]) \in Nat
        BY <1>4, <2>2, <4>1
      <4> DEFINE l == Len(f[k])
                 after == Len(f[j])
      <4>3. l <= before /\ l \in Nat /\ after = before + size(j)
        BY <2>1, <4>2
      <4> HIDE DEF l, before, after
      <4>4. l <= after
        BY <2>1, <4>3
      <4> QED
        BY <4>4 DEF l, after
    <3> QED
      BY <3>1, <3>2
  <2> QED
    BY <2>3, <2>4
<1> HIDE DEF P
<1>8. n \in P
  <2>1. n \in 0 .. n
    OBVIOUS
  <2> QED
    BY <1>6, <1>7, <2>1, UpTo, Zenon
<1>9. \A k \in 1 .. n : Len(f[k]) = Len(f[k - 1]) + AddrSize(addresses[k])
  BY <1>5 DEF size
<1>10. Lies(f, addresses, n)
  BY <1>4, <1>8, <1>9 DEF P, S, Lies
<1> QED
  BY <1>4, <1>10 DEF parts

(* The reader of the addresses, before it fails.                           *)
Cursor(offset, addresses, ended) ==
    [offset |-> offset, addresses |-> addresses, ended |-> ended, failed |-> FALSE]

(* The reader takes an address that is there.                              *)
LEMMA ReadNext ==
  ASSUME NEW bytes, NEW before, NEW offset, ~ AtTimes(Len(bytes) - offset),
         ~ (Len(bytes) - offset < AddrSize(bytes[offset + 1]))
  PROVE  ReadAddress(bytes, Cursor(offset, before, FALSE)) =
           Cursor(offset + AddrSize(bytes[offset + 1]), Append(before, bytes[offset + 1]), FALSE)
<1> DEFINE r == Cursor(offset, before, FALSE)
<1>1. r.offset = offset /\ r.ended = FALSE
  BY DEF Cursor
<1> HIDE DEF r
<1>2. ReadAddress(bytes, r) =
        [r EXCEPT !.offset = @ + AddrSize(bytes[offset + 1]),
                  !.addresses = Append(@, bytes[offset + 1])]
  BY <1>1, Zenon DEF ReadAddress
<1> QED
  BY <1>2 DEF r, Cursor

(* The reader stops when the times are left.                               *)
LEMMA ReadNoMore ==
  ASSUME NEW bytes, NEW addresses, NEW offset \in Nat, NEW ended, Len(bytes) - offset = 16
  PROVE  ReadAddress(bytes, Cursor(offset, addresses, ended)) = Cursor(offset, addresses, TRUE)
<1> DEFINE r == Cursor(offset, addresses, ended)
<1>1. AtTimes(Len(bytes) - r.offset)
  BY DEF AtTimes, Cursor
<1> HIDE DEF r
<1>2. ReadAddress(bytes, r) = [r EXCEPT !.ended = TRUE]
  BY <1>1, Zenon DEF ReadAddress
<1> QED
  BY <1>2 DEF r, Cursor

(* The first k elements of a sequence.                                     *)
LEMMA FirstAppended ==
  ASSUME NEW T, NEW n \in Nat, NEW a \in [1 .. n -> T], NEW k \in 1 .. n
  PROVE  [i \in 1 .. k |-> a[i]] = Append([i \in 1 .. k - 1 |-> a[i]], a[k])
<1> DEFINE s == [i \in 1 .. k - 1 |-> a[i]]
           t == [i \in 1 .. k |-> a[i]]
           u == Append(s, a[k])
<1>1. \A i \in 1 .. k : a[i] \in T
  OBVIOUS
<1>2. s \in [1 .. k - 1 -> T] /\ t \in [1 .. k -> T] /\ k \in Nat /\ k - 1 \in Nat
  BY <1>1
<1>3. s \in Seq(T) /\ Len(s) = k - 1 /\ t \in Seq(T) /\ Len(t) = k
  BY <1>2
<1>4. /\ \A i \in 1 .. k : t[i] = a[i]
      /\ \A i \in 1 .. k - 1 : s[i] = a[i]
  OBVIOUS
<1> HIDE DEF s, t
<1>5. /\ u \in Seq(T) /\ Len(u) = k
      /\ \A i \in 1 .. k : u[i] = IF i <= k - 1 THEN s[i] ELSE a[k]
  BY <1>1, <1>2, <1>3
<1>6. \A i \in 1 .. k : u[i] = a[i]
  BY <1>4, <1>5
<1> HIDE DEF u
<1>7. t = u
  BY <1>3, <1>4, <1>5, <1>6, SeqEqual
<1> QED
  BY <1>7 DEF s, t, u

(* What read makes of a message with any addresses, in any order of the    *)
(* families.                                                               *)
LEMMA MessageRead ==
  ASSUME NEW m, m.peer \in Families, m.index \in BOOLEAN, NEW n \in 0 .. SystemAddresses,
         m.addresses \in [1 .. n -> Families]
  PROVE  ReadMessage(WriteMessage(m), m.index) =
           [kind |-> "message", peer |-> m.peer, addresses |-> m.addresses,
            times |-> Bytes("time", 16)]
<1> DEFINE S == MessageFields
           addresses == m.addresses
           size == AddrSize(m.peer)
           more == IF m.index THEN 2 ELSE 0
           start == size + more
           pre == Bytes(m.peer, size) \o When(m.index, Bytes("index", 2))
           times == Bytes("time", 16)
           bytes == WriteMessage(m)
<1>1. n \in Nat /\ n <= SystemAddresses /\ SystemAddresses \in Nat
  BY FramingAssumption
<1>2. addresses \in [1 .. n -> Families]
  OBVIOUS
<1> HIDE DEF addresses
<1>3. PICK f : Lies(f, addresses, n) /\ FlattenSeq(AddressBytes(addresses)) = f[n]
  BY <1>1, <1>2, AddressesLie
<1> DEFINE l == Len(f[n])
<1>4. /\ f[0] = <<>> /\ \A k \in 0 .. n : f[k] \in Seq(S) /\ Len(f[k]) \in Nat
      /\ \A k \in 1 .. n : Len(f[k]) = Len(f[k - 1]) + AddrSize(addresses[k])
      /\ \A k \in 1 .. n : f[n][Len(f[k - 1]) + 1] = addresses[k]
      /\ \A k \in 0 .. n : Len(f[k]) <= l
  <2>1. \A k \in 0 .. n : f[k] \in Seq(S)
    BY <1>3 DEF Lies
  <2>2. \A k \in 0 .. n : Len(f[k]) \in Nat
    BY <2>1
  <2> QED
    BY <1>3, <2>1, <2>2 DEF Lies
<1>5. size \in Nat /\ size > 6 /\ start \in Nat /\ start > 6 /\ more \in Nat
  BY AddrSizeType
<1>6. m.peer \in S /\ "index" \in S /\ "time" \in S
  BY DEF MessageFields
<1>7. IsBytes(pre, S, start) /\ pre[1] = m.peer
  <2>1. IsBytes(Bytes(m.peer, size), S, size) /\ Bytes(m.peer, size)[1] = m.peer
    <3>1. IsBytes(Bytes(m.peer, size), S, size)
      BY <1>5, <1>6, BytesType
    <3>2. Bytes(m.peer, size)[1] = m.peer
      BY <1>5 DEF Bytes
    <3> QED
      BY <3>1, <3>2
  <2>2. IsBytes(When(m.index, Bytes("index", 2)), S, more)
    <3>1. 2 \in Nat
      OBVIOUS
    <3>2. IsBytes(Bytes("index", 2), S, 2)
      BY <1>6, <3>1, BytesType
    <3> QED
      BY <3>1, <3>2, Perhaps, Zenon
  <2> DEFINE a == Bytes(m.peer, size)
             b == When(m.index, Bytes("index", 2))
  <2> HIDE DEF a, b, size, more
  <2>3. IsBytes(a \o b, S, size + more)
    BY <1>5, <2>1, <2>2, Behind DEF a, b
  <2>4. (a \o b)[1] = a[1]
    <3>1. a \in Seq(S) /\ b \in Seq(S) /\ Len(a) = size /\ Len(b) = more
      BY <2>1, <2>2 DEF a, b, IsBytes
    <3> QED
      BY <1>5, <3>1
  <2> QED
    BY <2>1, <2>3, <2>4 DEF a, b
<1>8. IsBytes(times, S, 16)
  <2>1. 16 \in Nat
    OBVIOUS
  <2> QED
    BY <1>6, <2>1, BytesType
<1>9. IsBytes(f[n], S, l) /\ l \in Nat
  BY <1>1, <1>4 DEF IsBytes
<1>10. bytes = pre \o f[n] \o times
  BY <1>3, Zenon DEF WriteMessage, AddressBytes, addresses
<1> HIDE DEF S, size, more, start, pre, times, bytes, l
<1>11. IsInThree(bytes, pre, f[n], times, start, l, 16)
  <2>1. 16 \in Nat
    OBVIOUS
  <2>2. IsInThree(pre \o f[n] \o times, pre, f[n], times, start, l, 16)
    BY <1>5, <1>7, <1>8, <1>9, <2>1, InThree, Zenon
  <2> QED
    BY <1>10, <2>2
<1>12. /\ Len(bytes) = start + l + 16 /\ bytes[1] = m.peer
       /\ \A i \in 1 .. l : bytes[start + i] = f[n][i]
       /\ SubSeq(bytes, start + l + 1, start + l + 16) = times
  <2>1. 1 \in 1 .. start
    BY <1>5
  <2> QED
    BY <1>7, <1>11, <2>1, Zenon DEF IsInThree
<1> DEFINE base == Cursor(start, <<>>, FALSE)
           read == ReadAddresses(bytes, base, SystemAddresses)
<1>13. PICK g : /\ g[0] = base /\ read = g[SystemAddresses]
                /\ \A k \in 1 .. SystemAddresses : g[k] = ReadAddress(bytes, g[k - 1])
  <2>1. base \in As(bytes)
    BY <1>5 DEF As, Cursor
  <2> HIDE DEF base
  <2> QED
    BY <1>1, <2>1, Addressing
<1> HIDE DEF read
<1> DEFINE First(k) == [i \in 1 .. k |-> addresses[i]]
           Now(k) == Cursor(start + Len(f[k]), First(k), FALSE)
           After(ended) == Cursor(start + l, addresses, ended)
           P == {k \in 0 .. SystemAddresses :
                   /\ k <= n => g[k] = Now(k)
                   /\ k >= n => \E ended \in BOOLEAN : g[k] = After(ended)}
<1>14. First(0) = <<>> /\ First(n) = addresses
  BY <1>2
<1>15. \A k \in 1 .. n : First(k) = Append(First(k - 1), addresses[k])
  BY <1>1, <1>2, FirstAppended
<1> HIDE DEF First
<1>16. Now(n) = After(FALSE)
  BY <1>14 DEF l
<1>17. 0 \in P
  <2>1. Len(f[0]) = 0 /\ start + 0 = start
    BY <1>4, <1>5
  <2>2. g[0] = Now(0)
    BY <1>13, <1>14, <2>1, Zenon
  <2>3. 0 >= n => n = 0
    BY <1>1
  <2>4. 0 \in 0 .. SystemAddresses
    BY <1>1
  <2> HIDE DEF Now, After
  <2>5. 0 >= n => g[0] = After(FALSE)
    BY <1>16, <2>2, <2>3, Zenon
  <2> QED
    BY <2>2, <2>4, <2>5, Zenon
<1>18. ASSUME NEW k \in 1 .. SystemAddresses, k - 1 \in P
       PROVE  k \in P
  <2>1. g[k] = ReadAddress(bytes, g[k - 1])
    BY <1>13
  <2>2. CASE k <= n
    <3> DEFINE family == addresses[k]
               width == AddrSize(family)
               before == Len(f[k - 1])
               offset == start + before
    <3>1. k \in 1 .. n /\ k - 1 \in 0 .. n /\ k \in 0 .. n /\ k - 1 <= n
      BY <1>1, <2>2
    <3>2. g[k - 1] = Now(k - 1)
      BY <1>18, <3>1, Zenon
    <3>3. /\ before \in Nat /\ Len(f[k]) = before + width /\ Len(f[k]) <= l
          /\ width \in Nat /\ width > 6
      BY <1>4, <3>1, AddrSizeType
    <3>4. f[n][before + 1] = family
      BY <1>4, <3>1
    <3> HIDE DEF family, width, before
    <3>5. before + 1 \in 1 .. l /\ offset \in Nat /\ start + (before + 1) = offset + 1
          /\ start + l + 16 - offset >= width + 16 /\ start + Len(f[k]) = offset + width
      BY <1>5, <1>9, <3>3
    <3>6. bytes[offset + 1] = family
      BY <1>12, <3>4, <3>5
    <3>7. Len(bytes) \in Nat /\ Len(bytes) - offset >= width + 16
      BY <1>5, <1>9, <1>12, <3>5
    <3>8. g[k - 1] = Cursor(offset, First(k - 1), FALSE)
      BY <3>2 DEF before
    <3> HIDE DEF offset
    <3>0. width = AddrSize(family) /\ family = bytes[offset + 1]
      BY <3>6 DEF width
    <3> HIDE DEF First
    <3>9. g[k] = Cursor(offset + width, Append(First(k - 1), family), FALSE)
      <4>1. ReadAddress(bytes, Cursor(offset, First(k - 1), FALSE)) =
              Cursor(offset + width, Append(First(k - 1), family), FALSE)
        <5>1. ~ AtTimes(Len(bytes) - offset) /\ ~ (Len(bytes) - offset < width)
          BY <3>3, <3>5, <3>7 DEF AtTimes
        <5> QED
          BY <3>0, <5>1, ReadNext, Zenon
      <4> QED
        BY <2>1, <3>8, <4>1, Zenon
    <3>10. g[k] = Now(k)
      BY <1>15, <3>1, <3>5, <3>9 DEF family
    <3>11. (k >= n => k = n) /\ k \in 0 .. SystemAddresses
      BY <1>1, <2>2
    <3> HIDE DEF Now, After
    <3>12. k >= n => g[k] = After(FALSE)
      BY <1>16, <3>10, <3>11, Zenon
    <3> QED
      BY <3>10, <3>11, <3>12, Zenon
  <2>3. CASE ~ (k <= n)
    <3>1. k - 1 >= n
      BY <1>1, <2>3
    <3>2. PICK ended \in BOOLEAN : g[k - 1] = After(ended)
      BY <1>18, <3>1
    <3>3. start + l \in Nat /\ Len(bytes) - (start + l) = 16
      BY <1>5, <1>9, <1>12
    <3>4. g[k] = After(TRUE)
      <4>1. ReadAddress(bytes, Cursor(start + l, addresses, ended))
              = Cursor(start + l, addresses, TRUE)
        BY <3>3, ReadNoMore
      <4> QED
        BY <2>1, <3>2, <4>1, Zenon
    <3>5. k \in 0 .. SystemAddresses
      BY <1>1
    <3> HIDE DEF Now, After
    <3> QED
      BY <2>3, <3>4, <3>5, Zenon
  <2> QED
    BY <2>2, <2>3
<1> HIDE DEF P
<1>19. SystemAddresses \in P
  <2>1. SystemAddresses \in 0 .. SystemAddresses
    BY <1>1
  <2> QED
    BY <1>1, <1>17, <1>18, <2>1, UpTo, Zenon
<1>20. PICK ended \in BOOLEAN : read = After(ended)
  BY <1>1, <1>13, <1>19 DEF P
<1>21. /\ read.failed = FALSE /\ read.offset = start + l /\ read.addresses = addresses
       /\ ~ (Len(bytes) - read.offset < 16)
  BY <1>5, <1>9, <1>12, <1>20 DEF Cursor
<1>22. ReadMessage(bytes, m.index) =
         [kind |-> "message", peer |-> bytes[1], addresses |-> read.addresses,
          times |-> SubSeq(bytes, read.offset + 1, read.offset + 16)]
  <2>1. start = AddrSize(bytes[1]) + IF m.index THEN 2 ELSE 0
    BY <1>12 DEF start, size, more
  <2> QED
    BY <1>21, <2>1, Zenon DEF ReadMessage, ReadAddresses, Cursor, read
<1> QED
  BY <1>12, <1>21, <1>22 DEF addresses, times, bytes

-----------------------------------------------------------------------------
(* Pieces are what split made of the content, and nothing else is; what is *)
(* got of a packet or a message is what read made of its bytes.            *)
FramingInv ==
    /\ got.kind = "pieces" =>
         item \in Contents /\ got.pieces = Split(item.length, item.mtu)
    /\ item.kind = "packet" /\ got # Nothing => got = ReadPacket(WritePacket(item))
    /\ item.kind = "message" /\ got # Nothing =>
         got = ReadMessage(WriteMessage(item), item.index)
ItemType == item \in Contents \cup Packets \cup Messages

(* Nothing is read but what was written.                                   *)
LEMMA FramingInvariant ==
  FramingSpec => [](ItemType /\ FramingInv)
<1>1. FramingInit => ItemType /\ FramingInv
  BY DEF FramingInit, ItemType, FramingInv, Nothing
<1>2. ItemType /\ FramingInv /\ [Reads]_framing => ItemType' /\ FramingInv'
  <2> SUFFICES ASSUME ItemType, FramingInv, [Reads]_framing
               PROVE  ItemType' /\ FramingInv'
    OBVIOUS
  <2>1. CASE UNCHANGED framing
    BY <2>1 DEF framing, ItemType, FramingInv
  <2>2. CASE Reads /\ item.kind = "content"
    <3>1. item \in Contents
      BY <2>2 DEF ItemType, Packets, Messages
    <3>2. got' = [kind |-> "pieces", pieces |-> Split(item.length, item.mtu)]
      BY <2>2 DEF Reads
    <3> QED
      BY <2>2, <3>1, <3>2 DEF Reads, ItemType, FramingInv
  <2>3. CASE Reads /\ item.kind # "content"
    <3>1. got'.kind # "pieces"
      <4>1. CASE item.kind = "packet"
        <5>1. got' = ReadPacket(WritePacket(item))
          BY <2>3, <4>1 DEF Reads
        <5> QED
          BY <5>1 DEF ReadPacket, Refused
      <4>2. CASE item.kind = "message"
        <5>1. got' = ReadMessage(WriteMessage(item), item.index)
          BY <2>3, <4>2 DEF Reads
        <5> QED
          BY <5>1 DEF ReadMessage, Refused
      <4> QED
        BY <2>3, <4>1, <4>2 DEF Reads
    <3> QED
      BY <2>3, <3>1 DEF Reads, ItemType, FramingInv
  <2> QED
    BY <2>1, <2>2, <2>3
<1> QED
  BY <1>1, <1>2, PTL DEF FramingSpec

(* packet::split loses no byte, repeats none and makes no empty piece.     *)
THEOREM SplitJoins ==
  FramingSpec => []PiecesJoin
<1>1. ItemType /\ FramingInv => PiecesJoin
  <2> SUFFICES ASSUME FramingInv, got.kind = "pieces" PROVE PiecesJoin
    BY DEF PiecesJoin
  <2>1. /\ item \in Contents /\ Pieces = Split(item.length, item.mtu)
        /\ item.length \in Nat \ {0} /\ item.mtu \in Nat
        /\ item.mtu > PACKET_ADDITIONAL_SIZE + SPLIT_ADDITIONAL_SIZE
    BY FramingAssumption DEF FramingInv, Contents, Pieces
  <2>2. /\ Len(Pieces) \in Nat \ {0} /\ Pieces[1].from = 0
        /\ \A i \in 1 .. Len(Pieces) :
             /\ Pieces[i].length \in Nat \ {0}
             /\ Pieces[i].from + Pieces[i].length =
                  IF i < Len(Pieces) THEN Pieces[i + 1].from ELSE item.length
    BY <2>1, SplitPieces
  <2> HIDE DEF Pieces
  <2> QED
    BY <2>2 DEF PiecesJoin
<1> QED
  BY FramingInvariant, <1>1, PTL

(* No datagram of a piece is longer than the effective MTU, whether the    *)
(* content fits one packet or is split.                                    *)
THEOREM SplitFits ==
  FramingSpec => []PiecesFit
<1>1. ItemType /\ FramingInv => PiecesFit
  <2> SUFFICES ASSUME FramingInv, got.kind = "pieces", NEW i \in DOMAIN Pieces
               PROVE  DatagramSize(PacketFor(i)) <= item.mtu
    BY DEF PiecesFit
  <2>1. /\ item \in Contents /\ Pieces = Split(item.length, item.mtu)
        /\ item.length \in Nat \ {0} /\ item.mtu \in Nat
        /\ item.mtu > PACKET_ADDITIONAL_SIZE + SPLIT_ADDITIONAL_SIZE
    BY FramingAssumption DEF FramingInv, Contents, Pieces
  <2>2. /\ i \in 1 .. Len(Pieces) /\ Pieces[i].length \in Nat
        /\ Pieces[i].length + PACKET_ADDITIONAL_SIZE
            + (IF Len(Pieces) > 1 THEN SPLIT_ADDITIONAL_SIZE ELSE 0) <= item.mtu
    BY <2>1, SplitPieces
  <2> HIDE DEF Pieces
  <2> DEFINE p == PacketFor(i)
  <2>3. /\ p.reliability = 3 /\ p.split = (Len(Pieces) > 1) /\ p.length = Pieces[i].length
        /\ p.split \in BOOLEAN /\ p.length \in Nat
    BY <2>2 DEF PacketFor
  <2> HIDE DEF p
  <2>4. DatagramSize(p) = p.length + PACKET_ADDITIONAL_SIZE
                          + IF p.split THEN SPLIT_ADDITIONAL_SIZE ELSE 0
    BY <2>3, SizeWritten
  <2> QED
    BY <2>2, <2>3, <2>4 DEF p
<1> QED
  BY FramingInvariant, <1>1, PTL

(* The number of bits of the content fits its field; a piece that fits a   *)
(* datagram is far shorter.                                                *)
LengthFits == item.kind = "packet" => item.length <= LongestLength

(* A packet that write has written is read as it was, each field from its  *)
(* own bytes, for every reliability, split or not.                         *)
THEOREM WrittenIsRead ==
  FramingSpec => [](LengthFits => PacketsRead)
<1>1. ItemType /\ FramingInv => (LengthFits => PacketsRead)
  <2> SUFFICES ASSUME ItemType, FramingInv, LengthFits, item.kind = "packet", got # Nothing
               PROVE  PacketsRead
    BY DEF PacketsRead
  <2>1. item \in Packets
    BY DEF ItemType, Contents, Messages
  <2>2. item.reliability \in 0 .. 4 /\ item.split \in BOOLEAN /\ item.length \in Lengths
    BY <2>1 DEF Packets
  <2> DEFINE n == item.length
  <2>3. n \in Nat /\ n # 0 /\ n <= LongestLength
    BY <2>2, FramingAssumption DEF LengthFits
  <2> HIDE DEF n
  <2>4. n \in 1 .. LongestLength
    BY <2>3 DEF LongestLength
  <2>5. got = [kind |-> "packet", reliability |-> item.reliability, split |-> item.split,
               fields |-> PacketFields(item), content |-> Bytes("content", item.length)]
    BY <2>2, <2>4, PacketRead, Zenon DEF FramingInv, n
  <2> QED
    BY <2>5 DEF PacketsRead
<1> QED
  BY FramingInvariant, <1>1, PTL

(* However many addresses a message holds and of whichever families, they  *)
(* and the times are read from their own bytes, with the index in front of *)
(* them and without.                                                       *)
THEOREM MessageIsRead ==
  FramingSpec => []MessagesRead
<1>1. ItemType /\ FramingInv => MessagesRead
  <2> SUFFICES ASSUME ItemType, FramingInv, item.kind = "message", got # Nothing
               PROVE  MessagesRead
    BY DEF MessagesRead
  <2>1. item \in Messages
    BY DEF ItemType, Contents, Packets
  <2>2. item.peer \in Families /\ item.index \in BOOLEAN /\ item.addresses \in AddressLists
    BY <2>1 DEF Messages
  <2>3. PICK n \in 0 .. SystemAddresses : item.addresses \in [1 .. n -> Families]
    BY <2>2 DEF AddressLists
  <2>4. got = [kind |-> "message", peer |-> item.peer, addresses |-> item.addresses,
               times |-> Bytes("time", 16)]
    BY <2>2, <2>3, MessageRead, Zenon DEF FramingInv
  <2> QED
    BY <2>4 DEF MessagesRead
<1> QED
  BY FramingInvariant, <1>1, PTL
=============================================================================
