------------------------ MODULE DatagramWindow_proofs ------------------------
(***************************************************************************)
(* Theorems of DatagramWindow, for a sequence space of any size, any       *)
(* arrival times and any delays: the loops of shift and missing compute    *)
(* what WindowOps says of them, and the window keeps its gap at the lower  *)
(* end and asks for no number twice.                                       *)
(***************************************************************************)
EXTENDS DatagramWindow, WellFoundedInduction, NaturalsInduction, TLAPS

USE SeqEndAssumption, MaxWindowAssumption, WindowBounds

-----------------------------------------------------------------------------
(* Induction over an interval, from the least number of a set.             *)

LEMMA LeastNumber ==
  ASSUME NEW T \in SUBSET Nat, T # {}
  PROVE  \E x \in T : \A y \in T : x <= y
<1>1. PICK x \in T : \A y \in T : ~ (<<y, x>> \in OpToRel(<, Nat))
  BY WFMin, NatLessThanWellFounded, Zenon
<1>2. \A y \in T : ~ (y < x)
  BY <1>1 DEF OpToRel
<1> QED
  BY <1>2

(* The loops count down: what holds at b, and at i when it holds at i + 1, *)
(* holds from a to b.                                                      *)
LEMMA Downward ==
  ASSUME NEW a \in Nat, NEW b \in Nat, a <= b, NEW S, b \in S,
         \A i \in a .. (b - 1) : i + 1 \in S => i \in S
  PROVE  \A i \in a .. b : i \in S
<1> DEFINE T == {n \in Nat : n <= b - a /\ b - n \notin S}
<1>1. CASE T = {}
  <2> SUFFICES ASSUME NEW i \in a .. b PROVE i \in S
    OBVIOUS
  <2>1. b - i \in Nat /\ b - i <= b - a /\ b - (b - i) = i
    OBVIOUS
  <2>2. \A n \in Nat : n <= b - a => b - n \in S
    BY <1>1
  <2>3. b - (b - i) \in S
    BY <2>1, <2>2
  <2> QED
    BY <2>1, <2>3
<1>2. CASE T # {}
  <2>1. PICK n \in T : \A y \in T : n <= y
    BY <1>2, LeastNumber
  <2>2. n \in Nat /\ n <= b - a /\ b - n \notin S
    BY <2>1
  <2>3. n # 0
    BY <2>2
  <2>4. n - 1 \in Nat /\ n - 1 <= b - a /\ ~ (n <= n - 1)
    BY <2>2, <2>3
  <2>5. b - (n - 1) \in S
    BY <2>1, <2>4
  <2>6. b - n \in a .. (b - 1) /\ (b - n) + 1 = b - (n - 1)
    BY <2>2, <2>3
  <2> QED
    BY <2>2, <2>5, <2>6
<1> QED
  BY <1>1, <1>2

(* The greatest number of a set that is bounded.                           *)
LEMMA GreatestNumber ==
  ASSUME NEW b \in Nat, NEW T \in SUBSET (0 .. b), T # {}
  PROVE  \E x \in T : \A y \in T : y <= x
<1> DEFINE M == {n \in Nat : b - n \in T}
<1>1. PICK t \in T : TRUE
  OBVIOUS
<1>2. b - t \in Nat /\ b - (b - t) = t
  BY <1>1
<1>3. b - t \in M
  BY <1>1, <1>2
<1>4. PICK n \in M : \A m \in M : n <= m
  BY <1>3, LeastNumber
<1>5. b - n \in T /\ n \in Nat
  BY <1>4
<1>6. ASSUME NEW y \in T PROVE y <= b - n
  <2>1. b - y \in Nat /\ b - (b - y) = y
    OBVIOUS
  <2>2. b - y \in M
    BY <2>1
  <2>3. n <= b - y
    BY <2>2, <1>4
  <2> QED
    BY <2>1, <2>3, <1>5
<1> QED
  BY <1>5, <1>6

-----------------------------------------------------------------------------
(* The loop of shift.                                                      *)

(* A loop that starts at an index that is there goes on as the loop that   *)
(* starts at the next one; otherwise it stops where it is.                 *)
LEMMA RunEndsUnfold ==
  ASSUME NEW low \in Nat, NEW high \in Nat, NEW keys
  PROVE  /\ low < high /\ low \in keys =>
               RunEnds(low, high, keys) = RunEnds(low + 1, high, keys)
         /\ ~ (low < high /\ low \in keys) => RunEnds(low, high, keys) = {low}
<1>1. ASSUME low < high, low \in keys
      PROVE  RunEnds(low, high, keys) = RunEnds(low + 1, high, keys)
  <2>1. ASSUME NEW e \in RunEnds(low, high, keys)
        PROVE  e \in RunEnds(low + 1, high, keys)
    BY <1>1, <2>1 DEF RunEnds
  <2>2. ASSUME NEW e \in RunEnds(low + 1, high, keys)
        PROVE  e \in RunEnds(low, high, keys)
    BY <1>1, <2>2 DEF RunEnds
  <2> QED
    BY <2>1, <2>2
<1>2. ASSUME ~ (low < high /\ low \in keys)
      PROVE  RunEnds(low, high, keys) = {low}
  BY <1>2 DEF RunEnds
<1> QED
  BY <1>1, <1>2

(* The loop computes what RunEnds describes, and nothing else would do.    *)
LEMMA ShiftEndIsRunEnd ==
  ASSUME NEW high \in 0 .. (SeqEnd - 1), lowest \in 0 .. (SeqEnd - 1), NEW q
  PROVE  RunEnds(lowest, high, DOMAIN q) = {ShiftEnd(high, q)}
<1> DEFINE keys == DOMAIN q
           ends(i) == RunEnds(i, high, keys)
           Loop(f) == f = [i \in 0 .. SeqEnd |->
                             IF i < high /\ i \in keys THEN f[i + 1] ELSE i]
           g == CHOOSE f : Loop(f)
<1>0. SeqEnd \in Nat /\ high \in Nat /\ high < SeqEnd
  OBVIOUS
<1>1. ASSUME NEW i \in 0 .. SeqEnd
      PROVE  /\ i < high /\ i \in keys => ends(i) = ends(i + 1) /\ i + 1 \in 0 .. SeqEnd
             /\ ~ (i < high /\ i \in keys) => ends(i) = {i}
  BY <1>0, RunEndsUnfold
<1> HIDE DEF ends, keys
<1>2. \A i \in 0 .. SeqEnd : \E e : ends(i) = {e}
  <2> DEFINE S == {i \in 0 .. SeqEnd : \E e : ends(i) = {e}}
  <2>1. SeqEnd \in S
    <3>1. SeqEnd \in 0 .. SeqEnd /\ ~ (SeqEnd < high)
      BY <1>0
    <3>2. ends(SeqEnd) = {SeqEnd}
      BY <1>1, <3>1
    <3> QED
      BY <3>1, <3>2
  <2>2. ASSUME NEW i \in 0 .. (SeqEnd - 1), i + 1 \in S PROVE i \in S
    <3>1. i \in 0 .. SeqEnd
      BY <1>0
    <3>2. PICK e : ends(i + 1) = {e}
      BY <2>2
    <3>3. ends(i) \in {{e}, {i}}
      BY <1>1, <3>1, <3>2
    <3> QED
      BY <3>1, <3>3
  <2> HIDE DEF S
  <2>3. \A i \in 0 .. SeqEnd : i \in S
    BY <1>0, <2>1, <2>2, Downward
  <2> QED
    BY <2>3 DEF S
<1>3. \E f : Loop(f)
  <2> DEFINE h == [i \in 0 .. SeqEnd |-> CHOOSE e : ends(i) = {e}]
             k == [i \in 0 .. SeqEnd |-> IF i < high /\ i \in keys THEN h[i + 1] ELSE i]
  <2>1. ASSUME NEW i \in 0 .. SeqEnd PROVE ends(i) = {h[i]}
    BY <1>2
  <2>2. h = [i \in 0 .. SeqEnd |-> h[i]]
    OBVIOUS
  <2> HIDE DEF h
  <2>3. ASSUME NEW i \in 0 .. SeqEnd PROVE h[i] = k[i]
    <3>1. CASE i < high /\ i \in keys
      <4>1. i + 1 \in 0 .. SeqEnd /\ ends(i) = ends(i + 1)
        BY <1>1, <3>1
      <4>2. {h[i]} = {h[i + 1]}
        BY <2>1, <4>1
      <4> QED
        BY <4>2, <3>1
    <3>2. CASE ~ (i < high /\ i \in keys)
      <4>1. {h[i]} = {i}
        BY <1>1, <2>1, <3>2
      <4> QED
        BY <4>1, <3>2
    <3> QED
      BY <3>1, <3>2
  <2>4. h = k
    BY <2>2, <2>3
  <2> QED
    BY <2>4
<1>4. Loop(g)
  BY <1>3
<1> HIDE DEF g
<1>5. ASSUME NEW i \in 0 .. SeqEnd
      PROVE  g[i] = IF i < high /\ i \in keys THEN g[i + 1] ELSE i
  BY <1>4
<1>6. \A i \in 0 .. SeqEnd : ends(i) = {g[i]}
  <2> DEFINE S == {i \in 0 .. SeqEnd : ends(i) = {g[i]}}
  <2>1. SeqEnd \in S
    <3>1. SeqEnd \in 0 .. SeqEnd /\ ~ (SeqEnd < high)
      BY <1>0
    <3> QED
      BY <1>1, <1>5, <3>1
  <2>2. ASSUME NEW i \in 0 .. (SeqEnd - 1), i + 1 \in S PROVE i \in S
    <3>1. i \in 0 .. SeqEnd /\ ends(i + 1) = {g[i + 1]}
      BY <1>0, <2>2
    <3>2. CASE i < high /\ i \in keys
      <4>1. ends(i) = ends(i + 1) /\ g[i] = g[i + 1]
        BY <1>1, <1>5, <3>1, <3>2
      <4> QED
        BY <3>1, <4>1
    <3>3. CASE ~ (i < high /\ i \in keys)
      <4>1. ends(i) = {i} /\ g[i] = i
        BY <1>1, <1>5, <3>1, <3>3
      <4> QED
        BY <3>1, <4>1
    <3> QED
      BY <3>2, <3>3
  <2> HIDE DEF S
  <2>3. \A i \in 0 .. SeqEnd : i \in S
    BY <1>0, <2>1, <2>2, Downward
  <2> QED
    BY <2>3 DEF S
<1>7. ShiftEnd(high, q) = g[lowest]
  BY DEF ShiftEnd, g, keys
<1>8. lowest \in 0 .. SeqEnd
  BY <1>0
<1> QED
  BY <1>6, <1>7, <1>8 DEF ends, keys

-----------------------------------------------------------------------------
(* The loop of missing.                                                    *)

(* What it has found when it has come down to index i: whether an index    *)
(* from i on has waited for the delay, and those that are absent below     *)
(* such an index, which it marks.                                          *)
Overdue(high, q, since, i) ==
    \E j \in DOMAIN q : i <= j /\ j < high /\ now - q[j] >= since
Absent(high, q, since, i) ==
    {k \in i .. (high - 1) : k \notin DOMAIN q /\ Overdue(high, q, since, k)}
Marked(q, listed) ==
    [i \in DOMAIN q \cup listed |-> IF i \in DOMAIN q THEN q[i] ELSE LongAgo]
Found(high, q, since, i) ==
    [late |-> Overdue(high, q, since, i), listed |-> Absent(high, q, since, i),
     queue |-> Marked(q, Absent(high, q, since, i))]

(* One turn more.                                                          *)
LEMMA LookAtFound ==
  ASSUME NEW high \in Nat, NEW q, DOMAIN q \subseteq Nat, NEW since,
         NEW i \in Nat, i < high
  PROVE  LookAt(Found(high, q, since, i + 1), i, since) = Found(high, q, since, i)
<1> DEFINE above == Absent(high, q, since, i + 1)
           here == Absent(high, q, since, i)
           wasLate == Overdue(high, q, since, i + 1)
           isLate == Overdue(high, q, since, i)
           r == Found(high, q, since, i + 1)
<1>1. wasLate \in BOOLEAN /\ isLate \in BOOLEAN
  BY DEF Overdue
<1>2. i \notin above /\ above \subseteq Nat
  BY DEF Absent
<1>3. wasLate => isLate
  BY DEF Overdue
<1>4. isLate <=> wasLate \/ (i \in DOMAIN q /\ now - q[i] >= since)
  BY DEF Overdue
<1>5. here = IF i \notin DOMAIN q /\ wasLate THEN above \cup {i} ELSE above
  <2>1. ASSUME NEW k \in i .. (high - 1) PROVE k = i \/ k \in (i + 1) .. (high - 1)
    OBVIOUS
  <2>2. \A k \in (i + 1) .. (high - 1) : k \in i .. (high - 1)
    OBVIOUS
  <2>3. i \in i .. (high - 1)
    OBVIOUS
  <2>4. i \notin DOMAIN q => (isLate <=> wasLate)
    BY <1>4
  <2>5. \A k : k \in here <=> k \in above \/ (k = i /\ i \notin DOMAIN q /\ wasLate)
    BY <2>1, <2>2, <2>3, <2>4 DEF Absent
  <2> QED
    BY <2>5
<1>6. /\ r.late = wasLate /\ r.listed = above /\ r.queue = Marked(q, above)
      /\ DOMAIN r.queue = DOMAIN q \cup above
  BY DEF Found, Marked
<1>7. i \in DOMAIN r.queue <=> i \in DOMAIN q
  BY <1>2, <1>6
<1> HIDE DEF above, here, wasLate, isLate
<1>8. CASE i \in DOMAIN q
  <2>1. r.queue[i] = q[i]
    BY <1>6, <1>8 DEF Marked
  <2>2. (wasLate \/ now - q[i] >= since) = isLate
    BY <1>1, <1>4, <1>8
  <2>3. LookAt(r, i, since) = [r EXCEPT !.late = isLate]
    BY <1>6, <1>7, <1>8, <2>1, <2>2 DEF LookAt
  <2>4. here = above
    BY <1>5, <1>8
  <2> QED
    BY <2>3, <2>4 DEF Found, above, here, isLate, wasLate
<1>9. CASE i \notin DOMAIN q /\ wasLate
  <2>1. here = above \cup {i} /\ isLate = wasLate
    BY <1>1, <1>3, <1>5, <1>9
  <2>2. Inserted(Marked(q, above), i, LongAgo) = Marked(q, here)
    <3>1. DOMAIN q \cup above \cup {i} = DOMAIN q \cup here
      BY <2>1
    <3>2. \A k \in DOMAIN q \cup here :
             (IF k = i THEN LongAgo ELSE Marked(q, above)[k])
               = (IF k \in DOMAIN q THEN q[k] ELSE LongAgo)
      BY <1>9, <2>1 DEF Marked
    <3> QED
      BY <3>1, <3>2 DEF Marked, Inserted
  <2>3. LookAt(r, i, since) = [r EXCEPT !.listed = above \cup {i},
                                        !.queue = Inserted(Marked(q, above), i, LongAgo)]
    BY <1>6, <1>7, <1>9 DEF LookAt
  <2>4. LookAt(r, i, since) = [r EXCEPT !.listed = here, !.queue = Marked(q, here)]
    BY <2>1, <2>2, <2>3
  <2> QED
    BY <2>1, <2>4 DEF Found, above, here, isLate, wasLate
<1>10. CASE i \notin DOMAIN q /\ ~ wasLate
  <2>1. here = above /\ isLate = wasLate
    BY <1>1, <1>4, <1>5, <1>10
  <2>2. LookAt(r, i, since) = r
    BY <1>6, <1>7, <1>10 DEF LookAt
  <2> QED
    BY <2>1, <2>2 DEF Found, above, here, isLate, wasLate
<1> QED
  BY <1>8, <1>9, <1>10

(* The loop finds everything from `lowest` on.                             *)
LEMMA MissingIsFound ==
  ASSUME NEW high \in 0 .. (SeqEnd - 1), lowest \in 0 .. (SeqEnd - 1),
         NEW q, DOMAIN q \subseteq Nat, q = [i \in DOMAIN q |-> q[i]], NEW since
  PROVE  Missing(high, q, since) = Found(high, q, since, lowest)
<1> DEFINE top == IF high < lowest THEN lowest ELSE high
           at(i) == Found(high, q, since, i)
           start == [late |-> FALSE, listed |-> {}, queue |-> q]
           Loop(f) == f = [i \in lowest .. top |->
                             IF i >= high THEN start ELSE LookAt(f[i + 1], i, since)]
           g == CHOOSE f : Loop(f)
<1>0. /\ lowest \in Nat /\ high \in Nat /\ top \in Nat /\ lowest <= top /\ high <= top
  OBVIOUS
<1>1. ASSUME NEW i \in lowest .. top, i >= high PROVE at(i) = start
  <2>1. ~ Overdue(high, q, since, i) /\ Overdue(high, q, since, i) \in BOOLEAN
    BY <1>0, <1>1 DEF Overdue
  <2>2. Absent(high, q, since, i) = {}
    BY <1>0, <1>1 DEF Absent
  <2>3. Marked(q, {}) = q
    BY DEF Marked
  <2> QED
    BY <2>1, <2>2, <2>3 DEF Found
<1>2. ASSUME NEW i \in lowest .. top, i < high
      PROVE  at(i) = LookAt(at(i + 1), i, since) /\ i + 1 \in lowest .. top
  <2>1. i \in Nat /\ i + 1 \in lowest .. top
    BY <1>0, <1>2
  <2> QED
    BY <1>0, <1>2, <2>1, LookAtFound
<1> HIDE DEF at, start, top
<1>3. \E f : Loop(f)
  <2> DEFINE h == [i \in lowest .. top |-> at(i)]
             k == [i \in lowest .. top |->
                     IF i >= high THEN start ELSE LookAt(h[i + 1], i, since)]
  <2>1. ASSUME NEW i \in lowest .. top PROVE h[i] = k[i]
    <3>1. CASE i >= high
      BY <1>1, <3>1
    <3>2. CASE i < high
      <4>1. at(i) = LookAt(at(i + 1), i, since) /\ i + 1 \in lowest .. top
        BY <1>2, <3>2
      <4>2. ~ (i >= high)
        BY <1>0, <3>2
      <4>3. k[i] = LookAt(h[i + 1], i, since)
        BY <4>2
      <4>4. h[i] = at(i) /\ h[i + 1] = at(i + 1)
        BY <4>1
      <4> QED
        BY <4>1, <4>3, <4>4
    <3> QED
      BY <1>0, <3>1, <3>2
  <2>2. h = k
    BY <2>1
  <2> QED
    BY <2>2
<1>4. Loop(g)
  BY <1>3
<1> HIDE DEF g
<1>5. ASSUME NEW i \in lowest .. top
      PROVE  g[i] = IF i >= high THEN start ELSE LookAt(g[i + 1], i, since)
  BY <1>4
<1>6. \A i \in lowest .. top : g[i] = at(i)
  <2> DEFINE S == {i \in lowest .. top : g[i] = at(i)}
  <2>1. top \in S
    <3>1. top \in lowest .. top /\ top >= high
      BY <1>0
    <3> QED
      BY <1>1, <1>5, <3>1
  <2>2. ASSUME NEW i \in lowest .. (top - 1), i + 1 \in S PROVE i \in S
    <3>1. i \in lowest .. top /\ g[i + 1] = at(i + 1)
      BY <1>0, <2>2
    <3>2. CASE i >= high
      BY <1>1, <1>5, <3>1, <3>2
    <3>3. CASE i < high
      <4>1. at(i) = LookAt(at(i + 1), i, since)
        BY <1>2, <3>1, <3>3
      <4>2. ~ (i >= high)
        BY <1>0, <3>3
      <4>3. g[i] = LookAt(g[i + 1], i, since)
        BY <1>5, <3>1, <4>2
      <4> QED
        BY <3>1, <4>1, <4>3
    <3> QED
      BY <1>0, <3>2, <3>3
  <2> HIDE DEF S
  <2>3. \A i \in lowest .. top : i \in S
    BY <1>0, <2>1, <2>2, Downward
  <2> QED
    BY <2>3 DEF S
<1>7. Missing(high, q, since) = g[lowest]
  BY DEF Missing, g, top, start
<1>8. lowest \in lowest .. top
  BY <1>0
<1> QED
  BY <1>6, <1>7, <1>8 DEF at

(* What is absent below the greatest overdue index is one of the lists     *)
(* that WindowOps allows for.                                              *)
LEMMA AbsentIsMissing ==
  ASSUME NEW high \in Nat, NEW low \in Nat, NEW q, DOMAIN q \subseteq Nat, NEW since
  PROVE  Absent(high, q, since, low) \in MissingLists(low, high, DOMAIN q)
<1> DEFINE late == {j \in DOMAIN q : low <= j /\ j < high /\ now - q[j] >= since}
<1>1. CASE late = {}
  <2>1. Absent(high, q, since, low) = {}
    BY <1>1 DEF Absent, Overdue
  <2> QED
    BY <2>1 DEF MissingLists
<1>2. CASE late # {}
  <2>1. late \in SUBSET (0 .. high)
    OBVIOUS
  <2>2. PICK top \in late : \A j \in late : j <= top
    BY <1>2, <2>1, GreatestNumber
  <2>3. /\ top \in DOMAIN q /\ low <= top /\ top < high /\ now - q[top] >= since
        /\ \A j \in DOMAIN q : low <= j /\ j < high /\ now - q[j] >= since => j <= top
    BY <2>2
  <2> HIDE DEF late
  <2>4. ASSUME NEW k \in low .. (high - 1), k \notin DOMAIN q
        PROVE  Overdue(high, q, since, k) <=> k \in low .. (top - 1)
    BY <2>3, <2>4 DEF Overdue
  <2>5. \A k \in low .. (top - 1) : k \in low .. (high - 1)
    BY <2>3
  <2>6. Absent(high, q, since, low) = (low .. (top - 1)) \ DOMAIN q
    BY <2>4, <2>5 DEF Absent
  <2> QED
    BY <2>3, <2>6 DEF MissingLists
<1> QED
  BY <1>1, <1>2

-----------------------------------------------------------------------------
(* One call of receive_datagram.                                           *)

Keys(index) == DOMAIN queue \cup {index}
High(index) == HighestWith(highest, index)
Arrived(index) == Inserted(queue, index, now)

(* What the call does, said without the loops.                             *)
Outcome(index, since) ==
    /\ highest' = High(index) /\ now' = now /\ asked' = asked \cup missing
    /\ missing' = IF lowest \in Keys(index) /\ lowest < High(index) THEN {}
                  ELSE Absent(High(index), Arrived(index), since, lowest)
    /\ lowest' \in RunEnds(lowest, High(index), Keys(index) \cup missing')
    /\ DOMAIN queue' = {i \in Keys(index) \cup missing' : i >= lowest'}
    /\ queue' = [i \in DOMAIN queue' |-> queue'[i]]
    /\ \A i \in DOMAIN queue' :
          queue'[i] = IF i \in Keys(index) THEN Arrived(index)[i] ELSE LongAgo

LEMMA ReceiveOutcome ==
  ASSUME Typed, NEW index \in 0 .. MaxIndex, NEW since, Receive(index, since)
  PROVE  Outcome(index, since)
<1> DEFINE high == High(index)
           keys == Keys(index)
           q == Arrived(index)
           absent == Absent(high, q, since, lowest)
           marked == Marked(q, absent)
<1>1. /\ lowest \in 0 .. (SeqEnd - 1) /\ highest \in 0 .. (SeqEnd - 1)
      /\ index \in 0 .. (SeqEnd - 1)
  BY DEF Typed
<1>2. high \in 0 .. (SeqEnd - 1)
  BY <1>1 DEF High, HighestWith, Uint24
<1>3. high = IF index + 1 > highest THEN Uint24(index + 1) ELSE highest
  BY <1>1 DEF High, HighestWith
<1>4. DOMAIN q = keys /\ keys \subseteq Nat /\ q = [i \in DOMAIN q |-> q[i]]
  BY <1>1 DEF Arrived, Inserted, Keys, Typed
<1>5. Missing(high, q, since) = Found(high, q, since, lowest)
  BY <1>1, <1>2, <1>4, MissingIsFound
<1>6. /\ Missing(high, q, since).listed = absent
      /\ Missing(high, q, since).queue = marked
  BY <1>5 DEF Found
<1>7. DOMAIN marked = keys \cup absent
  BY <1>4 DEF Marked
<1>8. /\ RunEnds(lowest, high, keys) = {ShiftEnd(high, q)}
      /\ RunEnds(lowest, high, keys \cup absent) = {ShiftEnd(high, marked)}
  BY <1>1, <1>2, <1>4, <1>7, ShiftEndIsRunEnd
<1>9. ShiftEnd(high, q) # lowest <=> lowest \in keys /\ lowest < high
  <2>1. CASE lowest \in keys /\ lowest < high
    <3>1. ShiftEnd(high, q) \in RunEnds(lowest + 1, high, keys)
      BY <1>1, <1>2, <1>8, <2>1, RunEndsUnfold
    <3>2. ShiftEnd(high, q) >= lowest + 1
      BY <3>1, <1>1, <1>2 DEF RunEnds
    <3> QED
      BY <3>2, <2>1, <1>1
  <2>2. CASE ~ (lowest \in keys /\ lowest < high)
    <3>1. lowest \in Nat /\ high \in Nat /\ ~ (lowest < high /\ lowest \in keys)
      BY <1>1, <1>2, <2>2
    <3>2. RunEnds(lowest, high, keys) = {lowest}
      BY <3>1, RunEndsUnfold
    <3> QED
      BY <3>2, <1>8, <2>2
  <2> QED
    BY <2>1, <2>2
<1>10. /\ highest' = high /\ now' = now /\ asked' = asked \cup missing
       /\ IF ShiftEnd(high, q) # lowest
          THEN missing' = {} /\ Shifted(high, q, {})
          ELSE missing' = absent /\ Shifted(high, marked, absent)
  BY <1>3, <1>6 DEF Receive, Arrived
<1> HIDE DEF high, keys, q, absent, marked
<1>11. CASE lowest \in keys /\ lowest < high
  <2>1. missing' = {} /\ keys \cup missing' = keys
    BY <1>9, <1>10, <1>11
  <2>2. /\ lowest' = ShiftEnd(high, q)
        /\ queue' = [i \in {j \in keys : j >= lowest'} |-> q[i]]
    BY <1>4, <1>9, <1>10, <1>11 DEF Shifted
  <2>3. /\ DOMAIN queue' = {i \in keys : i >= lowest'}
        /\ queue' = [i \in DOMAIN queue' |-> queue'[i]]
        /\ \A i \in DOMAIN queue' : queue'[i] = q[i] /\ i \in keys
    BY <2>2
  <2> QED
    BY <1>8, <1>10, <1>11, <2>1, <2>2, <2>3 DEF Outcome, high, keys, q
<1>12. CASE ~ (lowest \in keys /\ lowest < high)
  <2>1. missing' = absent
    BY <1>9, <1>10, <1>12
  <2>2. /\ lowest' = ShiftEnd(high, marked)
        /\ queue' = [i \in {j \in keys \cup absent : j >= lowest'} |-> marked[i]]
    BY <1>7, <1>9, <1>10, <1>12 DEF Shifted
  <2>3. /\ DOMAIN queue' = {i \in keys \cup absent : i >= lowest'}
        /\ queue' = [i \in DOMAIN queue' |-> queue'[i]]
        /\ \A i \in DOMAIN queue' : queue'[i] = marked[i]
    BY <2>2
  <2>4. \A i \in keys \cup absent : marked[i] = IF i \in keys THEN q[i] ELSE LongAgo
    BY <1>4 DEF marked, Marked
  <2>5. lowest' \in RunEnds(lowest, high, keys \cup missing')
    BY <1>8, <2>1, <2>2
  <2> QED
    BY <1>10, <1>12, <2>1, <2>3, <2>4, <2>5 DEF Outcome, high, keys, q, absent
<1> QED
  BY <1>11, <1>12

(* The bounds of what a call leaves behind.                                *)
LEMMA OutcomeBounds ==
  ASSUME Typed, NEW index \in 0 .. MaxIndex, NEW since, Outcome(index, since)
  PROVE  /\ index \in 0 .. (SeqEnd - 1) /\ High(index) \in 0 .. (SeqEnd - 1)
         /\ Keys(index) \subseteq 0 .. (SeqEnd - 1)
         /\ missing' \subseteq 0 .. (SeqEnd - 1)
         /\ \A i \in missing' : i >= lowest /\ i \notin Keys(index)
         /\ lowest' \in 0 .. (SeqEnd - 1) /\ lowest <= lowest'
<1>1. /\ lowest \in 0 .. (SeqEnd - 1) /\ highest \in 0 .. (SeqEnd - 1)
      /\ index \in 0 .. (SeqEnd - 1) /\ Keys(index) \subseteq 0 .. (SeqEnd - 1)
  BY DEF Typed, Keys
<1>2. High(index) \in 0 .. (SeqEnd - 1)
  BY <1>1 DEF High, HighestWith, Uint24
<1>3. missing' \subseteq Absent(High(index), Arrived(index), since, lowest)
  BY DEF Outcome
<1>4. DOMAIN Arrived(index) = Keys(index)
  BY DEF Arrived, Inserted, Keys
<1>5. \A i \in missing' : i \in lowest .. (High(index) - 1) /\ i \notin Keys(index)
  BY <1>3, <1>4 DEF Absent
<1>6. /\ missing' \subseteq 0 .. (SeqEnd - 1)
      /\ \A i \in missing' : i >= lowest /\ i \notin Keys(index)
  BY <1>1, <1>2, <1>5
<1>7. lowest' \in RunEnds(lowest, High(index), Keys(index) \cup missing')
  BY DEF Outcome
<1>8. lowest' \in 0 .. (SeqEnd - 1) /\ lowest <= lowest'
  BY <1>1, <1>2, <1>7 DEF RunEnds
<1> QED
  BY <1>1, <1>2, <1>6, <1>8

(* Every variable has the type its field has.                              *)
THEOREM TypeCorrect == Spec => []Typed
<1>1. Init => Typed
  BY DEF Init, Typed
<1>2. Typed /\ [Next]_vars => Typed'
  <2> SUFFICES ASSUME Typed, [Next]_vars PROVE Typed'
    OBVIOUS
  <2>1. CASE Tick
    BY <2>1 DEF Tick, Typed
  <2>2. ASSUME NEW index \in 0 .. MaxIndex, NEW since \in Delays, Receive(index, since)
        PROVE  Typed'
    <3>1. Outcome(index, since)
      BY <2>2, ReceiveOutcome
    <3>2. /\ High(index) \in 0 .. (SeqEnd - 1) /\ Keys(index) \subseteq 0 .. (SeqEnd - 1)
          /\ missing' \subseteq 0 .. (SeqEnd - 1) /\ lowest' \in 0 .. (SeqEnd - 1)
      BY <3>1, OutcomeBounds
    <3>3. DOMAIN queue' \subseteq 0 .. (SeqEnd - 1)
      BY <3>1, <3>2 DEF Outcome
    <3>4. asked' \subseteq 0 .. (SeqEnd - 1)
      BY <3>1 DEF Outcome, Typed
    <3> QED
      BY <3>1, <3>2, <3>3, <3>4 DEF Outcome, Typed
  <2>3. CASE UNCHANGED vars
    BY <2>3 DEF vars, Typed
  <2> QED
    BY <2>1, <2>2, <2>3 DEF Next
<1> QED
  BY <1>1, <1>2, PTL DEF Spec

(* A number is asked for once, wrap or not: the window has seen all it     *)
(* asked for, and only asks for what it has not seen.                      *)
THEOREM AsksOnce == Spec => []AskedOnce
<1> DEFINE IInv == AskedSeen /\ AskedOnce
<1>1. Init => IInv
  BY DEF Init, AskedSeen, AskedOnce
<1>2. Typed /\ IInv /\ [Next]_vars => IInv'
  <2> SUFFICES ASSUME Typed, AskedSeen, AskedOnce, [Next]_vars PROVE IInv'
    OBVIOUS
  <2>1. CASE Tick
    BY <2>1 DEF Tick, AskedSeen, AskedOnce
  <2>2. ASSUME NEW index \in 0 .. MaxIndex, NEW since \in Delays, Receive(index, since)
        PROVE  IInv'
    <3>1. Outcome(index, since)
      BY <2>2, ReceiveOutcome
    <3>2. /\ lowest \in Int /\ lowest' \in Int /\ lowest <= lowest'
          /\ missing' \subseteq 0 .. (SeqEnd - 1)
          /\ \A i \in missing' : i >= lowest /\ i \notin Keys(index)
      BY <3>1, OutcomeBounds DEF Typed
    <3>3. \A i \in missing' : ~ Seen(lowest, DOMAIN queue, i)
      BY <3>2 DEF Seen, Keys
    <3>4. asked' = asked \cup missing
      BY <3>1 DEF Outcome
    <3>5. AskedOnce'
      BY <3>3, <3>4 DEF AskedSeen, AskedOnce
    <3>6. ASSUME NEW i \in missing' \cup asked'
          PROVE  Seen(lowest, DOMAIN queue, i)'
      <4>1. i \in 0 .. (SeqEnd - 1)
        BY <3>2, <3>4 DEF Typed
      <4>2. i < lowest \/ i \in Keys(index) \cup missing'
        BY <3>4 DEF AskedSeen, Seen, Keys
      <4>3. i < lowest' \/ (i \in Keys(index) \cup missing' /\ i >= lowest')
        BY <3>2, <4>1, <4>2
      <4> QED
        BY <3>1, <4>3 DEF Outcome, Seen
    <3> QED
      BY <3>5, <3>6 DEF AskedSeen
  <2>3. CASE UNCHANGED vars
    BY <2>3 DEF vars, AskedSeen, AskedOnce
  <2> QED
    BY <2>1, <2>2, <2>3 DEF Next
<1> QED
  BY <1>1, <1>2, TypeCorrect, PTL DEF Spec

(* Whatever the arrival times, a call of receive_datagram does to the      *)
(* window what Reliability says it may do.                                 *)
THEOREM StepsUseWindowOps == Spec => UsesWindowOps
<1> DEFINE Step == now' = now => \E index \in 0 .. MaxIndex :
        LET high == HighestWith(highest, index)
            keys == DOMAIN queue \cup {index}
        IN  /\ ~ Seen(lowest, DOMAIN queue, index)
            /\ highest' = high
            /\ missing' \in IF lowest \in keys /\ lowest < high THEN {{}}
                            ELSE MissingLists(lowest, high, keys)
            /\ lowest' \in RunEnds(lowest, high, keys \cup missing')
            /\ DOMAIN queue' = {i \in keys \cup missing' : i >= lowest'}
<1>1. Typed /\ [Next]_vars => [Step]_vars
  <2> SUFFICES ASSUME Typed, Next, now' = now
               PROVE  \E index \in 0 .. MaxIndex :
                 /\ ~ Seen(lowest, DOMAIN queue, index)
                 /\ highest' = High(index)
                 /\ missing' \in IF lowest \in Keys(index) /\ lowest < High(index) THEN {{}}
                                 ELSE MissingLists(lowest, High(index), Keys(index))
                 /\ lowest' \in RunEnds(lowest, High(index), Keys(index) \cup missing')
                 /\ DOMAIN queue' = {i \in Keys(index) \cup missing' : i >= lowest'}
    BY DEF High, Keys
  <2>1. PICK index \in 0 .. MaxIndex : \E since \in Delays : Receive(index, since)
    BY DEF Next, Tick, Typed
  <2>2. PICK since \in Delays : Receive(index, since)
    BY <2>1
  <2>3. Outcome(index, since)
    BY <2>2, ReceiveOutcome
  <2>4. /\ High(index) \in Nat /\ lowest \in Nat /\ index \in Int
        /\ Keys(index) \subseteq Nat /\ DOMAIN Arrived(index) = Keys(index)
    BY <2>3, OutcomeBounds DEF Typed, Arrived, Inserted, Keys
  <2>5. Absent(High(index), Arrived(index), since, lowest)
          \in MissingLists(lowest, High(index), Keys(index))
    BY <2>4, AbsentIsMissing
  <2>6. ~ Seen(lowest, DOMAIN queue, index)
    BY <2>2, <2>4 DEF Receive, Seen
  <2> QED
    BY <2>3, <2>5, <2>6 DEF Outcome
<1> HIDE DEF Step
<1>2. Spec => [][Step]_vars
  BY <1>1, TypeCorrect, PTL DEF Spec
<1> QED
  BY <1>2 DEF UsesWindowOps, Step

(* Unless the last number of the space is in the queue, whose end is then  *)
(* lost for good, the window covers what arrives.                          *)
LEMMA OutcomeInside ==
  ASSUME Typed, GapAtLowest, NEW index \in 0 .. MaxIndex, NEW since,
         ~ Seen(lowest, DOMAIN queue, index), Outcome(index, since), ~ Wrapped'
  PROVE  /\ ~ Wrapped /\ lowest <= High(index)
         /\ \A i \in Keys(index) : lowest <= i /\ i < High(index)
<1>1. /\ index \in 0 .. (SeqEnd - 1) /\ Keys(index) \subseteq 0 .. (SeqEnd - 1)
      /\ lowest' \in 0 .. (SeqEnd - 1)
      /\ lowest \in 0 .. (SeqEnd - 1) /\ highest \in 0 .. (SeqEnd - 1)
  BY OutcomeBounds DEF Typed
<1>2. SeqEnd - 1 \notin Keys(index)
  <2>1. SeqEnd - 1 \notin DOMAIN queue'
    BY DEF Wrapped
  <2>2. DOMAIN queue' = {i \in Keys(index) \cup missing' : i >= lowest'}
    BY DEF Outcome
  <2>3. SeqEnd - 1 >= lowest'
    BY <1>1
  <2> QED
    BY <2>1, <2>2, <2>3
<1>3. ~ Wrapped /\ index < SeqEnd - 1
  BY <1>1, <1>2 DEF Wrapped, Keys
<1>4. High(index) = IF index >= highest THEN index + 1 ELSE highest
  <2>1. index + 1 \in Nat /\ index + 1 < SeqEnd
    BY <1>1, <1>3
  <2>2. \A x \in Nat : x < SeqEnd => x % SeqEnd = x
    OBVIOUS
  <2>3. Uint24(index + 1) = index + 1
    BY <2>1, <2>2 DEF Uint24
  <2> QED
    BY <2>3 DEF High, HighestWith
<1>5. lowest <= highest /\ DOMAIN queue \subseteq (lowest + 1) .. (highest - 1)
  BY <1>3 DEF GapAtLowest
<1>6. highest <= High(index) /\ index < High(index) /\ High(index) \in Int
  BY <1>1, <1>4
<1>7. lowest <= index
  BY <1>1 DEF Seen
<1>8. \A i \in DOMAIN queue : lowest <= i /\ i < High(index)
  BY <1>1, <1>5, <1>6
<1>9. lowest <= High(index)
  BY <1>1, <1>5, <1>6
<1> QED
  BY <1>3, <1>6, <1>7, <1>8, <1>9 DEF Keys

(* The second shift passes everything missing has marked: the marks fill   *)
(* the window up to an overdue index.                                      *)
LEMMA MarksPassed ==
  ASSUME Typed, NEW index \in 0 .. MaxIndex, NEW since, Outcome(index, since),
         lowest <= High(index), \A i \in Keys(index) : lowest <= i /\ i < High(index)
  PROVE  /\ lowest' \notin Keys(index) \cup missing' /\ lowest' <= High(index)
         /\ \A i \in missing' : i < High(index)
         /\ \A i \in missing' : i < lowest'
<1> DEFINE all == Keys(index) \cup missing'
<1>1. /\ High(index) \in Nat /\ lowest \in Nat /\ lowest' \in Nat /\ lowest <= lowest'
      /\ Keys(index) \subseteq Nat /\ missing' \subseteq Nat
      /\ DOMAIN Arrived(index) = Keys(index)
  BY OutcomeBounds DEF Typed, Arrived, Inserted, Keys
<1>2. /\ \A i \in lowest .. (lowest' - 1) : i \in all
      /\ lowest' \in all => lowest' >= High(index)
      /\ lowest' <= High(index)
  BY <1>1 DEF Outcome, RunEnds
<1>3. missing' # {} =>
         missing' = Absent(High(index), Arrived(index), since, lowest)
  BY DEF Outcome
<1>4. \A i \in missing' : i < High(index)
  <2>1. ASSUME NEW i \in missing' PROVE i < High(index)
    <3>1. i \in lowest .. (High(index) - 1)
      BY <1>3 DEF Absent
    <3> QED
      BY <3>1, <1>1
  <2> QED
    BY <2>1
<1>5. lowest' \notin all
  <2> SUFFICES ASSUME lowest' \in all PROVE FALSE
    OBVIOUS
  <2>1. lowest' < High(index)
    BY <1>4
  <2> QED
    BY <1>1, <1>2, <2>1
<1>6. ASSUME NEW i \in missing' PROVE i < lowest'
  <2>1. missing' = Absent(High(index), Arrived(index), since, lowest)
    BY <1>3
  <2>2. PICK j \in Keys(index) :
          i <= j /\ j < High(index) /\ now - Arrived(index)[j] >= since
    BY <1>1, <2>1 DEF Absent, Overdue
  <2>3. \A k \in lowest .. j : k \in all
    <3> SUFFICES ASSUME NEW k \in lowest .. j, k \notin Keys(index)
                 PROVE  k \in missing'
      OBVIOUS
    <3>1. k \in lowest .. (High(index) - 1) /\ k <= j
      BY <1>1, <2>2
    <3>2. Overdue(High(index), Arrived(index), since, k)
      BY <1>1, <2>2, <3>1 DEF Overdue
    <3> QED
      BY <1>1, <2>1, <3>1, <3>2 DEF Absent
  <2>4. j < lowest'
    <3> SUFFICES ASSUME ~ (j < lowest') PROVE FALSE
      OBVIOUS
    <3>1. j \in Nat
      BY <1>1
    <3>2. lowest' \in lowest .. j
      BY <1>1, <3>1
    <3> QED
      BY <1>5, <2>3, <3>2
  <2>5. i \in Nat /\ j \in Nat /\ i <= j
    BY <1>1, <2>2
  <2> QED
    BY <1>1, <2>4, <2>5
<1> QED
  BY <1>2, <1>4, <1>5, <1>6

(* Until the last number of the space has come, the window ends where its  *)
(* gap is, and no mark outlives the call that made it.                     *)
THEOREM GapKept == Spec => []GapAtLowest
<1>1. Init => GapAtLowest
  BY DEF Init, GapAtLowest
<1>2. Typed /\ GapAtLowest /\ [Next]_vars => GapAtLowest'
  <2> SUFFICES ASSUME Typed, GapAtLowest, [Next]_vars PROVE GapAtLowest'
    OBVIOUS
  <2>1. CASE Tick
    BY <2>1 DEF Tick, GapAtLowest, Wrapped
  <2>2. ASSUME NEW index \in 0 .. MaxIndex, NEW since \in Delays,
               Receive(index, since), ~ Wrapped'
        PROVE  /\ lowest' <= highest'
               /\ DOMAIN queue' \subseteq (lowest' + 1) .. (highest' - 1)
               /\ \A i \in DOMAIN queue' : queue'[i] # LongAgo
    <3>1. Outcome(index, since)
      BY <2>2, ReceiveOutcome
    <3>2. /\ Keys(index) \subseteq Nat /\ missing' \subseteq Nat /\ High(index) \in Nat
          /\ index \in Nat /\ lowest \in Nat /\ lowest' \in Nat
      BY <3>1, OutcomeBounds DEF Typed
    <3>3. ~ Seen(lowest, DOMAIN queue, index)
      BY <2>2, <3>2 DEF Receive, Seen
    <3>4. /\ ~ Wrapped /\ lowest <= High(index)
          /\ \A i \in Keys(index) : lowest <= i /\ i < High(index)
      BY <2>2, <3>1, <3>3, OutcomeInside
    <3>5. /\ lowest' \notin Keys(index) \cup missing' /\ lowest' <= High(index)
          /\ \A i \in missing' : i < High(index) /\ i < lowest'
      BY <3>1, <3>4, MarksPassed
    <3>6. highest' = High(index)
      BY <3>1 DEF Outcome
    <3>7. ASSUME NEW i \in DOMAIN queue'
          PROVE  /\ i \in Keys(index) /\ i \in (lowest' + 1) .. (highest' - 1)
                 /\ queue'[i] = Arrived(index)[i]
      <4>1. i \in Keys(index) \cup missing' /\ i >= lowest'
        BY <3>1, <3>7 DEF Outcome
      <4>2. i \in Nat /\ i # lowest'
        BY <3>2, <3>5, <4>1
      <4>3. i \notin missing'
        BY <3>2, <3>5, <4>1, <4>2
      <4>4. i \in Keys(index) /\ i < High(index)
        BY <3>4, <4>1, <4>3
      <4> QED
        BY <3>1, <3>2, <3>6, <4>1, <4>2, <4>4 DEF Outcome
    <3>8. \A i \in Keys(index) : Arrived(index)[i] # LongAgo
      <4>1. now # LongAgo
        BY DEF Typed, LongAgo
      <4>2. \A i \in DOMAIN queue : queue[i] # LongAgo
        BY <3>4 DEF GapAtLowest
      <4> QED
        BY <4>1, <4>2 DEF Keys, Arrived, Inserted
    <3> QED
      BY <3>5, <3>6, <3>7, <3>8
  <2>3. CASE UNCHANGED vars
    BY <2>3 DEF vars, GapAtLowest, Wrapped
  <2> QED
    BY <2>1, <2>2, <2>3 DEF Next, GapAtLowest
<1> QED
  BY <1>1, <1>2, TypeCorrect, PTL DEF Spec

(* What a NACK asks for is all that is absent below an index that has      *)
(* waited for the delay, and nothing above it.                             *)
THEOREM AsksForAllOverdue == Spec => AsksForOverdue
<1> DEFINE Step == now' = now /\ missing' # {} /\ ~ Wrapped' =>
        \E index \in 0 .. MaxIndex, since \in Delays :
            LET q == Inserted(queue, index, now) IN
            missing' = {i \in lowest .. highest' :
                           /\ i \notin DOMAIN q
                           /\ \E j \in DOMAIN q : j > i /\ now - q[j] >= since}
<1>1. Typed /\ GapAtLowest /\ [Next]_vars => [Step]_vars
  <2> SUFFICES ASSUME Typed, GapAtLowest, Next, now' = now, missing' # {}, ~ Wrapped'
               PROVE  \E index \in 0 .. MaxIndex, since \in Delays :
                        missing' = {i \in lowest .. highest' :
                          /\ i \notin DOMAIN Arrived(index)
                          /\ \E j \in DOMAIN Arrived(index) :
                                j > i /\ now - Arrived(index)[j] >= since}
    BY DEF Arrived
  <2>1. PICK index \in 0 .. MaxIndex, since \in Delays : Receive(index, since)
    BY DEF Next, Tick, Typed
  <2>2. Outcome(index, since)
    BY <2>1, ReceiveOutcome
  <2>3. /\ Keys(index) \subseteq Nat /\ High(index) \in Nat /\ index \in Nat
        /\ lowest \in Nat /\ DOMAIN Arrived(index) = Keys(index)
    BY <2>2, OutcomeBounds DEF Typed, Arrived, Inserted, Keys
  <2>4. ~ Seen(lowest, DOMAIN queue, index)
    BY <2>1, <2>3 DEF Receive, Seen
  <2>5. \A i \in Keys(index) : lowest <= i /\ i < High(index)
    BY <2>2, <2>4, OutcomeInside
  <2>6. /\ missing' = Absent(High(index), Arrived(index), since, lowest)
        /\ highest' = High(index)
    BY <2>2 DEF Outcome
  <2>7. ASSUME NEW i \in lowest .. High(index), i \notin Keys(index)
        PROVE  /\ Overdue(High(index), Arrived(index), since, i)
                    <=> \E j \in Keys(index) : j > i /\ now - Arrived(index)[j] >= since
               /\ Overdue(High(index), Arrived(index), since, i) => i < High(index)
    <3>1. i \in Nat /\ \A j \in Keys(index) : j # i /\ j \in Nat
      BY <2>3, <2>7
    <3> QED
      BY <2>3, <2>5, <3>1 DEF Overdue
  <2>8. missing' = {i \in lowest .. highest' :
                       /\ i \notin Keys(index)
                       /\ \E j \in Keys(index) : j > i /\ now - Arrived(index)[j] >= since}
    <3>1. \A i \in lowest .. (High(index) - 1) : i \in lowest .. High(index)
      BY <2>3
    <3>2. \A i \in lowest .. High(index) : i < High(index) => i \in lowest .. (High(index) - 1)
      BY <2>3
    <3> QED
      BY <2>3, <2>6, <2>7, <3>1, <3>2 DEF Absent
  <2> QED
    BY <2>3, <2>8
<1> HIDE DEF Step
<1>2. Spec => [][Step]_vars
  BY <1>1, TypeCorrect, GapKept, PTL DEF Spec
<1> QED
  BY <1>2, PTL DEF AsksForOverdue, Step
=============================================================================
