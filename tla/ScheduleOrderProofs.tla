------------------------ MODULE ScheduleOrderProofs ------------------------
(***************************************************************************)
(* Proofs about ScheduleOrder and MCScheduleOrder, for all sets of dates,  *)
(* times and subjects and every length of the file: re_align sorts and     *)
(* loses nothing, cur_subject finds a current subject, and the light finds *)
(* the same one in a file that is in order.                                *)
(*                                                                         *)
(* The loops of re_align are folds.  Each is first turned into a sequence  *)
(* of steps (FoldRun and the four ...Run lemmas), along which UpTo makes   *)
(* an induction: the set of the steps after which something holds is all   *)
(* of them.  UpTo follows from the least member of a set of naturals, with *)
(* sets in place of predicates.                                            *)
(***************************************************************************)
EXTENDS MCScheduleOrder, FiniteSetTheorems, FunctionTheorems, SequenceTheorems,
        WellFoundedInduction, TLAPS

\* Every nonempty set of naturals has a least member; the one place where the
\* well-foundedness of < is used.
LEMMA LeastMember ==
  ASSUME NEW T \in SUBSET Nat, T # {}
  PROVE  \E x \in T : \A y \in T : x <= y
<1>1. PICK x \in T : \A y \in T : ~(<<y, x>> \in OpToRel(<, Nat))
  BY WFMin, NatLessThanWellFounded
<1>2. ASSUME NEW y \in T PROVE x <= y
  <2>1. x \in Nat /\ y \in Nat
    OBVIOUS
  <2>2. y < x => <<y, x>> \in OpToRel(<, Nat)
    BY <2>1 DEF OpToRel
  <2>3. ~(<<y, x>> \in OpToRel(<, Nat))
    BY <1>1, Zenon
  <2>4. ~(y < x)
    BY <2>2, <2>3, Zenon
  <2> QED
    BY <2>1, <2>4
<1> QED
  BY <1>2

\* Induction along a loop: a set with 0 that holds k if it holds k - 1 holds
\* every index up to m.
LEMMA UpTo ==
  ASSUME NEW m \in Nat, NEW P, 0 \in P, \A k \in 1 .. m : k - 1 \in P => k \in P
  PROVE  0 .. m \subseteq P
<1> SUFFICES ASSUME (0 .. m) \ P # {} PROVE FALSE
  OBVIOUS
<1>1. PICK x \in (0 .. m) \ P : \A y \in (0 .. m) \ P : x <= y
  <2> DEFINE T == (0 .. m) \ P
  <2>1. T \in SUBSET Nat /\ T # {}
    OBVIOUS
  <2> HIDE DEF T
  <2>2. \E x \in T : \A y \in T : x <= y
    BY <2>1, LeastMember
  <2> QED
    BY <2>2 DEF T
<1>2. x \in 1 .. m /\ x - 1 \in 0 .. m
  BY <1>1
<1> QED
  BY <1>1, <1>2

\* The greatest member of a set is its Max.
LEMMA MaxOf ==
  ASSUME NEW s \in SUBSET Nat, NEW k \in s, \A y \in s : y <= k
  PROVE  Max(s) = k
<1>1. \A x \in s : (\A y \in s : x >= y) => x = k
  OBVIOUS
<1>2. Max(s) \in s /\ \A y \in s : Max(s) >= y
  BY DEF Max
<1> QED
  BY <1>1, <1>2

\* g[s] is x0 after the steps st of the indices in s, in ascending order.
IsFold(g, m, x0, st) ==
  \A s \in SUBSET (1 .. m) :
    g[s] = IF s = {} THEN x0 ELSE st[<<g[s \ {Max(s)}], Max(s)>>]

\* Steps st can be folded over every set of indices.
LEMMA FoldExists ==
  ASSUME NEW m \in Nat, NEW X, NEW x0 \in X, NEW st \in [X \X (1 .. m) -> X]
  PROVE  \E g \in [SUBSET (1 .. m) -> X] : IsFold(g, m, x0, st)
<1> DEFINE Fold(g, k) == \A s \in SUBSET (1 .. k) :
             g[s] = IF s = {} THEN x0 ELSE st[<<g[s \ {Max(s)}], Max(s)>>]
           Good == {k \in 0 .. m : \E g \in [SUBSET (1 .. k) -> X] : Fold(g, k)}
<1>1. 0 \in Good
  <2> DEFINE g == [s \in SUBSET (1 .. 0) |-> x0]
  <2>1. \A s \in SUBSET (1 .. 0) : s = {}
    OBVIOUS
  <2>2. g \in [SUBSET (1 .. 0) -> X] /\ Fold(g, 0)
    BY <2>1
  <2> HIDE DEF g, Fold
  <2>3. \E f \in [SUBSET (1 .. 0) -> X] : Fold(f, 0)
    BY <2>2, Zenon
  <2>4. 0 \in 0 .. m
    OBVIOUS
  <2> QED
    BY <2>3, <2>4, Zenon
<1>2. ASSUME NEW k \in 1 .. m, k - 1 \in Good PROVE k \in Good
  <2>1. PICK g \in [SUBSET (1 .. k - 1) -> X] : Fold(g, k - 1)
    BY <1>2
  <2> DEFINE h == [s \in SUBSET (1 .. k) |->
                     IF k \in s THEN st[<<g[s \ {k}], k>>] ELSE g[s]]
  <2>2. \A s \in SUBSET (1 .. k) : k \notin s => s \in SUBSET (1 .. k - 1)
    OBVIOUS
  <2>3. \A s \in SUBSET (1 .. k) : s \ {k} \in SUBSET (1 .. k - 1)
    OBVIOUS
  <2>4. k \in 1 .. m
    OBVIOUS
  <2>5. h \in [SUBSET (1 .. k) -> X]
    <3>1. ASSUME NEW s \in SUBSET (1 .. k) PROVE h[s] \in X
      <4>1. CASE k \in s
        <5>1. g[s \ {k}] \in X
          BY <2>3
        <5> QED
          BY <4>1, <5>1
      <4>2. CASE k \notin s
        BY <4>2, <2>2
      <4> QED
        BY <4>1, <4>2
    <3> QED
      BY <3>1
  <2>6. ASSUME NEW s \in SUBSET (1 .. k)
        PROVE  h[s] = IF s = {} THEN x0 ELSE st[<<h[s \ {Max(s)}], Max(s)>>]
    <3>1. CASE k \in s
      <4>1. Max(s) = k
        <5>1. s \in SUBSET Nat /\ \A y \in s : y <= k
          OBVIOUS
        <5> QED
          BY <5>1, <3>1, MaxOf
      <4>2. h[s \ {k}] = g[s \ {k}]
        OBVIOUS
      <4>3. h[s] = st[<<g[s \ {k}], k>>]
        BY <3>1
      <4> QED
        BY <4>1, <4>2, <4>3, <3>1
    <3>2. CASE k \notin s
      <4>1. s \in SUBSET (1 .. k - 1) /\ s \ {Max(s)} \in SUBSET (1 .. k - 1)
        BY <3>2, <2>2
      <4>2. h[s] = g[s] /\ h[s \ {Max(s)}] = g[s \ {Max(s)}]
        BY <3>2, <4>1
      <4> QED
        BY <2>1, <4>1, <4>2
    <3> QED
      BY <3>1, <3>2
  <2> HIDE DEF h
  <2>7. Fold(h, k)
    BY <2>6
  <2> HIDE DEF Fold
  <2>8. \E f \in [SUBSET (1 .. k) -> X] : Fold(f, k)
    BY <2>5, <2>7, Zenon
  <2> QED
    BY <2>8
<1>3. m \in Good
  <2> HIDE DEF Good
  <2>1. 0 .. m \subseteq Good
    BY <1>1, <1>2, UpTo
  <2> QED
    BY <2>1
<1> QED
  BY <1>3 DEF IsFold

\* A nonempty finite set of indices has a Max.
LEMMA MaxIn ==
  ASSUME NEW m \in Nat, NEW s \in SUBSET (1 .. m), s # {}
  PROVE  Max(s) \in s
<1> DEFINE T == {m - x : x \in s}
<1>1. T \in SUBSET Nat /\ T # {}
  <2>1. ASSUME NEW x \in s PROVE m - x \in Nat
    OBVIOUS
  <2> QED
    BY <2>1
<1>2. PICK y \in T : \A z \in T : y <= z
  <2> HIDE DEF T
  <2> QED
    BY <1>1, LeastMember
<1>3. PICK k \in s : y = m - k
  OBVIOUS
<1>4. \A x \in s : x <= k
  <2>1. ASSUME NEW x \in s PROVE x <= k
    <3>1. m - x \in T
      OBVIOUS
    <3>2. m - k <= m - x
      BY <1>2, <1>3, <3>1
    <3> QED
      BY <3>2
  <2> QED
    BY <2>1
<1>5. Max(s) = k
  <2>1. s \in SUBSET Nat
    OBVIOUS
  <2> QED
    BY <2>1, <1>4, MaxOf
<1> QED
  BY <1>5

\* The last index of an initial segment, and the segment without it.
LEMMA Initials ==
  ASSUME NEW k \in Nat, k > 0
  PROVE  /\ Max(1 .. k) = k
         /\ (1 .. k) \ {k} = 1 .. k - 1
         /\ 1 \in 1 .. k
<1>1. 1 .. k \in SUBSET Nat /\ k \in 1 .. k /\ \A y \in 1 .. k : y <= k
  OBVIOUS
<1>2. Max(1 .. k) = k
  BY <1>1, MaxOf
<1>3. (1 .. k) \ {k} = 1 .. k - 1
  OBVIOUS
<1>4. 1 \in 1 .. k
  BY <1>1
<1> QED
  BY <1>2, <1>3, <1>4

-----------------------------------------------------------------------------
Slots == Entries \cup {Clean}
Index == 1 .. MaxLen + 1
Arrays == [Index -> Slots]

\* The same of a function of which it is not yet known that it stays in X,
\* and what follows of its values on initial segments.
Unfolds(it, m, X, x0, st) ==
  /\ it[{}] = x0
  /\ \A s \in SUBSET (1 .. m) :
       s # {} /\ it[s \ {Max(s)}] \in X
         => it[s] = st[<<it[s \ {Max(s)}], Max(s)>>]
Runs(it, m, X, x0, st) ==
  /\ it[1 .. 0] = x0
  /\ \A k \in 0 .. m : it[1 .. k] \in X
  /\ \A k \in 1 .. m : it[1 .. k] = st[<<it[1 .. k - 1], k>>]

\* A fold over 1 .. m is the last of a sequence of m steps.
LEMMA FoldRun ==
  ASSUME NEW m \in Nat, NEW X, NEW x0 \in X, NEW st \in [X \X (1 .. m) -> X],
         NEW it, Unfolds(it, m, X, x0, st)
  PROVE  Runs(it, m, X, x0, st)
<1> USE DEF Unfolds
<1>1. it[1 .. 0] = x0
  <2>1. 1 .. 0 = {}
    OBVIOUS
  <2> QED
    BY <2>1
<1>2. ASSUME NEW k \in 1 .. m, it[1 .. k - 1] \in X
      PROVE  it[1 .. k] = st[<<it[1 .. k - 1], k>>] /\ it[1 .. k] \in X
  <2>1. Max(1 .. k) = k /\ (1 .. k) \ {k} = 1 .. k - 1 /\ 1 .. k # {}
    BY Initials
  <2>2. 1 .. k \in SUBSET (1 .. m)
    OBVIOUS
  <2>3. it[1 .. k] = st[<<it[(1 .. k) \ {Max(1 .. k)}], Max(1 .. k)>>]
    BY <2>1, <2>2, <1>2, Zenon
  <2>4. it[1 .. k] = st[<<it[1 .. k - 1], k>>]
    BY <2>3, <2>1, Zenon
  <2>5. <<it[1 .. k - 1], k>> \in X \X (1 .. m)
    BY <1>2
  <2> QED
    BY <2>4, <2>5
<1>3. \A k \in 0 .. m : it[1 .. k] \in X
  <2> DEFINE P == {k \in 0 .. m : it[1 .. k] \in X}
  <2>1. 0 \in P
    BY <1>1
  <2>2. ASSUME NEW k \in 1 .. m, k - 1 \in P PROVE k \in P
    <3>1. it[1 .. k - 1] \in X
      BY <2>2
    <3>2. it[1 .. k] \in X
      BY <1>2, <3>1, Zenon
    <3> QED
      BY <3>2
  <2> HIDE DEF P
  <2>3. 0 .. m \subseteq P
    BY <2>1, <2>2, UpTo
  <2> QED
    BY <2>3 DEF P
<1>4. \A k \in 1 .. m : k - 1 \in 0 .. m
  OBVIOUS
<1> QED
  BY <1>1, <1>2, <1>3, <1>4, Zenon DEF Runs
-----------------------------------------------------------------------------
\* Entries and the clean slot, told apart by their dates.
LEMMA SlotFacts ==
  /\ Clean \in Slots /\ Clean.date = 0
  /\ \A e \in Slots : e.date \in Nat /\ e.time \in Nat
  /\ \A e \in Entries : e.date > 0 /\ e.name # "NOTHING"
  /\ \A e \in Slots : e.date = 0 => e = Clean
<1>1. Clean \in Slots /\ Clean.date = 0 /\ Clean.time = 0
  BY DEF Slots, Clean
<1>2. \A e \in Entries : e.date \in Nat /\ e.time \in Nat /\ e.date > 0 /\ e.name \in Names
  <2>1. \A e \in Entries : e.date \in Dates /\ e.time \in Times /\ e.name \in Names
    BY DEF Entries
  <2>2. ASSUME NEW e \in Entries
        PROVE  e.date \in Nat /\ e.time \in Nat /\ e.date > 0 /\ e.name \in Names
    <3> DEFINE d == e.date
    <3>1. d \in Dates
      BY <2>1
    <3> HIDE DEF d
    <3>2. d \in Nat /\ d > 0
      BY <3>1, DataAssumption
    <3> QED
      BY <2>1, <3>2, DataAssumption DEF d
  <2> QED
    BY <2>2
<1>3. \A e \in Entries : e.name # "NOTHING"
  BY <1>2, DataAssumption
<1> QED
  BY <1>1, <1>2, <1>3 DEF Slots

\* What an exchange does to each slot.
LEMMA ExchangeFacts ==
  ASSUME NEW a \in Arrays, NEW i \in Index, NEW j \in Index
  PROVE  /\ Exchange(a, i, j) \in Arrays
         /\ \A k \in Index : Exchange(a, i, j)[k] =
              IF k = i THEN a[j] ELSE IF k = j THEN a[i] ELSE a[k]
BY DEF Exchange, Arrays

\* The length of an array.
LEMMA ArrayLen ==
  ASSUME NEW a \in Arrays
  PROVE  Len(a) = MaxLen + 1 /\ a \in Seq(Slots) /\ DOMAIN a = Index
<1>1. DOMAIN a = 1 .. MaxLen + 1 /\ a \in [1 .. MaxLen + 1 -> Slots] /\ MaxLen + 1 \in Nat
  BY LenAssumption DEF Arrays, Index
<1>2. a \in Seq(Slots)
  BY <1>1, SeqDef
<1>3. Len(a) \in Nat /\ DOMAIN a = 1 .. Len(a)
  BY <1>2, LenProperties
<1> QED
  BY <1>1, <1>2, <1>3 DEF Index

\* The state of the inner loop of the second pass.
Scans == [arr : Arrays, on : BOOLEAN]

\* One step of the inner loop of the second pass.
LEMMA ByTimeFacts ==
  ASSUME NEW s \in Scans, NEW i \in Index, NEW j \in Index
  PROVE  /\ ByTime(s, i, j) \in Scans
         /\ ~s.on \/ s.arr[i].date # s.arr[j].date =>
              ByTime(s, i, j).on = FALSE /\ ByTime(s, i, j).arr = s.arr
         /\ s.on /\ s.arr[i].date = s.arr[j].date =>
              /\ ByTime(s, i, j).on = TRUE
              /\ ByTime(s, i, j).arr = IF s.arr[i].time > s.arr[j].time
                                       THEN Exchange(s.arr, i, j) ELSE s.arr
<1>1. s.arr \in Arrays /\ s.on \in BOOLEAN /\ s = [arr |-> s.arr, on |-> s.on]
  BY DEF Scans
<1>2. Exchange(s.arr, i, j) \in Arrays
  BY <1>1, ExchangeFacts
<1>3. CASE ~s.on \/ s.arr[i].date # s.arr[j].date
  <2>1. ByTime(s, i, j) = [arr |-> s.arr, on |-> FALSE]
    BY <1>1, <1>3 DEF ByTime
  <2> QED
    BY <1>1, <1>3, <2>1 DEF Scans
<1>4. CASE s.on /\ s.arr[i].date = s.arr[j].date
  <2>1. ByTime(s, i, j) = [arr |-> IF s.arr[i].time > s.arr[j].time
                                   THEN Exchange(s.arr, i, j) ELSE s.arr,
                           on |-> TRUE]
    BY <1>1, <1>4 DEF ByTime
  <2> QED
    BY <1>1, <1>2, <1>4, <2>1 DEF Scans
<1> QED
  BY <1>1, <1>3, <1>4

\* The four loops of re_align as sequences of steps: the inner one of dates ...
LEMMA InnerDateRun ==
  ASSUME NEW a \in Arrays, NEW n \in 0 .. MaxLen, NEW i \in 1 .. n
  PROVE  \E t \in [0 .. n - i -> Arrays] :
           /\ t[0] = a /\ t[n - i] = InnerDate(a, i, n)
           /\ \A d \in 1 .. n - i : t[d] = ByDate(t[d - 1], i, i + d)
<1> DEFINE m == n - i
           st == [p \in Arrays \X (1 .. m) |-> ByDate(p[1], i, i + p[2])]
           sq == [d \in 1 .. m |-> d]
           it[s \in SUBSET (DOMAIN sq)] ==
             IF s = {} THEN a ELSE ByDate(it[s \ {Max(s)}], i, i + sq[Max(s)])
           t == [k \in 0 .. m |-> it[1 .. k]]
<1>1. m \in Nat /\ a \in Arrays /\ \A d \in 1 .. m : i \in Index /\ i + d \in Index
  BY LenAssumption DEF Index
<1>2. \A c \in Arrays, d \in 1 .. m : ByDate(c, i, i + d) \in Arrays
  BY <1>1, ExchangeFacts DEF ByDate
<1>3. InnerDate(a, i, n) = it[1 .. m]
  <2>1. InnerDate(a, i, n) = it[DOMAIN sq]
    BY Zenon DEF InnerDate, FoldLeft, MapThenFoldSet
  <2> QED
    BY <2>1
<1> HIDE DEF m
<1>4. st \in [Arrays \X (1 .. m) -> Arrays]
  BY <1>2
<1>5. PICK g \in [SUBSET (1 .. m) -> Arrays] : IsFold(g, m, a, st)
  <2> HIDE DEF st
  <2> QED
    BY <1>1, <1>4, FoldExists
<1>6. \A c \in Arrays, s \in SUBSET (1 .. m) :
        s # {} => /\ Max(s) \in 1 .. m /\ sq[Max(s)] = Max(s)
                  /\ s \ {Max(s)} \in SUBSET (1 .. m)
                  /\ st[<<c, Max(s)>>] = ByDate(c, i, i + sq[Max(s)])
  BY <1>1, MaxIn
<1>7. it = [s \in SUBSET (DOMAIN sq) |->
              IF s = {} THEN a ELSE ByDate(it[s \ {Max(s)}], i, i + sq[Max(s)])]
  <2> HIDE DEF st
  <2>1. \A s \in SUBSET (1 .. m) :
          g[s] = IF s = {} THEN a ELSE ByDate(g[s \ {Max(s)}], i, i + sq[Max(s)])
    BY <1>5, <1>6 DEF IsFold
  <2>2. g = [s \in SUBSET (DOMAIN sq) |->
               IF s = {} THEN a ELSE ByDate(g[s \ {Max(s)}], i, i + sq[Max(s)])]
    BY <2>1
  <2> QED
    BY <2>2, Zenon
<1> HIDE DEF it
<1>8. Runs(it, m, Arrays, a, st)
  <2>1. it[{}] = a
    BY <1>7
  <2>2. ASSUME NEW s \in SUBSET (1 .. m), s # {}, it[s \ {Max(s)}] \in Arrays
        PROVE  it[s] = st[<<it[s \ {Max(s)}], Max(s)>>]
    <3>1. s \in SUBSET (DOMAIN sq)
      OBVIOUS
    <3> HIDE DEF st, sq
    <3>2. it[s] = ByDate(it[s \ {Max(s)}], i, i + sq[Max(s)])
      BY <1>7, <3>1, <2>2, Zenon
    <3> QED
      BY <3>2, <1>6, <2>2, Zenon
  <2> HIDE DEF st
  <2>3. Unfolds(it, m, Arrays, a, st)
    BY <2>1, <2>2, Zenon DEF Unfolds
  <2> QED
    BY <1>1, <1>4, <2>3, FoldRun
<1>9. t \in [0 .. m -> Arrays] /\ t[0] = a /\ t[m] = InnerDate(a, i, n)
  BY <1>1, <1>8, <1>3 DEF Runs
<1>10. ASSUME NEW d \in 1 .. m PROVE t[d] = ByDate(t[d - 1], i, i + d)
  <2>1. d - 1 \in 0 .. m /\ d \in 0 .. m
    BY <1>1
  <2>2. t[d] = it[1 .. d] /\ t[d - 1] = it[1 .. d - 1] /\ it[1 .. d - 1] \in Arrays
    BY <2>1, <1>8 DEF Runs
  <2>3. it[1 .. d] = st[<<it[1 .. d - 1], d>>]
    BY <1>8 DEF Runs
  <2> HIDE DEF t
  <2> QED
    BY <2>2, <2>3
<1> QED
  BY <1>9, <1>10 DEF m

\* ... the inner one of times ...
LEMMA InnerTimeRun ==
  ASSUME NEW a \in Arrays, NEW i \in 1 .. MaxLen
  PROVE  \E t \in [0 .. Len(a) - i -> Scans] :
           /\ t[0] = [arr |-> a, on |-> TRUE] /\ t[Len(a) - i].arr = InnerTime(a, i)
           /\ \A d \in 1 .. Len(a) - i : t[d] = ByTime(t[d - 1], i, i + d)
<1> DEFINE m == Len(a) - i
           st == [p \in Scans \X (1 .. m) |-> ByTime(p[1], i, i + p[2])]
           sq == [d \in 1 .. m |-> d]
           it[s \in SUBSET (DOMAIN sq)] ==
             IF s = {} THEN [arr |-> a, on |-> TRUE] ELSE ByTime(it[s \ {Max(s)}], i, i + sq[Max(s)])
           t == [k \in 0 .. m |-> it[1 .. k]]
<1>1. /\ m \in Nat /\ [arr |-> a, on |-> TRUE] \in Scans
      /\ \A d \in 1 .. m : i \in Index /\ i + d \in Index
  BY LenAssumption, ArrayLen DEF Index, Scans
<1>2. \A c \in Scans, d \in 1 .. m : ByTime(c, i, i + d) \in Scans
  BY <1>1, ByTimeFacts
<1>3. InnerTime(a, i) = it[1 .. m].arr
  <2>1. InnerTime(a, i) = it[DOMAIN sq].arr
    BY Zenon DEF InnerTime, FoldLeft, MapThenFoldSet
  <2> QED
    BY <2>1
<1> HIDE DEF m
<1>4. st \in [Scans \X (1 .. m) -> Scans]
  BY <1>2
<1>5. PICK g \in [SUBSET (1 .. m) -> Scans] : IsFold(g, m, [arr |-> a, on |-> TRUE], st)
  <2> HIDE DEF st
  <2> QED
    BY <1>1, <1>4, FoldExists
<1>6. \A c \in Scans, s \in SUBSET (1 .. m) :
        s # {} => /\ Max(s) \in 1 .. m /\ sq[Max(s)] = Max(s)
                  /\ s \ {Max(s)} \in SUBSET (1 .. m)
                  /\ st[<<c, Max(s)>>] = ByTime(c, i, i + sq[Max(s)])
  BY <1>1, MaxIn
<1>7. it = [s \in SUBSET (DOMAIN sq) |->
              IF s = {} THEN [arr |-> a, on |-> TRUE] ELSE ByTime(it[s \ {Max(s)}], i, i + sq[Max(s)])]
  <2> HIDE DEF st
  <2>1. \A s \in SUBSET (1 .. m) :
          g[s] = IF s = {} THEN [arr |-> a, on |-> TRUE] ELSE ByTime(g[s \ {Max(s)}], i, i + sq[Max(s)])
    BY <1>5, <1>6 DEF IsFold
  <2>2. g = [s \in SUBSET (DOMAIN sq) |->
               IF s = {} THEN [arr |-> a, on |-> TRUE] ELSE ByTime(g[s \ {Max(s)}], i, i + sq[Max(s)])]
    BY <2>1
  <2> QED
    BY <2>2, Zenon
<1> HIDE DEF it
<1>8. Runs(it, m, Scans, [arr |-> a, on |-> TRUE], st)
  <2>1. it[{}] = [arr |-> a, on |-> TRUE]
    BY <1>7
  <2>2. ASSUME NEW s \in SUBSET (1 .. m), s # {}, it[s \ {Max(s)}] \in Scans
        PROVE  it[s] = st[<<it[s \ {Max(s)}], Max(s)>>]
    <3>1. s \in SUBSET (DOMAIN sq)
      OBVIOUS
    <3> HIDE DEF st, sq
    <3>2. it[s] = ByTime(it[s \ {Max(s)}], i, i + sq[Max(s)])
      BY <1>7, <3>1, <2>2, Zenon
    <3> QED
      BY <3>2, <1>6, <2>2, Zenon
  <2> HIDE DEF st
  <2>3. Unfolds(it, m, Scans, [arr |-> a, on |-> TRUE], st)
    BY <2>1, <2>2, Zenon DEF Unfolds
  <2> QED
    BY <1>1, <1>4, <2>3, FoldRun
<1>9. t \in [0 .. m -> Scans] /\ t[0] = [arr |-> a, on |-> TRUE] /\ t[m].arr = InnerTime(a, i)
  BY <1>1, <1>8, <1>3 DEF Runs
<1>10. ASSUME NEW d \in 1 .. m PROVE t[d] = ByTime(t[d - 1], i, i + d)
  <2>1. d - 1 \in 0 .. m /\ d \in 0 .. m
    BY <1>1
  <2>2. t[d] = it[1 .. d] /\ t[d - 1] = it[1 .. d - 1] /\ it[1 .. d - 1] \in Scans
    BY <2>1, <1>8 DEF Runs
  <2>3. it[1 .. d] = st[<<it[1 .. d - 1], d>>]
    BY <1>8 DEF Runs
  <2> HIDE DEF t
  <2> QED
    BY <2>2, <2>3
<1> QED
  BY <1>9, <1>10 DEF m

-----------------------------------------------------------------------------
\* c is a with the slots i .. n in another order.
Shuffled(a, c, i, n) ==
  \E p \in [i .. n -> i .. n] :
    /\ \A k, l \in i .. n : p[k] = p[l] => k = l
    /\ \A l \in i .. n : \E k \in i .. n : p[k] = l
    /\ \A k \in Index : c[k] = IF k \in i .. n THEN a[p[k]] ELSE a[k]

\* Nothing moved.
LEMMA ShuffledSame ==
  ASSUME NEW a, NEW i, NEW n
  PROVE  Shuffled(a, a, i, n)
<1> DEFINE p == [k \in i .. n |-> k]
<1>1. /\ p \in [i .. n -> i .. n]
      /\ \A k, l \in i .. n : p[k] = p[l] => k = l
      /\ \A l \in i .. n : \E k \in i .. n : p[k] = l
      /\ \A k \in Index : a[k] = IF k \in i .. n THEN a[p[k]] ELSE a[k]
  OBVIOUS
<1> HIDE DEF p
<1> QED
  BY <1>1, Zenon DEF Shuffled

\* One exchange more.
LEMMA ShuffledSwap ==
  ASSUME NEW a \in Arrays, NEW c \in Arrays, NEW i \in 1 .. MaxLen,
         NEW n \in 1 .. MaxLen, NEW j \in i .. n, NEW l \in i .. n,
         Shuffled(a, c, i, n)
  PROVE  Shuffled(a, Exchange(c, j, l), i, n)
<1>1. PICK p \in [i .. n -> i .. n] :
        /\ \A x, y \in i .. n : p[x] = p[y] => x = y
        /\ \A y \in i .. n : \E x \in i .. n : p[x] = y
        /\ \A k \in Index : c[k] = IF k \in i .. n THEN a[p[k]] ELSE a[k]
  BY DEF Shuffled
<1> DEFINE e == Exchange(c, j, l)
           q == [k \in i .. n |-> IF k = j THEN p[l] ELSE IF k = l THEN p[j] ELSE p[k]]
<1>2. i .. n \subseteq Index
  BY LenAssumption DEF Index
<1>3. \A k \in Index : e[k] = IF k = j THEN c[l] ELSE IF k = l THEN c[j] ELSE c[k]
  BY <1>2, ExchangeFacts
<1>4. q \in [i .. n -> i .. n]
  OBVIOUS
<1>5. \A x, y \in i .. n : q[x] = q[y] => x = y
  BY <1>1
<1>6. ASSUME NEW y \in i .. n PROVE \E x \in i .. n : q[x] = y
  <2>1. PICK x \in i .. n : p[x] = y
    BY <1>1
  <2>2. CASE x = j
    <3>1. q[l] = y
      BY <2>1, <2>2
    <3> QED
      BY <3>1
  <2>3. CASE x = l /\ x # j
    <3>1. q[j] = y
      BY <2>1, <2>3
    <3> QED
      BY <3>1
  <2>4. CASE x # j /\ x # l
    <3>1. q[x] = y
      BY <2>1, <2>4
    <3> QED
      BY <3>1
  <2> QED
    BY <2>2, <2>3, <2>4
<1>7. \A k \in Index : e[k] = IF k \in i .. n THEN a[q[k]] ELSE a[k]
  <2> HIDE DEF e
  <2>1. ASSUME NEW k \in Index PROVE e[k] = IF k \in i .. n THEN a[q[k]] ELSE a[k]
    <3>1. CASE k \notin i .. n
      BY <1>1, <1>3, <3>1
    <3>2. CASE k \in i .. n
      BY <1>1, <1>2, <1>3, <3>2
    <3> QED
      BY <3>1, <3>2
  <2> QED
    BY <2>1
<1> HIDE DEF e, q
<1>8. Shuffled(a, e, i, n)
  BY <1>4, <1>5, <1>6, <1>7, Zenon DEF Shuffled
<1> QED
  BY <1>8 DEF e

\* First i .. n and then a part of it.
LEMMA ShuffledThen ==
  ASSUME NEW a \in Arrays, NEW b \in Arrays, NEW c \in Arrays,
         NEW n \in 0 .. MaxLen, NEW i \in 1 .. n,
         Shuffled(a, b, 1, n), Shuffled(b, c, i, n)
  PROVE  Shuffled(a, c, 1, n)
<1>1. PICK p \in [1 .. n -> 1 .. n] :
        /\ \A x, y \in 1 .. n : p[x] = p[y] => x = y
        /\ \A y \in 1 .. n : \E x \in 1 .. n : p[x] = y
        /\ \A k \in Index : b[k] = IF k \in 1 .. n THEN a[p[k]] ELSE a[k]
  BY DEF Shuffled
<1>2. PICK q \in [i .. n -> i .. n] :
        /\ \A x, y \in i .. n : q[x] = q[y] => x = y
        /\ \A y \in i .. n : \E x \in i .. n : q[x] = y
        /\ \A k \in Index : c[k] = IF k \in i .. n THEN b[q[k]] ELSE b[k]
  BY DEF Shuffled
<1> DEFINE w == [k \in 1 .. n |-> IF k \in i .. n THEN q[k] ELSE k]
           r == [k \in 1 .. n |-> p[w[k]]]
<1>3. i .. n \subseteq 1 .. n /\ 1 .. n \subseteq Index
  <2>1. n \in Nat /\ n <= MaxLen /\ MaxLen \in Nat
    BY LenAssumption
  <2>2. \A k \in i .. n : k \in 1 .. n
    BY <2>1
  <2>3. \A k \in 1 .. n : k \in Index
    BY <2>1 DEF Index
  <2> QED
    BY <2>2, <2>3
<1>4. /\ w \in [1 .. n -> 1 .. n]
      /\ \A x, y \in 1 .. n : w[x] = w[y] => x = y
      /\ \A y \in 1 .. n : \E x \in 1 .. n : w[x] = y
      /\ \A k \in 1 .. n : c[k] = b[w[k]]
  <2>1. w \in [1 .. n -> 1 .. n]
    BY <1>3
  <2>2. ASSUME NEW x \in 1 .. n, NEW y \in 1 .. n, w[x] = w[y] PROVE x = y
    <3>1. CASE x \in i .. n /\ y \in i .. n
      BY <1>2, <2>2, <3>1
    <3>2. CASE x \notin i .. n /\ y \notin i .. n
      BY <2>2, <3>2
    <3>3. CASE x \in i .. n /\ y \notin i .. n
      <4>1. w[x] \in i .. n /\ w[y] = y
        BY <3>3
      <4> QED
        BY <2>2, <3>3, <4>1
    <3>4. CASE x \notin i .. n /\ y \in i .. n
      <4>1. w[y] \in i .. n /\ w[x] = x
        BY <3>4
      <4> QED
        BY <2>2, <3>4, <4>1
    <3> QED
      BY <3>1, <3>2, <3>3, <3>4
  <2>3. ASSUME NEW y \in 1 .. n PROVE \E x \in 1 .. n : w[x] = y
    <3>1. CASE y \in i .. n
      BY <1>2, <1>3, <3>1
    <3>2. CASE y \notin i .. n
      BY <3>2
    <3> QED
      BY <3>1, <3>2
  <2>4. \A k \in 1 .. n : c[k] = b[w[k]]
    BY <1>2, <1>3
  <2> QED
    BY <2>1, <2>2, <2>3, <2>4
<1> HIDE DEF w
<1>5. /\ r \in [1 .. n -> 1 .. n]
      /\ \A x, y \in 1 .. n : r[x] = r[y] => x = y
  <2>1. r \in [1 .. n -> 1 .. n]
    BY <1>4
  <2>2. ASSUME NEW x \in 1 .. n, NEW y \in 1 .. n, r[x] = r[y] PROVE x = y
    <3>1. w[x] \in 1 .. n /\ w[y] \in 1 .. n /\ p[w[x]] = p[w[y]]
      BY <1>4, <2>2
    <3>2. \A k, l \in 1 .. n : p[k] = p[l] => k = l
      BY <1>1
    <3>3. w[x] = w[y]
      BY <3>1, <3>2
    <3> QED
      BY <1>4, <3>3
  <2> QED
    BY <2>1, <2>2
<1>6. ASSUME NEW y \in 1 .. n PROVE \E x \in 1 .. n : r[x] = y
  <2>1. PICK z \in 1 .. n : p[z] = y
    BY <1>1
  <2>2. PICK x \in 1 .. n : w[x] = z
    BY <1>4
  <2> QED
    BY <2>1, <2>2
<1>7. \A k \in Index : c[k] = IF k \in 1 .. n THEN a[r[k]] ELSE a[k]
  <2>1. ASSUME NEW k \in Index PROVE c[k] = IF k \in 1 .. n THEN a[r[k]] ELSE a[k]
    <3>1. CASE k \in 1 .. n
      BY <1>1, <1>3, <1>4, <3>1
    <3>2. CASE k \notin 1 .. n
      BY <1>1, <1>2, <1>3, <3>2
    <3> QED
      BY <3>1, <3>2
  <2> QED
    BY <2>1
<1> HIDE DEF r
<1> QED
  BY <1>5, <1>6, <1>7, Zenon DEF Shuffled

\* What is outside stays, and what is inside stays inside.
LEMMA ShuffledValues ==
  ASSUME NEW a, NEW c, NEW i, NEW n, Shuffled(a, c, i, n)
  PROVE  /\ \A k \in Index : k \notin i .. n => c[k] = a[k]
         /\ \A k \in Index : k \in i .. n => \E l \in i .. n : c[k] = a[l]
         /\ i .. n \subseteq Index => \A l \in i .. n : \E k \in i .. n : c[k] = a[l]
BY DEF Shuffled

\* The slots of n entries are slots of the array.
LEMMA Range0 ==
  ASSUME NEW n \in 0 .. MaxLen
  PROVE  n \in Nat /\ 1 .. n \subseteq 1 .. MaxLen /\ 1 .. n \subseteq Index
<1>1. MaxLen \in Nat
  BY LenAssumption
<1>2. \A k \in 1 .. n : k \in 1 .. MaxLen /\ k \in Index
  BY <1>1 DEF Index
<1> QED
  BY <1>1, <1>2

\* The slots from the i-th entry on.
LEMMA Range1 ==
  ASSUME NEW n \in 0 .. MaxLen, NEW i \in 1 .. n
  PROVE  /\ n \in 1 .. MaxLen /\ i \in 1 .. MaxLen /\ i \in i .. n
         /\ i .. n \subseteq 1 .. n /\ 1 .. n \subseteq Index
<1>1. MaxLen \in Nat
  BY LenAssumption
<1>2. \A k \in i .. n : k \in 1 .. n
  BY <1>1
<1>3. \A k \in 1 .. n : k \in Index
  BY <1>1 DEF Index
<1> QED
  BY <1>1, <1>2, <1>3

\* The inner loop of the first pass brings the earliest date to slot i.
LEMMA InnerDateDoes ==
  ASSUME NEW a \in Arrays, NEW n \in 0 .. MaxLen, NEW i \in 1 .. n
  PROVE  /\ InnerDate(a, i, n) \in Arrays
         /\ Shuffled(a, InnerDate(a, i, n), i, n)
         /\ \A k \in i .. n : InnerDate(a, i, n)[i].date <= InnerDate(a, i, n)[k].date
<1> DEFINE m == n - i
<1>1. PICK t \in [0 .. m -> Arrays] :
        /\ t[0] = a /\ t[m] = InnerDate(a, i, n)
        /\ \A d \in 1 .. m : t[d] = ByDate(t[d - 1], i, i + d)
  BY InnerDateRun
<1>2. /\ m \in Nat /\ i \in Nat /\ n = i + m
      /\ n \in 1 .. MaxLen /\ i \in 1 .. MaxLen /\ i \in i .. n
      /\ i .. n \subseteq Index
  BY Range1
<1> DEFINE P == {d \in 0 .. m : /\ Shuffled(a, t[d], i, n)
                                /\ \A k \in i .. i + d : t[d][i].date <= t[d][k].date}
<1> HIDE DEF m
<1>3. 0 \in P
  <2>1. Shuffled(a, t[0], i, n)
    BY <1>1, ShuffledSame
  <2>2. \A k \in i .. i + 0 : k = i
    BY <1>2
  <2>3. t[0][i].date \in Nat
    BY <1>1, <1>2, SlotFacts DEF Arrays
  <2>4. \A k \in i .. i + 0 : t[0][i].date <= t[0][k].date
    BY <2>2, <2>3
  <2>5. 0 \in 0 .. m
    BY <1>2
  <2> QED
    BY <2>1, <2>4, <2>5
<1>4. ASSUME NEW d \in 1 .. m, d - 1 \in P PROVE d \in P
  <2> DEFINE c == t[d - 1]
             j == i + d
  <2>1. /\ c \in Arrays /\ Shuffled(a, c, i, n)
        /\ \A k \in i .. i + (d - 1) : c[i].date <= c[k].date
        /\ t[d] = ByDate(c, i, j)
        /\ d \in 0 .. m
    BY <1>1, <1>2, <1>4
  <2>2. j \in i .. n /\ j # i /\ j \in Index /\ i \in Index
    BY <1>2
  <2>3. \A k \in i .. i + d : k \in Index /\ (k = j \/ k \in i .. i + (d - 1))
    BY <1>2, <2>2
  <2>4. \A k \in Index : c[k].date \in Nat
    BY <2>1, SlotFacts DEF Arrays
  <2> HIDE DEF c, j
  <2>5. CASE c[i].date > c[j].date
    <3>1. t[d] = Exchange(c, i, j)
      BY <2>1, <2>5 DEF ByDate
    <3>2. Shuffled(a, t[d], i, n)
      BY <1>2, <2>1, <2>2, <3>1, ShuffledSwap
    <3>3. \A k \in Index : t[d][k] = IF k = i THEN c[j] ELSE IF k = j THEN c[i] ELSE c[k]
      <4>1. c \in Arrays
        BY <2>1
      <4> QED
        BY <2>2, <3>1, <4>1, ExchangeFacts
    <3>4. ASSUME NEW k \in i .. i + d PROVE t[d][i].date <= t[d][k].date
      <4>1. t[d][i] = c[j]
        BY <2>2, <3>3
      <4>2. CASE k = i
        BY <2>2, <2>4, <4>1, <4>2
      <4>3. CASE k = j
        BY <2>2, <2>4, <2>5, <3>3, <4>1, <4>3
      <4>4. CASE k # i /\ k # j
        <5>1. t[d][k] = c[k] /\ c[i].date <= c[k].date /\ k \in Index
          BY <2>1, <2>3, <3>3, <4>4
        <5> QED
          BY <2>2, <2>4, <2>5, <4>1, <5>1
      <4> QED
        BY <4>2, <4>3, <4>4
    <3> QED
      BY <2>1, <3>2, <3>4
  <2>6. CASE ~(c[i].date > c[j].date)
    <3>1. t[d] = c
      BY <2>1, <2>6 DEF ByDate
    <3>2. ASSUME NEW k \in i .. i + d PROVE t[d][i].date <= t[d][k].date
      <4>1. CASE k = j
        BY <2>2, <2>4, <2>6, <3>1, <4>1
      <4>2. CASE k # j
        BY <2>1, <2>3, <3>1, <4>2
      <4> QED
        BY <4>1, <4>2
    <3> QED
      BY <2>1, <3>1, <3>2
  <2> QED
    BY <2>5, <2>6
<1> HIDE DEF P
<1>5. m \in P
  <2>1. 0 .. m \subseteq P
    BY <1>2, <1>3, <1>4, UpTo
  <2> QED
    BY <1>2, <2>1
<1>6. t[m] \in Arrays
  BY <1>1, <1>2
<1> QED
  BY <1>1, <1>2, <1>5, <1>6 DEF P

\* ... the outer one of dates ...
LEMMA DatePassRun ==
  ASSUME NEW a \in Arrays, NEW n \in 0 .. MaxLen
  PROVE  \E t \in [0 .. n -> Arrays] :
           /\ t[0] = a /\ t[n] = DatePass(a, n)
           /\ \A d \in 1 .. n : t[d] = InnerDate(t[d - 1], d, n)
<1> DEFINE m == n
           st == [p \in Arrays \X (1 .. m) |-> InnerDate(p[1], p[2], n)]
           sq == [d \in 1 .. m |-> d]
           it[s \in SUBSET (DOMAIN sq)] ==
             IF s = {} THEN a ELSE InnerDate(it[s \ {Max(s)}], sq[Max(s)], n)
           t == [k \in 0 .. m |-> it[1 .. k]]
<1>1. m \in Nat /\ a \in Arrays
  BY LenAssumption
<1>2. \A c \in Arrays, d \in 1 .. m : InnerDate(c, d, n) \in Arrays
  BY InnerDateDoes
<1>3. DatePass(a, n) = it[1 .. m]
  <2>1. DatePass(a, n) = it[DOMAIN sq]
    BY Zenon DEF DatePass, FoldLeft, MapThenFoldSet
  <2> QED
    BY <2>1
<1> HIDE DEF m
<1>4. st \in [Arrays \X (1 .. m) -> Arrays]
  BY <1>2
<1>5. PICK g \in [SUBSET (1 .. m) -> Arrays] : IsFold(g, m, a, st)
  <2> HIDE DEF st
  <2> QED
    BY <1>1, <1>4, FoldExists
<1>6. \A c \in Arrays, s \in SUBSET (1 .. m) :
        s # {} => /\ Max(s) \in 1 .. m /\ sq[Max(s)] = Max(s)
                  /\ s \ {Max(s)} \in SUBSET (1 .. m)
                  /\ st[<<c, Max(s)>>] = InnerDate(c, sq[Max(s)], n)
  BY <1>1, MaxIn
<1>7. it = [s \in SUBSET (DOMAIN sq) |->
              IF s = {} THEN a ELSE InnerDate(it[s \ {Max(s)}], sq[Max(s)], n)]
  <2> HIDE DEF st
  <2>1. \A s \in SUBSET (1 .. m) :
          g[s] = IF s = {} THEN a ELSE InnerDate(g[s \ {Max(s)}], sq[Max(s)], n)
    BY <1>5, <1>6 DEF IsFold
  <2>2. g = [s \in SUBSET (DOMAIN sq) |->
               IF s = {} THEN a ELSE InnerDate(g[s \ {Max(s)}], sq[Max(s)], n)]
    BY <2>1
  <2> QED
    BY <2>2, Zenon
<1> HIDE DEF it
<1>8. Runs(it, m, Arrays, a, st)
  <2>1. it[{}] = a
    BY <1>7
  <2>2. ASSUME NEW s \in SUBSET (1 .. m), s # {}, it[s \ {Max(s)}] \in Arrays
        PROVE  it[s] = st[<<it[s \ {Max(s)}], Max(s)>>]
    <3>1. s \in SUBSET (DOMAIN sq)
      OBVIOUS
    <3> HIDE DEF st, sq
    <3>2. it[s] = InnerDate(it[s \ {Max(s)}], sq[Max(s)], n)
      BY <1>7, <3>1, <2>2, Zenon
    <3> QED
      BY <3>2, <1>6, <2>2, Zenon
  <2> HIDE DEF st
  <2>3. Unfolds(it, m, Arrays, a, st)
    BY <2>1, <2>2, Zenon DEF Unfolds
  <2> QED
    BY <1>1, <1>4, <2>3, FoldRun
<1>9. t \in [0 .. m -> Arrays] /\ t[0] = a /\ t[m] = DatePass(a, n)
  BY <1>1, <1>8, <1>3 DEF Runs
<1>10. ASSUME NEW d \in 1 .. m PROVE t[d] = InnerDate(t[d - 1], d, n)
  <2>1. d - 1 \in 0 .. m /\ d \in 0 .. m
    BY <1>1
  <2>2. t[d] = it[1 .. d] /\ t[d - 1] = it[1 .. d - 1] /\ it[1 .. d - 1] \in Arrays
    BY <2>1, <1>8 DEF Runs
  <2>3. it[1 .. d] = st[<<it[1 .. d - 1], d>>]
    BY <1>8 DEF Runs
  <2> HIDE DEF t
  <2> QED
    BY <2>2, <2>3
<1> QED
  BY <1>9, <1>10 DEF m

SortedDates(a, n) == \A k \in 1 .. n : \A l \in k .. n : a[k].date <= a[l].date

\* The first pass permutes the first n slots and puts them in the order of
\* their dates.
LEMMA DatePassDoes ==
  ASSUME NEW a \in Arrays, NEW n \in 0 .. MaxLen
  PROVE  /\ DatePass(a, n) \in Arrays
         /\ Shuffled(a, DatePass(a, n), 1, n)
         /\ SortedDates(DatePass(a, n), n)
<1>1. PICK t \in [0 .. n -> Arrays] :
        /\ t[0] = a /\ t[n] = DatePass(a, n)
        /\ \A d \in 1 .. n : t[d] = InnerDate(t[d - 1], d, n)
  BY DatePassRun
<1>2. n \in Nat
  BY LenAssumption
<1> DEFINE P == {d \in 0 .. n :
                   /\ Shuffled(a, t[d], 1, n)
                   /\ \A k \in 1 .. d : \A l \in k .. n : t[d][k].date <= t[d][l].date}
<1>3. 0 \in P
  <2>1. Shuffled(a, t[0], 1, n)
    BY <1>1, ShuffledSame
  <2>2. 0 \in 0 .. n /\ \A k \in 1 .. 0 : FALSE
    BY <1>2
  <2> QED
    BY <2>1, <2>2
<1>4. ASSUME NEW d \in 1 .. n, d - 1 \in P PROVE d \in P
  <2> DEFINE b == t[d - 1]
             c == t[d]
  <2>1. /\ b \in Arrays /\ Shuffled(a, b, 1, n) /\ d \in 0 .. n
        /\ \A k \in 1 .. d - 1 : \A l \in k .. n : b[k].date <= b[l].date
        /\ c = InnerDate(b, d, n)
    BY <1>1, <1>2, <1>4
  <2> HIDE DEF b, c
  <2>2. /\ c \in Arrays /\ Shuffled(b, c, d, n)
        /\ \A k \in d .. n : c[d].date <= c[k].date
    BY <2>1, InnerDateDoes
  <2>3. Shuffled(a, c, 1, n)
    BY <2>1, <2>2, ShuffledThen
  <2>4. ASSUME NEW k \in 1 .. d, NEW l \in k .. n PROVE c[k].date <= c[l].date
    <3>1. /\ k \in Index /\ l \in Index /\ d .. n \subseteq 1 .. n
          /\ k = d \/ (k \in 1 .. d - 1 /\ k \notin d .. n)
      BY <1>2, Range1
    <3>2. CASE k = d
      BY <2>2, <3>2
    <3>3. CASE k # d
      <4>1. c[k] = b[k]
        BY <2>2, <3>1, <3>3, ShuffledValues
      <4>2. CASE l \in d .. n
        <5>1. PICK y \in d .. n : c[l] = b[y]
          BY <2>2, <3>1, <4>2, ShuffledValues
        <5>2. y \in k .. n
          BY <1>2, <5>1
        <5> QED
          BY <2>1, <3>1, <3>3, <4>1, <5>1, <5>2
      <4>3. CASE l \notin d .. n
        <5>1. c[l] = b[l]
          BY <2>2, <3>1, <4>3, ShuffledValues
        <5> QED
          BY <2>1, <3>1, <3>3, <4>1, <5>1
      <4> QED
        BY <4>2, <4>3
    <3> QED
      BY <3>2, <3>3
  <2> QED
    BY <2>1, <2>3, <2>4 DEF c
<1> HIDE DEF P
<1>5. n \in P
  <2>1. 0 .. n \subseteq P
    BY <1>2, <1>3, <1>4, UpTo
  <2> QED
    BY <1>2, <2>1
<1>6. t[n] \in Arrays
  BY <1>1, <1>2
<1> QED
  BY <1>1, <1>5, <1>6 DEF P, SortedDates
-----------------------------------------------------------------------------
\* Whatever the array holds, the inner loop of the second pass leaves each
\* slot its date, and the clean slots, which it does not take for entries.
LEMMA InnerTimeKeeps ==
  ASSUME NEW a \in Arrays, NEW i \in 1 .. MaxLen
  PROVE  /\ InnerTime(a, i) \in Arrays
         /\ \A k \in Index : InnerTime(a, i)[k].date = a[k].date
         /\ a[i].date # 0 => \A k \in Index : a[k].date = 0 => InnerTime(a, i)[k] = a[k]
<1> DEFINE m == Len(a) - i
<1>1. PICK t \in [0 .. m -> Scans] :
        /\ t[0] = [arr |-> a, on |-> TRUE] /\ t[m].arr = InnerTime(a, i)
        /\ \A d \in 1 .. m : t[d] = ByTime(t[d - 1], i, i + d)
  BY InnerTimeRun
<1>2. m \in Nat /\ \A d \in 1 .. m : i \in Index /\ i + d \in Index
  BY LenAssumption, ArrayLen DEF Index
<1> HIDE DEF m
<1> DEFINE P == {d \in 0 .. m :
                   /\ \A k \in Index : t[d].arr[k].date = a[k].date
                   /\ a[i].date # 0 => \A k \in Index : a[k].date = 0 => t[d].arr[k] = a[k]}
<1>3. 0 \in P
  BY <1>1, <1>2
<1>4. ASSUME NEW d \in 1 .. m, d - 1 \in P PROVE d \in P
  <2> DEFINE s == t[d - 1]
             j == i + d
  <2>1. /\ s \in Scans /\ t[d] = ByTime(s, i, j) /\ d \in 0 .. m
        /\ \A k \in Index : s.arr[k].date = a[k].date
        /\ a[i].date # 0 => \A k \in Index : a[k].date = 0 => s.arr[k] = a[k]
        /\ i \in Index /\ j \in Index
    BY <1>1, <1>2, <1>4
  <2> HIDE DEF s, j
  <2>2. s.arr \in Arrays /\ s.on \in BOOLEAN
    BY <2>1 DEF Scans
  <2>3. CASE t[d].arr = s.arr
    BY <2>1, <2>3
  <2>4. CASE t[d].arr = Exchange(s.arr, i, j) /\ s.arr[i].date = s.arr[j].date
    <3>1. \A k \in Index : t[d].arr[k] =
            IF k = i THEN s.arr[j] ELSE IF k = j THEN s.arr[i] ELSE s.arr[k]
      <4> DEFINE b == s.arr
      <4>1. b \in Arrays /\ i \in Index /\ j \in Index
        BY <2>1, <2>2
      <4> HIDE DEF b
      <4>2. \A k \in Index : Exchange(b, i, j)[k] =
              IF k = i THEN b[j] ELSE IF k = j THEN b[i] ELSE b[k]
        BY <4>1, ExchangeFacts
      <4> QED
        BY <2>4, <4>2 DEF b
    <3>2. \A k \in Index : t[d].arr[k].date = a[k].date
      BY <2>1, <2>4, <3>1
    <3>3. ASSUME a[i].date # 0, NEW k \in Index, a[k].date = 0 PROVE t[d].arr[k] = a[k]
      <4>1. k # i /\ k # j
        BY <2>1, <2>4, <3>3
      <4> QED
        BY <2>1, <3>1, <3>3, <4>1
    <3> QED
      BY <2>1, <3>2, <3>3
  <2>5. /\ ~s.on \/ s.arr[i].date # s.arr[j].date => t[d].arr = s.arr
        /\ s.on /\ s.arr[i].date = s.arr[j].date =>
             t[d].arr = s.arr \/ t[d].arr = Exchange(s.arr, i, j)
    <3>1. s \in Scans /\ i \in Index /\ j \in Index
      BY <2>1
    <3>2. /\ ~s.on \/ s.arr[i].date # s.arr[j].date => ByTime(s, i, j).arr = s.arr
          /\ s.on /\ s.arr[i].date = s.arr[j].date =>
               ByTime(s, i, j).arr = s.arr \/ ByTime(s, i, j).arr = Exchange(s.arr, i, j)
      BY <3>1, ByTimeFacts
    <3> QED
      BY <2>1, <3>2
  <2> QED
    BY <2>2, <2>3, <2>4, <2>5
<1> HIDE DEF P
<1>5. m \in P
  <2>1. 0 .. m \subseteq P
    BY <1>2, <1>3, <1>4, UpTo
  <2> QED
    BY <1>2, <2>1
<1>6. t[m].arr \in Arrays
  BY <1>1, <1>2 DEF Scans
<1> QED
  BY <1>1, <1>5, <1>6 DEF P

\* ... and the outer one of times.
LEMMA TimePassRun ==
  ASSUME NEW a \in Arrays, NEW n \in 0 .. MaxLen
  PROVE  \E t \in [0 .. n -> Arrays] :
           /\ t[0] = a /\ t[n] = TimePass(a, n)
           /\ \A d \in 1 .. n : t[d] = InnerTime(t[d - 1], d)
<1> DEFINE m == n
           st == [p \in Arrays \X (1 .. m) |-> InnerTime(p[1], p[2])]
           sq == [d \in 1 .. m |-> d]
           it[s \in SUBSET (DOMAIN sq)] ==
             IF s = {} THEN a ELSE InnerTime(it[s \ {Max(s)}], sq[Max(s)])
           t == [k \in 0 .. m |-> it[1 .. k]]
<1>1. m \in Nat /\ a \in Arrays
  BY LenAssumption
<1>2. \A c \in Arrays, d \in 1 .. m : InnerTime(c, d) \in Arrays
  BY LenAssumption, InnerTimeKeeps
<1>3. TimePass(a, n) = it[1 .. m]
  <2>1. TimePass(a, n) = it[DOMAIN sq]
    BY Zenon DEF TimePass, FoldLeft, MapThenFoldSet
  <2> QED
    BY <2>1
<1> HIDE DEF m
<1>4. st \in [Arrays \X (1 .. m) -> Arrays]
  BY <1>2
<1>5. PICK g \in [SUBSET (1 .. m) -> Arrays] : IsFold(g, m, a, st)
  <2> HIDE DEF st
  <2> QED
    BY <1>1, <1>4, FoldExists
<1>6. \A c \in Arrays, s \in SUBSET (1 .. m) :
        s # {} => /\ Max(s) \in 1 .. m /\ sq[Max(s)] = Max(s)
                  /\ s \ {Max(s)} \in SUBSET (1 .. m)
                  /\ st[<<c, Max(s)>>] = InnerTime(c, sq[Max(s)])
  BY <1>1, MaxIn
<1>7. it = [s \in SUBSET (DOMAIN sq) |->
              IF s = {} THEN a ELSE InnerTime(it[s \ {Max(s)}], sq[Max(s)])]
  <2> HIDE DEF st
  <2>1. \A s \in SUBSET (1 .. m) :
          g[s] = IF s = {} THEN a ELSE InnerTime(g[s \ {Max(s)}], sq[Max(s)])
    BY <1>5, <1>6 DEF IsFold
  <2>2. g = [s \in SUBSET (DOMAIN sq) |->
               IF s = {} THEN a ELSE InnerTime(g[s \ {Max(s)}], sq[Max(s)])]
    BY <2>1
  <2> QED
    BY <2>2, Zenon
<1> HIDE DEF it
<1>8. Runs(it, m, Arrays, a, st)
  <2>1. it[{}] = a
    BY <1>7
  <2>2. ASSUME NEW s \in SUBSET (1 .. m), s # {}, it[s \ {Max(s)}] \in Arrays
        PROVE  it[s] = st[<<it[s \ {Max(s)}], Max(s)>>]
    <3>1. s \in SUBSET (DOMAIN sq)
      OBVIOUS
    <3> HIDE DEF st, sq
    <3>2. it[s] = InnerTime(it[s \ {Max(s)}], sq[Max(s)])
      BY <1>7, <3>1, <2>2, Zenon
    <3> QED
      BY <3>2, <1>6, <2>2, Zenon
  <2> HIDE DEF st
  <2>3. Unfolds(it, m, Arrays, a, st)
    BY <2>1, <2>2, Zenon DEF Unfolds
  <2> QED
    BY <1>1, <1>4, <2>3, FoldRun
<1>9. t \in [0 .. m -> Arrays] /\ t[0] = a /\ t[m] = TimePass(a, n)
  BY <1>1, <1>8, <1>3 DEF Runs
<1>10. ASSUME NEW d \in 1 .. m PROVE t[d] = InnerTime(t[d - 1], d)
  <2>1. d - 1 \in 0 .. m /\ d \in 0 .. m
    BY <1>1
  <2>2. t[d] = it[1 .. d] /\ t[d - 1] = it[1 .. d - 1] /\ it[1 .. d - 1] \in Arrays
    BY <2>1, <1>8 DEF Runs
  <2>3. it[1 .. d] = st[<<it[1 .. d - 1], d>>]
    BY <1>8 DEF Runs
  <2> HIDE DEF t
  <2> QED
    BY <2>2, <2>3
<1> QED
  BY <1>9, <1>10 DEF m

\* The entries of a file fill the first n slots, and the others are clean.
Filled(a, n) == \A k \in Index : a[k].date # 0 <=> k \in 1 .. n

\* Then the loop stays inside the schedule, and brings the earliest time of
\* its date to slot i.
LEMMA InnerTimeDoes ==
  ASSUME NEW a \in Arrays, NEW n \in 0 .. MaxLen, NEW i \in 1 .. n,
         SortedDates(a, n), Filled(a, n)
  PROVE  /\ Shuffled(a, InnerTime(a, i), i, n)
         /\ \A k \in i .. n : a[k].date = a[i].date =>
              InnerTime(a, i)[i].time <= InnerTime(a, i)[k].time
<1>0. /\ n \in 1 .. MaxLen /\ i \in 1 .. MaxLen /\ i \in i .. n
      /\ i .. n \subseteq 1 .. n /\ i .. n \subseteq Index
  BY Range1
<1> DEFINE m == Len(a) - i
<1>1. PICK t \in [0 .. m -> Scans] :
        /\ t[0] = [arr |-> a, on |-> TRUE] /\ t[m].arr = InnerTime(a, i)
        /\ \A d \in 1 .. m : t[d] = ByTime(t[d - 1], i, i + d)
  BY <1>0, InnerTimeRun
<1>2. /\ m \in Nat /\ i \in Nat /\ i + m = MaxLen + 1 /\ i \in Index /\ n <= i + m
      /\ \A d \in 1 .. m : i + d \in Index
  BY <1>0, LenAssumption, ArrayLen DEF Index
<1> HIDE DEF m
<1> DEFINE SameTo(k) == \A l \in i .. k : a[l].date = a[i].date
           P == {d \in 0 .. m :
                   /\ Shuffled(a, t[d].arr, i, n)
                   /\ \A k \in Index : t[d].arr[k].date = a[k].date
                   /\ t[d].on <=> SameTo(i + d)
                   /\ \A k \in i .. i + d : SameTo(k) => t[d].arr[i].time <= t[d].arr[k].time}
<1>3. 0 \in P
  <2>1. t[0].arr = a /\ t[0].on = TRUE /\ 0 \in 0 .. m
    BY <1>1, <1>2
  <2>2. Shuffled(a, t[0].arr, i, n)
    BY <2>1, ShuffledSame
  <2>3. \A k \in i .. i + 0 : k = i
    BY <1>2
  <2>4. a[i].time \in Nat
    BY <1>2, SlotFacts DEF Arrays
  <2>5. \A k \in i .. i + 0 : t[0].arr[i].time <= t[0].arr[k].time
    BY <2>1, <2>3, <2>4
  <2>6. SameTo(i + 0)
    BY <2>3
  <2> HIDE DEF SameTo
  <2> QED
    BY <2>1, <2>2, <2>5, <2>6
<1>4. ASSUME NEW d \in 1 .. m, d - 1 \in P PROVE d \in P
  <2> DEFINE s == t[d - 1]
             j == i + d
  <2>1. /\ s \in Scans /\ t[d] = ByTime(s, i, j) /\ d \in 0 .. m
        /\ Shuffled(a, s.arr, i, n)
        /\ \A k \in Index : s.arr[k].date = a[k].date
        /\ s.on <=> SameTo(i + (d - 1))
        /\ \A k \in i .. i + (d - 1) : SameTo(k) => s.arr[i].time <= s.arr[k].time
    <3> HIDE DEF SameTo
    <3> QED
      BY <1>1, <1>2, <1>4
  <2>2. i \in Index /\ j \in Index /\ j # i
    BY <1>2
  <2>3. \A k \in i .. i + d : k \in Index /\ (k = j \/ k \in i .. i + (d - 1))
    BY <1>2
  <2>4. SameTo(i + d) <=> SameTo(i + (d - 1)) /\ a[j].date = a[i].date
    BY <1>2, <2>3
  <2>5. s.arr \in Arrays /\ s.on \in BOOLEAN
    BY <2>1 DEF Scans
  <2>6. \A k \in i .. i + d : SameTo(i + d) => SameTo(k)
    BY <1>2
  <2>7. SameTo(j) <=> SameTo(i + d)
    OBVIOUS
  <2> HIDE DEF s, j, SameTo
  <2>8. /\ s.arr[i].date = a[i].date /\ s.arr[j].date = a[j].date
        /\ \A k \in Index : s.arr[k].time \in Nat
    BY <2>1, <2>2, <2>5, SlotFacts DEF Arrays
  <2>11. /\ ~s.on \/ s.arr[i].date # s.arr[j].date => t[d].on = FALSE /\ t[d].arr = s.arr
         /\ s.on /\ s.arr[i].date = s.arr[j].date =>
              /\ t[d].on = TRUE
              /\ t[d].arr = IF s.arr[i].time > s.arr[j].time
                            THEN Exchange(s.arr, i, j) ELSE s.arr
    <3>1. s \in Scans /\ i \in Index /\ j \in Index
      BY <2>1, <2>2
    <3>2. t[d] = ByTime(s, i, j)
      BY <2>1
    <3>3. /\ ~s.on \/ s.arr[i].date # s.arr[j].date =>
               ByTime(s, i, j).on = FALSE /\ ByTime(s, i, j).arr = s.arr
          /\ s.on /\ s.arr[i].date = s.arr[j].date =>
               /\ ByTime(s, i, j).on = TRUE
               /\ ByTime(s, i, j).arr = IF s.arr[i].time > s.arr[j].time
                                        THEN Exchange(s.arr, i, j) ELSE s.arr
      BY <3>1, ByTimeFacts
    <3> QED
      BY <3>2, <3>3
  <2>9. CASE ~SameTo(i + d)
    <3>1. ~s.on \/ s.arr[i].date # s.arr[j].date
      BY <2>1, <2>4, <2>8, <2>9
    <3>2. t[d].on = FALSE /\ t[d].arr = s.arr
      BY <2>11, <3>1
    <3>3. \A k \in i .. i + d : SameTo(k) => t[d].arr[i].time <= t[d].arr[k].time
      BY <2>1, <2>3, <2>7, <2>9, <3>2
    <3> QED
      BY <2>1, <2>9, <3>2, <3>3
  <2>10. CASE SameTo(i + d)
    <3>1. s.on /\ s.arr[i].date = s.arr[j].date
      BY <2>1, <2>4, <2>8, <2>10
    <3>2. /\ t[d].on = TRUE
          /\ t[d].arr = IF s.arr[i].time > s.arr[j].time THEN Exchange(s.arr, i, j) ELSE s.arr
      BY <2>11, <3>1
    <3>3. j \in i .. n
      <4>1. a[i].date # 0 /\ a[j].date = a[i].date
        BY <1>0, <2>4, <2>10 DEF Filled
      <4>2. j \in 1 .. n
        BY <2>2, <4>1 DEF Filled
      <4> QED
        BY <1>2, <4>2 DEF j
    <3>4. \A k \in i .. i + (d - 1) : s.arr[i].time <= s.arr[k].time
      <4>1. \A k \in i .. i + (d - 1) : k \in i .. i + d
        BY <1>2
      <4> QED
        BY <2>1, <2>6, <2>10, <4>1
    <3>5. CASE s.arr[i].time > s.arr[j].time
      <4> DEFINE b == s.arr
      <4>1. b \in Arrays /\ Shuffled(a, b, i, n)
        BY <2>1, <2>5
      <4>2. t[d].arr = Exchange(b, i, j)
        BY <3>2, <3>5
      <4> HIDE DEF b
      <4>3. Shuffled(a, Exchange(b, i, j), i, n)
        BY <1>0, <3>3, <4>1, ShuffledSwap
      <4>4. \A k \in Index : t[d].arr[k] = IF k = i THEN b[j] ELSE IF k = j THEN b[i] ELSE b[k]
        BY <2>2, <4>1, <4>2, ExchangeFacts
      <4>5. \A k \in Index : t[d].arr[k].date = a[k].date
        BY <2>1, <3>1, <2>2, <4>4 DEF b
      <4>6. ASSUME NEW k \in i .. i + d PROVE t[d].arr[i].time <= t[d].arr[k].time
        <5>1. t[d].arr[i] = s.arr[j]
          BY <2>2, <4>4 DEF b
        <5>2. CASE k = i
          BY <2>2, <2>8, <5>1, <5>2
        <5>3. CASE k = j
          BY <2>2, <2>8, <3>5, <4>4, <5>1, <5>3 DEF b
        <5>4. CASE k # i /\ k # j
          <6>1. k \in Index /\ t[d].arr[k] = s.arr[k] /\ s.arr[i].time <= s.arr[k].time
            BY <2>3, <3>4, <4>4, <5>4 DEF b
          <6>2. s.arr[i].time \in Nat /\ s.arr[j].time \in Nat /\ s.arr[k].time \in Nat
            BY <2>2, <2>8, <6>1
          <6>3. s.arr[j].time <= s.arr[k].time
            BY <3>5, <6>1, <6>2
          <6> QED
            BY <5>1, <6>1, <6>3
        <5> QED
          BY <5>2, <5>3, <5>4
      <4> QED
        BY <2>1, <2>10, <3>2, <4>2, <4>3, <4>5, <4>6
    <3>6. CASE ~(s.arr[i].time > s.arr[j].time)
      <4>1. t[d].arr = s.arr
        BY <3>2, <3>6
      <4>2. ASSUME NEW k \in i .. i + d PROVE t[d].arr[i].time <= t[d].arr[k].time
        <5>1. CASE k = j
          BY <2>2, <2>8, <3>6, <4>1, <5>1
        <5>2. CASE k # j
          BY <2>3, <3>4, <4>1, <5>2
        <5> QED
          BY <5>1, <5>2
      <4> QED
        BY <2>1, <2>10, <3>2, <4>1, <4>2
    <3> QED
      BY <3>5, <3>6
  <2> QED
    BY <2>9, <2>10
<1>5. m \in P
  <2> HIDE DEF P
  <2>1. 0 .. m \subseteq P
    BY <1>2, <1>3, <1>4, UpTo
  <2> QED
    BY <1>2, <2>1
<1>6. ASSUME NEW k \in i .. n, a[k].date = a[i].date PROVE SameTo(k) /\ k \in i .. i + m
  <2>1. k \in i .. i + m
    BY <1>2
  <2>2. ASSUME NEW l \in i .. k PROVE a[l].date = a[i].date
    <3>1. i \in 1 .. n /\ l \in i .. n /\ l \in 1 .. n /\ k \in l .. n /\ l \in Index
      BY <1>0, <1>2
    <3>2. a[i].date <= a[l].date /\ a[l].date <= a[k].date
      BY <3>1 DEF SortedDates
    <3>3. a[i].date \in Nat /\ a[l].date \in Nat
      BY <1>2, <3>1, SlotFacts DEF Arrays
    <3> QED
      BY <1>6, <3>2, <3>3
  <2> QED
    BY <2>1, <2>2
<1>7. \A k \in i .. n : a[k].date = a[i].date => t[m].arr[i].time <= t[m].arr[k].time
  <2> HIDE DEF SameTo
  <2> QED
    BY <1>5, <1>6
<1>8. Shuffled(a, t[m].arr, i, n)
  BY <1>5
<1> QED
  BY <1>1, <1>7, <1>8

\* The whole second pass, on any array whose first n slots hold entries.
LEMMA TimePassKeeps ==
  ASSUME NEW a \in Arrays, NEW n \in 0 .. MaxLen, \A k \in 1 .. n : a[k].date # 0
  PROVE  /\ TimePass(a, n) \in Arrays
         /\ \A k \in Index : a[k].date = 0 => TimePass(a, n)[k] = a[k]
<1>1. PICK t \in [0 .. n -> Arrays] :
        /\ t[0] = a /\ t[n] = TimePass(a, n)
        /\ \A d \in 1 .. n : t[d] = InnerTime(t[d - 1], d)
  BY TimePassRun
<1>2. n \in Nat /\ 1 .. n \subseteq 1 .. MaxLen /\ 1 .. n \subseteq Index
  BY Range0
<1> DEFINE P == {d \in 0 .. n :
                   /\ \A k \in Index : t[d][k].date = a[k].date
                   /\ \A k \in Index : a[k].date = 0 => t[d][k] = a[k]}
<1>3. 0 \in P
  BY <1>1, <1>2
<1>4. ASSUME NEW d \in 1 .. n, d - 1 \in P PROVE d \in P
  <2> DEFINE b == t[d - 1]
  <2>1. /\ b \in Arrays /\ d \in 0 .. n /\ t[d] = InnerTime(b, d)
        /\ \A k \in Index : b[k].date = a[k].date
        /\ \A k \in Index : a[k].date = 0 => b[k] = a[k]
        /\ d \in 1 .. MaxLen /\ b[d].date # 0
    BY <1>1, <1>2, <1>4
  <2> HIDE DEF b
  <2>2. /\ \A k \in Index : t[d][k].date = b[k].date
        /\ \A k \in Index : b[k].date = 0 => t[d][k] = b[k]
    BY <2>1, InnerTimeKeeps
  <2> QED
    BY <2>1, <2>2
<1> HIDE DEF P
<1>5. n \in P
  <2>1. 0 .. n \subseteq P
    BY <1>2, <1>3, <1>4, UpTo
  <2> QED
    BY <1>2, <2>1
<1>6. t[n] \in Arrays
  BY <1>1, <1>2
<1> QED
  BY <1>1, <1>5, <1>6 DEF P

\* And on the schedule alone, in the order of its dates: it permutes the n
\* entries, leaves the dates, and orders the times of each date.
LEMMA TimePassDoes ==
  ASSUME NEW a \in Arrays, NEW n \in 0 .. MaxLen, SortedDates(a, n), Filled(a, n)
  PROVE  /\ TimePass(a, n) \in Arrays
         /\ Shuffled(a, TimePass(a, n), 1, n)
         /\ \A k \in Index : TimePass(a, n)[k].date = a[k].date
         /\ \A k \in 1 .. n : \A l \in k .. n : a[k].date = a[l].date =>
              TimePass(a, n)[k].time <= TimePass(a, n)[l].time
<1>1. PICK t \in [0 .. n -> Arrays] :
        /\ t[0] = a /\ t[n] = TimePass(a, n)
        /\ \A d \in 1 .. n : t[d] = InnerTime(t[d - 1], d)
  BY TimePassRun
<1>2. n \in Nat /\ 1 .. n \subseteq 1 .. MaxLen /\ 1 .. n \subseteq Index
  BY Range0
<1> DEFINE P == {d \in 0 .. n :
                   /\ Shuffled(a, t[d], 1, n)
                   /\ \A k \in Index : t[d][k].date = a[k].date
                   /\ \A k \in 1 .. d : \A l \in k .. n :
                        a[k].date = a[l].date => t[d][k].time <= t[d][l].time}
<1>3. 0 \in P
  <2>1. Shuffled(a, t[0], 1, n)
    BY <1>1, ShuffledSame
  <2>2. 0 \in 0 .. n /\ \A k \in 1 .. 0 : FALSE
    BY <1>2
  <2> QED
    BY <1>1, <2>1, <2>2
<1>4. ASSUME NEW d \in 1 .. n, d - 1 \in P PROVE d \in P
  <2> DEFINE b == t[d - 1]
             c == t[d]
  <2>1. /\ b \in Arrays /\ d \in 0 .. n /\ c = InnerTime(b, d)
        /\ Shuffled(a, b, 1, n)
        /\ \A k \in Index : b[k].date = a[k].date
        /\ \A k \in 1 .. d - 1 : \A l \in k .. n :
             a[k].date = a[l].date => b[k].time <= b[l].time
        /\ d \in 1 .. MaxLen
    BY <1>1, <1>2, <1>4
  <2> HIDE DEF b, c
  <2>2. SortedDates(b, n) /\ Filled(b, n)
    <3>1. \A k \in 1 .. n : \A l \in k .. n : k \in Index /\ l \in Index
      BY <1>2
    <3>2. SortedDates(b, n)
      BY <2>1, <3>1 DEF SortedDates
    <3> QED
      BY <2>1, <3>2 DEF Filled
  <2>3. /\ c \in Arrays /\ \A k \in Index : c[k].date = b[k].date
    BY <2>1, InnerTimeKeeps
  <2>4. /\ Shuffled(b, c, d, n)
        /\ \A k \in d .. n : b[k].date = b[d].date => c[d].time <= c[k].time
    BY <2>1, <2>2, InnerTimeDoes
  <2>5. Shuffled(a, c, 1, n)
    BY <2>1, <2>3, <2>4, ShuffledThen
  <2>6. \A k \in Index : c[k].date = a[k].date
    BY <2>1, <2>3
  <2>7. ASSUME NEW k \in 1 .. d, NEW l \in k .. n, a[k].date = a[l].date
        PROVE  c[k].time <= c[l].time
    <3>1. /\ k \in Index /\ l \in Index /\ d .. n \subseteq Index /\ d \in Index
          /\ k = d \/ (k \in 1 .. d - 1 /\ k \notin d .. n)
      BY <1>2, Range1
    <3>2. CASE k = d
      BY <2>1, <2>4, <2>7, <3>1, <3>2
    <3>3. CASE k # d
      <4>1. c[k] = b[k]
        BY <2>4, <3>1, <3>3, ShuffledValues
      <4>2. CASE l \in d .. n
        <5>1. PICK y \in d .. n : c[l] = b[y]
          BY <2>4, <3>1, <4>2, ShuffledValues
        <5>2. y \in k .. n /\ y \in Index
          BY <1>2, <3>1, <5>1
        <5>3. a[y].date = a[k].date
          BY <2>1, <2>6, <2>7, <3>1, <5>1, <5>2
        <5>4. b[k].time <= b[y].time
          BY <2>1, <3>1, <3>3, <5>2, <5>3
        <5> QED
          BY <4>1, <5>1, <5>4
      <4>3. CASE l \notin d .. n
        <5>1. c[l] = b[l]
          BY <2>4, <3>1, <4>3, ShuffledValues
        <5> QED
          BY <2>1, <2>7, <3>1, <3>3, <4>1, <5>1
      <4> QED
        BY <4>2, <4>3
    <3> QED
      BY <3>2, <3>3
  <2> QED
    BY <2>1, <2>5, <2>6, <2>7 DEF c
<1> HIDE DEF P
<1>5. n \in P
  <2>1. 0 .. n \subseteq P
    BY <1>2, <1>3, <1>4, UpTo
  <2> QED
    BY <1>2, <2>1
<1>6. t[n] \in Arrays
  BY <1>1, <1>2
<1> QED
  BY <1>1, <1>5, <1>6 DEF P
-----------------------------------------------------------------------------
\* A permutation of the entries leaves the clean slots.
LEMMA ShuffledFilled ==
  ASSUME NEW a \in Arrays, NEW c \in Arrays, NEW n \in 0 .. MaxLen,
         Shuffled(a, c, 1, n)
  PROVE  /\ Filled(a, n) => Filled(c, n)
         /\ (\A k \in 1 .. n : a[k].date # 0) => \A k \in 1 .. n : c[k].date # 0
         /\ \A k \in Index : k \notin 1 .. n => c[k] = a[k]
<1>1. n \in Nat /\ 1 .. n \subseteq Index
  BY Range0
<1>2. /\ \A k \in Index : k \notin 1 .. n => c[k] = a[k]
      /\ \A k \in Index : k \in 1 .. n => \E l \in 1 .. n : c[k] = a[l]
  BY ShuffledValues
<1>3. ASSUME \A k \in 1 .. n : a[k].date # 0, NEW k \in 1 .. n PROVE c[k].date # 0
  BY <1>1, <1>2, <1>3
<1>4. ASSUME Filled(a, n), NEW k \in Index PROVE c[k].date # 0 <=> k \in 1 .. n
  <2>1. \A l \in Index : a[l].date # 0 <=> l \in 1 .. n
    BY <1>4 DEF Filled
  <2> QED
    BY <1>1, <1>2, <2>1
<1> QED
  BY <1>2, <1>3, <1>4 DEF Filled

\* re_align on any array whose first n slots hold entries: it stays an array
\* of entries and clean slots, and the clean ones beyond n stay clean.
LEMMA ReAlignKeeps ==
  ASSUME NEW a \in Arrays, NEW n \in 0 .. MaxLen, \A k \in 1 .. n : a[k].date # 0
  PROVE  /\ ReAlign(a, n) \in Arrays
         /\ \A k \in Index : k \notin 1 .. n /\ a[k].date = 0 => ReAlign(a, n)[k] = a[k]
<1> DEFINE b == DatePass(a, n)
<1>1. /\ b \in Arrays /\ Shuffled(a, b, 1, n)
  BY DatePassDoes
<1> HIDE DEF b
<1>2. /\ \A k \in 1 .. n : b[k].date # 0
      /\ \A k \in Index : k \notin 1 .. n => b[k] = a[k]
  BY <1>1, ShuffledFilled
<1>3. /\ TimePass(b, n) \in Arrays
      /\ \A k \in Index : b[k].date = 0 => TimePass(b, n)[k] = b[k]
  BY <1>1, <1>2, TimePassKeeps
<1> QED
  BY <1>2, <1>3 DEF ReAlign, b

Ordered(c, n) == \A k \in 1 .. n : \A l \in k .. n : ~Earlier(When(c[l]), When(c[k]))

\* re_align on an array that holds n entries and is clean beyond them: the
\* entries are permuted and end up in the order of their dates and times.
THEOREM ReAlignSorts ==
  ASSUME NEW a \in Arrays, NEW n \in 0 .. MaxLen, Filled(a, n)
  PROVE  /\ ReAlign(a, n) \in Arrays
         /\ Shuffled(a, ReAlign(a, n), 1, n)
         /\ Filled(ReAlign(a, n), n)
         /\ Ordered(ReAlign(a, n), n)
<1> DEFINE b == DatePass(a, n)
           c == TimePass(b, n)
<1>1. b \in Arrays /\ Shuffled(a, b, 1, n) /\ SortedDates(b, n)
  BY DatePassDoes
<1> HIDE DEF b
<1>2. Filled(b, n)
  BY <1>1, ShuffledFilled
<1>3. /\ c \in Arrays /\ Shuffled(b, c, 1, n)
      /\ \A k \in Index : c[k].date = b[k].date
      /\ \A k \in 1 .. n : \A l \in k .. n : b[k].date = b[l].date => c[k].time <= c[l].time
  BY <1>1, <1>2, TimePassDoes
<1> HIDE DEF c
<1>4. Shuffled(a, c, 1, n)
  <2>1. CASE n = 0
    <3>1. \A k \in Index : k \notin 1 .. n
      BY <2>1
    <3>2. \A k \in Index : b[k] = a[k] /\ c[k] = b[k]
      BY <1>1, <1>3, <3>1, ShuffledValues
    <3>3. c = a
      BY <1>3, <3>2 DEF Arrays
    <3> QED
      BY <3>3, ShuffledSame
  <2>2. CASE n # 0
    <3>1. 1 \in 1 .. n
      BY <2>2, LenAssumption
    <3> QED
      BY <1>1, <1>3, <3>1, ShuffledThen
  <2> QED
    BY <2>1, <2>2
<1>5. Filled(c, n)
  BY <1>3, <1>4, ShuffledFilled
<1>6. ASSUME NEW k \in 1 .. n, NEW l \in k .. n PROVE ~Earlier(When(c[l]), When(c[k]))
  <2>1. k \in Index /\ l \in Index
    <3>1. n \in Nat /\ 1 .. n \subseteq Index /\ l \in 1 .. n
      BY Range0
    <3> QED
      BY <3>1
  <2>2. /\ c[k].date = b[k].date /\ c[l].date = b[l].date
        /\ b[k].date <= b[l].date
        /\ b[k].date = b[l].date => c[k].time <= c[l].time
    BY <1>1, <1>3, <2>1 DEF SortedDates
  <2>3. /\ c[k].date \in Nat /\ c[l].date \in Nat
        /\ c[k].time \in Nat /\ c[l].time \in Nat
    BY <1>3, <2>1, SlotFacts DEF Arrays
  <2> QED
    BY <2>2, <2>3 DEF Earlier, When
<1>7. ReAlign(a, n) = c
  BY DEF ReAlign, b, c
<1> QED
  BY <1>3, <1>4, <1>5, <1>6, <1>7 DEF Ordered

-----------------------------------------------------------------------------
\* How often x is in s, and that ToBag is made of it.
Where(s, x) == {i \in 1 .. Len(s) : s[i] = x}
Copies(s, x) == Cardinality(Where(s, x))

\* The bag of a sequence counts the copies.
LEMMA CopiesFacts ==
  ASSUME NEW S, NEW s \in Seq(S)
  PROVE  /\ DOMAIN ToBag(s) = Range(s)
         /\ \A x \in Range(s) : ToBag(s)[x] = Copies(s, x)
         /\ \A x : IsFiniteSet(Where(s, x)) /\ Copies(s, x) \in Nat
         /\ \A x : Copies(s, x) > 0 <=> x \in Range(s)
<1>1. DOMAIN s = 1 .. Len(s) /\ Len(s) \in Nat
  BY LenProperties
<1>2. /\ DOMAIN ToBag(s) = Range(s)
      /\ \A x \in Range(s) : ToBag(s)[x] = Copies(s, x)
  BY <1>1 DEF ToBag, Copies, Where
<1>3. ASSUME NEW x PROVE IsFiniteSet(Where(s, x)) /\ Copies(s, x) \in Nat
  <2>1. IsFiniteSet(1 .. Len(s))
    BY <1>1, FS_Interval
  <2>2. Where(s, x) \in SUBSET (1 .. Len(s))
    BY DEF Where
  <2>3. IsFiniteSet(Where(s, x))
    BY <2>1, <2>2, FS_Subset
  <2> QED
    BY <2>3, FS_CardinalityType DEF Copies
<1>4. ASSUME NEW x PROVE Copies(s, x) > 0 <=> x \in Range(s)
  <2>1. Copies(s, x) = 0 <=> Where(s, x) = {}
    BY <1>3, FS_EmptySet DEF Copies
  <2>2. x \in Range(s) <=> Where(s, x) # {}
    BY <1>1 DEF Range, Where
  <2> QED
    BY <1>3, <2>1, <2>2
<1> QED
  BY <1>2, <1>3, <1>4

\* The bag of a sequence is a bag.
LEMMA ToBagIsABag ==
  ASSUME NEW S, NEW s \in Seq(S)
  PROVE  IsABag(ToBag(s))
<1> DEFINE b == ToBag(s)
<1>1. /\ DOMAIN b = Range(s) /\ b = [x \in Range(s) |-> b[x]]
  BY CopiesFacts DEF ToBag
<1>2. \A x \in Range(s) : b[x] \in {n \in Nat : n > 0}
  BY CopiesFacts
<1> HIDE DEF b
<1> QED
  BY <1>1, <1>2 DEF IsABag, b

\* Sequences with the same copies of everything have the same bag.
LEMMA SameCopies ==
  ASSUME NEW S, NEW s \in Seq(S), NEW T, NEW t \in Seq(T),
         \A x : Copies(s, x) = Copies(t, x)
  PROVE  ToBag(s) = ToBag(t)
<1>1. Range(s) = Range(t)
  <2>1. \A x : x \in Range(s) <=> x \in Range(t)
    BY CopiesFacts
  <2> QED
    BY <2>1
<1>2. \A x \in Range(s) : ToBag(s)[x] = ToBag(t)[x]
  BY <1>1, CopiesFacts
<1>3. /\ ToBag(s) = [x \in Range(s) |-> ToBag(s)[x]]
      /\ ToBag(t) = [x \in Range(t) |-> ToBag(t)[x]]
  BY DEF ToBag
<1> QED
  BY <1>1, <1>2, <1>3

\* Equally many positions, by a one-to-one map between them.
LEMMA MappedCopies ==
  ASSUME NEW S, NEW s \in Seq(S), NEW x, NEW B, NEW f \in Bijection(Where(s, x), B)
  PROVE  IsFiniteSet(B) /\ Cardinality(B) = Copies(s, x)
<1>1. ExistsBijection(Where(s, x), B)
  BY DEF ExistsBijection
<1>2. IsFiniteSet(Where(s, x))
  BY CopiesFacts
<1> QED
  BY <1>1, <1>2, FS_Bijection DEF Copies

\* A permuted sequence has the same bag.
LEMMA PermutedBag ==
  ASSUME NEW S, NEW s \in Seq(S), NEW T, NEW t \in Seq(T), Len(t) = Len(s),
         NEW p \in [1 .. Len(s) -> 1 .. Len(s)],
         \A k, l \in 1 .. Len(s) : p[k] = p[l] => k = l,
         \A l \in 1 .. Len(s) : \E k \in 1 .. Len(s) : p[k] = l,
         \A k \in 1 .. Len(s) : t[k] = s[p[k]]
  PROVE  ToBag(t) = ToBag(s)
<1>1. ASSUME NEW x PROVE Copies(t, x) = Copies(s, x)
  <2> DEFINE f == [i \in Where(t, x) |-> p[i]]
  <2>1. /\ f \in [Where(t, x) -> Where(s, x)]
        /\ \A i, j \in Where(t, x) : f[i] = f[j] => i = j
    BY DEF Where
  <2>2. ASSUME NEW l \in Where(s, x) PROVE \E i \in Where(t, x) : f[i] = l
    <3>1. l \in 1 .. Len(s) /\ s[l] = x
      BY DEF Where
    <3>2. PICK i \in 1 .. Len(s) : p[i] = l
      BY <3>1
    <3>3. i \in Where(t, x)
      BY <3>1, <3>2 DEF Where
    <3> QED
      BY <3>2, <3>3
  <2> DEFINE B == Where(s, x)
  <2> HIDE DEF f, B
  <2>3. f \in Bijection(Where(t, x), B)
    BY <2>1, <2>2, Fun_IsBij DEF B
  <2>4. Cardinality(B) = Copies(t, x)
    BY <2>3, MappedCopies
  <2> QED
    BY <2>4 DEF Copies, B
<1> QED
  BY <1>1, SameCopies

\* The entries of two files together.
LEMMA ToBagConcat ==
  ASSUME NEW S, NEW s \in Seq(S), NEW t \in Seq(S)
  PROVE  ToBag(s \o t) = ToBag(s) (+) ToBag(t)
<1> DEFINE u == s \o t
<1>1. /\ u \in Seq(S) /\ Len(u) = Len(s) + Len(t)
      /\ Len(s) \in Nat /\ Len(t) \in Nat
      /\ \A i \in 1 .. Len(u) : u[i] = IF i <= Len(s) THEN s[i] ELSE t[i - Len(s)]
  BY ConcatProperties, LenProperties
<1> HIDE DEF u
<1>2. ASSUME NEW x PROVE Copies(u, x) = Copies(s, x) + Copies(t, x)
  <2> DEFINE B == {i \in Where(u, x) : i > Len(s)}
             f == [i \in Where(t, x) |-> Len(s) + i]
  <2>1. Where(u, x) = Where(s, x) \cup B
    BY <1>1 DEF Where
  <2>2. Where(s, x) \cap B = {}
    BY <1>1 DEF Where
  <2>3. /\ f \in [Where(t, x) -> B]
        /\ \A i, j \in Where(t, x) : f[i] = f[j] => i = j
    BY <1>1 DEF Where
  <2>4. ASSUME NEW l \in B PROVE \E i \in Where(t, x) : f[i] = l
    <3>1. l - Len(s) \in Where(t, x) /\ Len(s) + (l - Len(s)) = l
      BY <1>1 DEF Where
    <3> QED
      BY <3>1
  <2> HIDE DEF f, B
  <2>5. f \in Bijection(Where(t, x), B)
    BY <2>3, <2>4, Fun_IsBij
  <2>6. IsFiniteSet(B) /\ Cardinality(B) = Copies(t, x)
    BY <2>5, MappedCopies
  <2>7. /\ IsFiniteSet(Where(s, x)) /\ Copies(s, x) \in Nat /\ Copies(t, x) \in Nat
    BY CopiesFacts
  <2>8. Cardinality(Where(u, x))
          = Cardinality(Where(s, x)) + Cardinality(B) - Cardinality({})
    BY <2>1, <2>2, <2>6, <2>7, FS_Union
  <2> QED
    BY <2>6, <2>7, <2>8, FS_EmptySet DEF Copies
<1>3. \A x : x \in Range(u) <=> x \in Range(s) \/ x \in Range(t)
  BY <1>1, <1>2, CopiesFacts
<1>4. Range(u) = Range(s) \cup Range(t)
  BY <1>3
<1>5. \A x : Copies(s, x) \in Nat /\ Copies(t, x) \in Nat
  BY CopiesFacts
<1>6. \A x \in Range(u) :
        ToBag(u)[x] = (IF x \in Range(s) THEN ToBag(s)[x] ELSE 0)
                    + (IF x \in Range(t) THEN ToBag(t)[x] ELSE 0)
  <2>1. ASSUME NEW q \in {s, t}, NEW x
        PROVE  (IF x \in Range(q) THEN ToBag(q)[x] ELSE 0) = Copies(q, x)
    BY CopiesFacts
  <2> QED
    BY <1>1, <1>2, <2>1, CopiesFacts
<1>7. /\ ToBag(u) = [x \in Range(u) |-> ToBag(u)[x]]
      /\ DOMAIN ToBag(s) = Range(s) /\ DOMAIN ToBag(t) = Range(t)
  BY CopiesFacts DEF ToBag
<1> DEFINE A == ToBag(s)
           C == ToBag(t)
           D == ToBag(u)
<1> HIDE DEF A, C, D
<1>8. D = [x \in (DOMAIN A) \cup (DOMAIN C) |->
             (IF x \in DOMAIN A THEN A[x] ELSE 0) + (IF x \in DOMAIN C THEN C[x] ELSE 0)]
  BY <1>4, <1>6, <1>7 DEF A, C, D
<1> QED
  BY <1>8 DEF (+), A, C, D, u

\* One entry.
LEMMA ToBagOne ==
  ASSUME NEW e
  PROVE  ToBag(<<e>>) = SetToBag({e})
<1>1. /\ <<e>> \in Seq({e}) /\ Len(<<e>>) = 1 /\ <<e>>[1] = e
      /\ Range(<<e>>) = {e}
  BY DEF Range
<1>2. Where(<<e>>, e) = {1}
  BY <1>1 DEF Where
<1>3. Copies(<<e>>, e) = 1
  BY <1>2, FS_Singleton DEF Copies
<1>4. ToBag(<<e>>) = [x \in {e} |-> ToBag(<<e>>)[x]]
  BY <1>1 DEF ToBag
<1>5. ToBag(<<e>>)[e] = 1
  BY <1>1, <1>3, CopiesFacts
<1> QED
  BY <1>4, <1>5 DEF SetToBag

\* A sequence without its k-th element.
LEMMA RemoveAtFacts ==
  ASSUME NEW S, NEW s \in Seq(S), NEW k \in 1 .. Len(s)
  PROVE  /\ RemoveAt(s, k) \in Seq(S)
         /\ Len(RemoveAt(s, k)) = Len(s) - 1
         /\ \A i \in 1 .. Len(s) - 1 :
              RemoveAt(s, k)[i] = IF i < k THEN s[i] ELSE s[i + 1]
<1> DEFINE u == SubSeq(s, 1, k - 1)
           v == SubSeq(s, k + 1, Len(s))
<1>0. Len(s) \in Nat /\ k \in Nat /\ k >= 1 /\ k <= Len(s)
  BY LenProperties
<1>1. /\ u \in Seq(S) /\ Len(u) = k - 1
      /\ \A i \in 1 .. k - 1 : u[i] = s[i]
  BY <1>0, SubSeqProperties
<1>2. /\ v \in Seq(S) /\ Len(v) = Len(s) - k
      /\ \A i \in 1 .. Len(s) - k : v[i] = s[k + i]
  BY <1>0, SubSeqProperties
<1>3. RemoveAt(s, k) = u \o v
  BY DEF RemoveAt
<1> HIDE DEF u, v
<1>4. /\ u \o v \in Seq(S) /\ Len(u \o v) = Len(s) - 1
      /\ \A i \in 1 .. Len(s) - 1 :
           (u \o v)[i] = IF i <= k - 1 THEN u[i] ELSE v[i - (k - 1)]
  <2>1. /\ u \o v \in Seq(S) /\ Len(u \o v) = Len(u) + Len(v)
        /\ \A i \in 1 .. Len(u) + Len(v) :
             (u \o v)[i] = IF i <= Len(u) THEN u[i] ELSE v[i - Len(u)]
    BY <1>1, <1>2, ConcatProperties
  <2>2. Len(u) + Len(v) = Len(s) - 1
    BY <1>0, <1>1, <1>2
  <2> QED
    BY <1>1, <2>1, <2>2
<1>5. ASSUME NEW i \in 1 .. Len(s) - 1
      PROVE  (u \o v)[i] = IF i < k THEN s[i] ELSE s[i + 1]
  BY <1>0, <1>1, <1>2, <1>4
<1> QED
  BY <1>3, <1>4, <1>5

\* A file is the file without one entry, and that entry.
LEMMA ToBagPick ==
  ASSUME NEW S, NEW s \in Seq(S), NEW k \in 1 .. Len(s)
  PROVE  ToBag(s) = ToBag(RemoveAt(s, k)) (+) SetToBag({s[k]})
<1> DEFINE r == RemoveAt(s, k)
           t == r \o <<s[k]>>
           p == [i \in 1 .. Len(s) |->
                   IF i = Len(s) THEN k ELSE IF i < k THEN i ELSE i + 1]
<1>0. Len(s) \in Nat /\ s[k] \in S
  BY LenProperties, ElementOfSeq
<1>1. /\ r \in Seq(S) /\ Len(r) = Len(s) - 1
      /\ \A i \in 1 .. Len(s) - 1 : r[i] = IF i < k THEN s[i] ELSE s[i + 1]
  BY RemoveAtFacts
<1>2. <<s[k]>> \in Seq(S)
  BY <1>0
<1> HIDE DEF r
<1>3. /\ t \in Seq(S) /\ Len(t) = Len(s)
      /\ \A i \in 1 .. Len(s) : t[i] = IF i = Len(s) THEN s[k] ELSE r[i]
  BY <1>0, <1>1, <1>2, ConcatProperties
<1>4. p \in [1 .. Len(s) -> 1 .. Len(s)]
  BY <1>0
<1>5. \A i, j \in 1 .. Len(s) : p[i] = p[j] => i = j
  BY <1>0
<1>6. ASSUME NEW l \in 1 .. Len(s) PROVE \E i \in 1 .. Len(s) : p[i] = l
  <2>1. CASE l = k
    BY <2>1, <1>0
  <2>2. CASE l < k
    BY <2>2, <1>0
  <2>3. CASE l > k
    <3>1. l - 1 \in 1 .. Len(s) /\ p[l - 1] = l
      BY <2>3, <1>0
    <3> QED
      BY <3>1
  <2> QED
    BY <2>1, <2>2, <2>3, <1>0
<1>7. ASSUME NEW i \in 1 .. Len(s) PROVE t[i] = s[p[i]]
  <2>1. CASE i = Len(s)
    BY <1>3, <2>1
  <2>2. CASE i # Len(s)
    <3>1. i \in 1 .. Len(s) - 1
      BY <1>0, <2>2
    <3>2. t[i] = IF i < k THEN s[i] ELSE s[i + 1]
      BY <1>1, <1>3, <2>2, <3>1
    <3> QED
      BY <2>2, <3>2
  <2> QED
    BY <2>1, <2>2
<1> HIDE DEF t, p
<1>8. ToBag(t) = ToBag(s)
  BY <1>3, <1>4, <1>5, <1>6, <1>7, PermutedBag
<1>9. ToBag(t) = ToBag(r) (+) ToBag(<<s[k]>>)
  BY <1>1, <1>2, ToBagConcat DEF t
<1> QED
  BY <1>8, <1>9, ToBagOne DEF r

\* What was added to a bag and is taken out again.
LEMMA BagTakeBack ==
  ASSUME NEW B, IsABag(B), NEW e
  PROVE  (B (+) SetToBag({e})) (-) SetToBag({e}) = B
<1>1. \A x \in DOMAIN B : B[x] \in Nat /\ B[x] > 0
  BY DEF IsABag
<1>2. B = [x \in DOMAIN B |-> B[x]]
  BY DEF IsABag
<1> DEFINE C == B (+) SetToBag({e})
<1>3. /\ DOMAIN C = DOMAIN B \cup {e}
      /\ \A x \in DOMAIN B \cup {e} :
           C[x] = (IF x \in DOMAIN B THEN B[x] ELSE 0) + (IF x = e THEN 1 ELSE 0)
  BY DEF (+), SetToBag
<1> HIDE DEF C
<1> DEFINE D == [x \in DOMAIN C |-> IF x = e THEN C[x] - 1 ELSE C[x]]
<1>4. /\ DOMAIN D = DOMAIN B \cup {e}
      /\ \A x \in DOMAIN B : D[x] = B[x]
      /\ e \notin DOMAIN B => D[e] = 0
  BY <1>1, <1>3
<1>5. C (-) SetToBag({e}) = [x \in {d \in DOMAIN D : D[d] > 0} |-> D[x]]
  BY DEF (-), SetToBag
<1> HIDE DEF D
<1>6. {d \in DOMAIN D : D[d] > 0} = DOMAIN B
  BY <1>1, <1>4
<1> QED
  BY <1>2, <1>4, <1>5, <1>6 DEF C

\* An entry taken out.
LEMMA ToBagRemoveAt ==
  ASSUME NEW S, NEW s \in Seq(S), NEW k \in 1 .. Len(s)
  PROVE  ToBag(RemoveAt(s, k)) = ToBag(s) (-) SetToBag({s[k]})
<1>1. IsABag(ToBag(RemoveAt(s, k)))
  BY RemoveAtFacts, ToBagIsABag
<1> QED
  BY <1>1, ToBagPick, BagTakeBack

\* An entry that becomes another.
LEMMA ToBagChange ==
  ASSUME NEW S, NEW s \in Seq(S), NEW k \in 1 .. Len(s), NEW e \in S
  PROVE  ToBag([s EXCEPT ![k] = e]) = (ToBag(s) (-) SetToBag({s[k]})) (+) SetToBag({e})
<1> DEFINE t == [s EXCEPT ![k] = e]
<1>1. /\ t \in Seq(S) /\ Len(t) = Len(s) /\ t[k] = e
      /\ \A i \in 1 .. Len(s) : i # k => t[i] = s[i]
  BY ExceptSeq, LenProperties
<1> HIDE DEF t
<1>2. RemoveAt(t, k) = RemoveAt(s, k)
  <2> DEFINE r == RemoveAt(s, k)
             q == RemoveAt(t, k)
  <2>1. Len(s) \in Nat
    BY LenProperties
  <2>2. /\ r \in Seq(S) /\ Len(r) = Len(s) - 1
        /\ \A i \in 1 .. Len(s) - 1 : r[i] = IF i < k THEN s[i] ELSE s[i + 1]
    BY RemoveAtFacts
  <2>3. /\ q \in Seq(S) /\ Len(q) = Len(s) - 1
        /\ \A i \in 1 .. Len(s) - 1 : q[i] = IF i < k THEN t[i] ELSE t[i + 1]
    BY <1>1, RemoveAtFacts
  <2> HIDE DEF r, q
  <2>4. \A i \in 1 .. Len(r) : r[i] = q[i]
    BY <1>1, <2>1, <2>2, <2>3
  <2>5. r = q
    BY <2>2, <2>3, <2>4, SeqEqual
  <2> QED
    BY <2>5 DEF r, q
<1>3. ToBag(t) = ToBag(RemoveAt(s, k)) (+) SetToBag({e})
  BY <1>1, <1>2, ToBagPick
<1> QED
  BY <1>3, ToBagRemoveAt DEF t

\* No entry.
LEMMA ToBagEmpty == ToBag(<<>>) = EmptyBag
<1>1. Range(<<>>) = {}
  BY DEF Range
<1> QED
  BY <1>1 DEF ToBag, EmptyBag, SetToBag

-----------------------------------------------------------------------------
\* A file is a sequence of at most MaxLen entries.
LEMMA FileFacts ==
  ASSUME NEW f
  PROVE  f \in Files <=> f \in Seq(Entries) /\ Len(f) <= MaxLen
<1>0. MaxLen \in Nat
  BY LenAssumption
<1>1. ASSUME f \in Files PROVE f \in Seq(Entries) /\ Len(f) <= MaxLen
  <2>1. PICK m \in 0 .. MaxLen : f \in [1 .. m -> Entries]
    BY <1>1 DEF Files, BoundedSeq, SeqOf
  <2>2. m \in Nat /\ m <= MaxLen
    BY <1>0
  <2>3. f \in Seq(Entries) /\ Len(f) = m
    BY <2>1, <2>2, IsASeq
  <2> QED
    BY <2>2, <2>3
<1>2. ASSUME f \in Seq(Entries), Len(f) <= MaxLen PROVE f \in Files
  <2>1. /\ Len(f) \in Nat /\ f \in [1 .. Len(f) -> Entries]
    BY <1>2, LenProperties
  <2>2. Len(f) \in 0 .. MaxLen
    BY <1>0, <1>2, <2>1
  <2> QED
    BY <2>1, <2>2 DEF Files, BoundedSeq, SeqOf
<1> QED
  BY <1>1, <1>2

\* What a file is made of.
LEMMA FileEntries ==
  ASSUME NEW f \in Files
  PROVE  /\ f \in Seq(Entries) /\ Len(f) \in 0 .. MaxLen
         /\ \A k \in 1 .. Len(f) : f[k] \in Entries /\ f[k] \in Slots
<1>1. f \in Seq(Entries) /\ Len(f) <= MaxLen
  BY FileFacts
<1>2. Len(f) \in Nat /\ MaxLen \in Nat
  BY <1>1, LenProperties, LenAssumption
<1>3. \A k \in 1 .. Len(f) : f[k] \in Entries
  BY <1>1, ElementOfSeq
<1> QED
  BY <1>1, <1>2, <1>3 DEF Slots

\* The array that was zero when the program started.
LEMMA BlankFacts ==
  /\ Blank \in Arrays
  /\ \A k \in Index : Blank[k] = Clean
BY SlotFacts DEF Blank, Arrays, Index

\* An array after a file has been read into it.
LEMMA LoadFacts ==
  ASSUME NEW a \in Arrays, NEW f \in Files
  PROVE  /\ Load(a, f) \in Arrays
         /\ \A k \in Index : Load(a, f)[k] = IF k \in 1 .. Len(f) THEN f[k] ELSE a[k]
         /\ \A k \in 1 .. Len(f) : Load(a, f)[k].date # 0
         /\ (\A k \in Index : k \notin 1 .. Len(f) => a[k] = Clean)
              => Filled(Load(a, f), Len(f))
<1>0. MaxLen \in Nat /\ Len(f) \in Nat /\ Len(f) <= MaxLen
  BY FileEntries, LenAssumption
<1>1. a \in Seq(Slots) /\ Len(a) = MaxLen + 1
  BY ArrayLen
<1>2. f \in Seq(Slots)
  <2>1. f \in [1 .. Len(f) -> Slots]
    BY FileEntries, LenProperties DEF Slots
  <2> QED
    BY <1>0, <2>1, IsASeq
<1> DEFINE v == SubSeq(a, Len(f) + 1, Len(a))
<1>3. /\ v \in Seq(Slots) /\ Len(v) = MaxLen + 1 - Len(f)
      /\ \A i \in 1 .. MaxLen + 1 - Len(f) : v[i] = a[Len(f) + i]
  BY <1>0, <1>1, SubSeqProperties
<1> HIDE DEF v
<1>4. /\ f \o v \in Seq(Slots) /\ Len(f \o v) = Len(f) + Len(v)
      /\ \A i \in 1 .. Len(f) + Len(v) :
           (f \o v)[i] = IF i <= Len(f) THEN f[i] ELSE v[i - Len(f)]
  BY <1>2, <1>3, ConcatProperties
<1>5. Load(a, f) = f \o v
  BY DEF Load, v
<1>6. Len(f) + Len(v) = MaxLen + 1
  BY <1>0, <1>3
<1>7. Load(a, f) \in Arrays
  BY <1>4, <1>5, <1>6, LenProperties DEF Arrays, Index
<1>8. ASSUME NEW k \in Index
      PROVE  Load(a, f)[k] = IF k \in 1 .. Len(f) THEN f[k] ELSE a[k]
  <2>1. k \in Nat /\ k >= 1 /\ k <= MaxLen + 1
    BY <1>0 DEF Index
  <2>2. CASE k <= Len(f)
    BY <1>0, <1>4, <1>5, <1>6, <2>1, <2>2
  <2>3. CASE k > Len(f)
    <3>1. (f \o v)[k] = v[k - Len(f)]
      BY <1>0, <1>4, <1>6, <2>1, <2>3
    <3>2. v[k - Len(f)] = a[k]
      <4>1. k - Len(f) \in 1 .. MaxLen + 1 - Len(f) /\ Len(f) + (k - Len(f)) = k
        BY <1>0, <2>1, <2>3
      <4> QED
        BY <1>3, <4>1
    <3>3. k \notin 1 .. Len(f)
      BY <1>0, <2>1, <2>3
    <3> QED
      BY <1>5, <3>1, <3>2, <3>3
  <2> QED
    BY <1>0, <2>1, <2>2, <2>3
<1>9. ASSUME NEW k \in 1 .. Len(f) PROVE k \in Index /\ Load(a, f)[k].date # 0
  <2>1. k \in Index
    BY <1>0 DEF Index
  <2>2. Load(a, f)[k] \in Entries
    BY <1>8, <2>1, FileEntries
  <2>3. Load(a, f)[k].date > 0
    BY <2>2, SlotFacts
  <2> QED
    BY <2>1, <2>3
<1>10. ASSUME \A k \in Index : k \notin 1 .. Len(f) => a[k] = Clean
       PROVE  Filled(Load(a, f), Len(f))
  <2>1. ASSUME NEW k \in Index PROVE Load(a, f)[k].date # 0 <=> k \in 1 .. Len(f)
    BY <1>8, <1>9, <1>10, SlotFacts
  <2> QED
    BY <2>1 DEF Filled
<1> QED
  BY <1>7, <1>8, <1>9, <1>10

\* The order of a file, index by index.
LEMMA InOrderIs ==
  ASSUME NEW f, Len(f) \in Nat
  PROVE  InOrder(f) <=> \A i, j \in 1 .. Len(f) : i < j => ~Earlier(When(f[j]), When(f[i]))
BY DEF InOrder, IsSorted

\* A file that has been read, re-aligned and written over itself.
LEMMA AlignedFacts ==
  ASSUME NEW f \in Files
  PROVE  /\ Aligned(f) \in Files /\ Len(Aligned(f)) = Len(f)
         /\ InOrder(Aligned(f))
         /\ ToBag(Aligned(f)) = ToBag(f)
<1> DEFINE n == Len(f)
           a == Load(Blank, f)
           c == ReAlign(a, n)
           t == Aligned(f)
<1>0. n \in 0 .. MaxLen /\ n \in Nat /\ 1 .. n \subseteq Index /\ f \in Seq(Entries)
  BY FileEntries, Range0
<1>1. a \in Arrays /\ Filled(a, n) /\ \A k \in 1 .. n : a[k] = f[k]
  BY <1>0, LoadFacts, BlankFacts
<1>2. t = SubSeq(c, 1, n)
  BY DEF Aligned
<1> HIDE DEF n, a
<1>3. c \in Arrays /\ Shuffled(a, c, 1, n) /\ Ordered(c, n)
  BY <1>0, <1>1, ReAlignSorts
<1> HIDE DEF c, t
<1>4. c \in Seq(Slots) /\ Len(c) = MaxLen + 1
  BY <1>3, ArrayLen
<1>5. t \in Seq(Slots) /\ Len(t) = n /\ \A k \in 1 .. n : t[k] = c[k]
  <2>1. n <= Len(c)
    BY <1>0, <1>4, LenAssumption
  <2> QED
    BY <1>0, <1>2, <1>4, <2>1, SubSeqProperties
<1>6. PICK p \in [1 .. n -> 1 .. n] :
        /\ \A k, l \in 1 .. n : p[k] = p[l] => k = l
        /\ \A l \in 1 .. n : \E k \in 1 .. n : p[k] = l
        /\ \A k \in Index : c[k] = IF k \in 1 .. n THEN a[p[k]] ELSE a[k]
  BY <1>3 DEF Shuffled
<1>7. \A k \in 1 .. n : t[k] = f[p[k]]
  BY <1>0, <1>1, <1>5, <1>6
<1>8. t \in Seq(Entries)
  <2>1. \A k \in 1 .. n : t[k] \in Entries
    BY <1>6, <1>7, FileEntries DEF n
  <2>2. t \in [1 .. n -> Slots]
    BY <1>5, LenProperties
  <2>3. t \in [1 .. n -> Entries]
    BY <2>1, <2>2
  <2> QED
    BY <1>0, <2>3, IsASeq
<1>9. t \in Files
  BY <1>0, <1>5, <1>8, FileFacts, LenAssumption
<1>10. ToBag(t) = ToBag(f)
  BY <1>0, <1>5, <1>6, <1>7, <1>8, PermutedBag DEF n
<1>11. InOrder(t)
  <2>1. ASSUME NEW i \in 1 .. n, NEW j \in 1 .. n, i < j
        PROVE  ~Earlier(When(t[j]), When(t[i]))
    <3>1. j \in i .. n
      BY <2>1, <1>0
    <3> QED
      BY <1>3, <1>5, <3>1 DEF Ordered
  <2> QED
    BY <1>0, <1>5, <2>1, InOrderIs
<1> QED
  BY <1>5, <1>9, <1>10, <1>11 DEF t, n

-----------------------------------------------------------------------------
\* On entries that are in order already neither pass exchanges anything, not
\* even entries of one date and time.
LEMMA InnerDateStays ==
  ASSUME NEW a \in Arrays, NEW n \in 0 .. MaxLen, NEW i \in 1 .. n, SortedDates(a, n)
  PROVE  InnerDate(a, i, n) = a
<1> DEFINE m == n - i
<1>1. PICK t \in [0 .. m -> Arrays] :
        /\ t[0] = a /\ t[m] = InnerDate(a, i, n)
        /\ \A d \in 1 .. m : t[d] = ByDate(t[d - 1], i, i + d)
  BY InnerDateRun
<1>2. m \in Nat /\ i \in Index /\ \A d \in 1 .. m : i + d \in i .. n /\ i + d \in Index
  BY Range1, LenAssumption DEF Index
<1> HIDE DEF m
<1> DEFINE P == {d \in 0 .. m : t[d] = a}
<1>3. 0 \in P
  BY <1>1, <1>2
<1>4. ASSUME NEW d \in 1 .. m, d - 1 \in P PROVE d \in P
  <2>1. t[d] = ByDate(a, i, i + d) /\ d \in 0 .. m
    BY <1>1, <1>2, <1>4
  <2>2. a[i].date <= a[i + d].date
    BY <1>2 DEF SortedDates
  <2>3. a[i].date \in Nat /\ a[i + d].date \in Nat
    BY <1>2, SlotFacts DEF Arrays
  <2>4. ByDate(a, i, i + d) = a
    BY <2>2, <2>3 DEF ByDate
  <2> QED
    BY <2>1, <2>4
<1> HIDE DEF P
<1>5. m \in P
  <2>1. 0 .. m \subseteq P
    BY <1>2, <1>3, <1>4, UpTo
  <2> QED
    BY <1>2, <2>1
<1> QED
  BY <1>1, <1>5 DEF P

\* The first pass as a whole.
LEMMA DatePassStays ==
  ASSUME NEW a \in Arrays, NEW n \in 0 .. MaxLen, SortedDates(a, n)
  PROVE  DatePass(a, n) = a
<1>1. PICK t \in [0 .. n -> Arrays] :
        /\ t[0] = a /\ t[n] = DatePass(a, n)
        /\ \A d \in 1 .. n : t[d] = InnerDate(t[d - 1], d, n)
  BY DatePassRun
<1>2. n \in Nat
  BY LenAssumption
<1> DEFINE P == {d \in 0 .. n : t[d] = a}
<1>3. 0 \in P
  BY <1>1, <1>2
<1>4. ASSUME NEW d \in 1 .. n, d - 1 \in P PROVE d \in P
  <2>1. t[d] = InnerDate(a, d, n) /\ d \in 0 .. n
    BY <1>1, <1>2, <1>4
  <2>2. InnerDate(a, d, n) = a
    BY InnerDateStays
  <2> QED
    BY <2>1, <2>2
<1> HIDE DEF P
<1>5. n \in P
  <2>1. 0 .. n \subseteq P
    BY <1>2, <1>3, <1>4, UpTo
  <2> QED
    BY <1>2, <2>1
<1> QED
  BY <1>1, <1>5 DEF P

\* The inner loop of the second.
LEMMA InnerTimeStays ==
  ASSUME NEW a \in Arrays, NEW n \in 0 .. MaxLen, NEW i \in 1 .. n,
         Filled(a, n), Ordered(a, n)
  PROVE  InnerTime(a, i) = a
<1> DEFINE m == Len(a) - i
<1>1. PICK t \in [0 .. m -> Scans] :
        /\ t[0] = [arr |-> a, on |-> TRUE] /\ t[m].arr = InnerTime(a, i)
        /\ \A d \in 1 .. m : t[d] = ByTime(t[d - 1], i, i + d)
  <2>1. i \in 1 .. MaxLen
    BY Range1
  <2> QED
    BY <2>1, InnerTimeRun
<1>2. /\ m \in Nat /\ i \in Index
      /\ \A d \in 1 .. m : i + d \in Index /\ (i + d \in 1 .. n => i + d \in i .. n)
  BY LenAssumption, ArrayLen DEF Index
<1> HIDE DEF m
<1> DEFINE P == {d \in 0 .. m : t[d].arr = a}
<1>3. 0 \in P
  BY <1>1, <1>2
<1>4. ASSUME NEW d \in 1 .. m, d - 1 \in P PROVE d \in P
  <2> DEFINE s == t[d - 1]
             j == i + d
  <2>1. s \in Scans /\ s.arr = a /\ t[d] = ByTime(s, i, j) /\ d \in 0 .. m
    BY <1>1, <1>2, <1>4
  <2>2. i \in Index /\ j \in Index /\ (j \in 1 .. n => j \in i .. n)
    BY <1>2
  <2> HIDE DEF s, j
  <2>3. /\ ~s.on \/ a[i].date # a[j].date => ByTime(s, i, j).arr = a
        /\ s.on /\ a[i].date = a[j].date =>
             ByTime(s, i, j).arr = IF a[i].time > a[j].time THEN Exchange(a, i, j) ELSE a
    <3>1. s \in Scans /\ i \in Index /\ j \in Index
      BY <2>1, <2>2
    <3>2. /\ ~s.on \/ s.arr[i].date # s.arr[j].date => ByTime(s, i, j).arr = s.arr
          /\ s.on /\ s.arr[i].date = s.arr[j].date =>
               ByTime(s, i, j).arr = IF s.arr[i].time > s.arr[j].time
                                     THEN Exchange(s.arr, i, j) ELSE s.arr
      BY <3>1, ByTimeFacts
    <3> QED
      BY <2>1, <3>2
  <2>4. a[i].date = a[j].date => a[i].time <= a[j].time
    <3>1. ASSUME a[i].date = a[j].date PROVE j \in i .. n
      BY <2>2, <3>1 DEF Filled
    <3>2. ASSUME j \in i .. n PROVE ~Earlier(When(a[j]), When(a[i]))
      BY <3>2 DEF Ordered
    <3>3. a[i].time \in Nat /\ a[j].time \in Nat
      BY <2>2, SlotFacts DEF Arrays
    <3> QED
      BY <3>1, <3>2, <3>3 DEF Earlier, When
  <2>5. a[i].time \in Nat /\ a[j].time \in Nat /\ s.on \in BOOLEAN
    BY <2>1, <2>2, SlotFacts DEF Arrays, Scans
  <2>6. ByTime(s, i, j).arr = a
    BY <2>3, <2>4, <2>5
  <2> QED
    BY <2>1, <2>6
<1> HIDE DEF P
<1>5. m \in P
  <2>1. 0 .. m \subseteq P
    BY <1>2, <1>3, <1>4, UpTo
  <2> QED
    BY <1>2, <2>1
<1> QED
  BY <1>1, <1>5 DEF P

\* The second pass as a whole.
LEMMA TimePassStays ==
  ASSUME NEW a \in Arrays, NEW n \in 0 .. MaxLen, Filled(a, n), Ordered(a, n)
  PROVE  TimePass(a, n) = a
<1>1. PICK t \in [0 .. n -> Arrays] :
        /\ t[0] = a /\ t[n] = TimePass(a, n)
        /\ \A d \in 1 .. n : t[d] = InnerTime(t[d - 1], d)
  BY TimePassRun
<1>2. n \in Nat
  BY LenAssumption
<1> DEFINE P == {d \in 0 .. n : t[d] = a}
<1>3. 0 \in P
  BY <1>1, <1>2
<1>4. ASSUME NEW d \in 1 .. n, d - 1 \in P PROVE d \in P
  <2>1. t[d] = InnerTime(a, d) /\ d \in 0 .. n
    BY <1>1, <1>2, <1>4
  <2>2. InnerTime(a, d) = a
    BY InnerTimeStays
  <2> QED
    BY <2>1, <2>2
<1> HIDE DEF P
<1>5. n \in P
  <2>1. 0 .. n \subseteq P
    BY <1>2, <1>3, <1>4, UpTo
  <2> QED
    BY <1>2, <2>1
<1> QED
  BY <1>1, <1>5 DEF P

\* re_align leaves an ordered schedule as it is.
THEOREM ReAlignStays ==
  ASSUME NEW a \in Arrays, NEW n \in 0 .. MaxLen, Filled(a, n), Ordered(a, n)
  PROVE  ReAlign(a, n) = a
<1>1. SortedDates(a, n)
  <2>1. ASSUME NEW k \in 1 .. n, NEW l \in k .. n PROVE a[k].date <= a[l].date
    <3>1. k \in Index /\ l \in Index
      BY Range1, Range0 DEF Index
    <3>2. a[k].date \in Nat /\ a[l].date \in Nat
      BY <3>1, SlotFacts DEF Arrays
    <3>3. ~Earlier(When(a[l]), When(a[k]))
      BY DEF Ordered
    <3> QED
      BY <3>2, <3>3 DEF Earlier, When
  <2> QED
    BY <2>1 DEF SortedDates
<1> QED
  BY <1>1, DatePassStays, TimePassStays DEF ReAlign

-----------------------------------------------------------------------------
\* The Min of a nonempty set of naturals is its least member.
LEMMA MinOf ==
  ASSUME NEW T \in SUBSET Nat, T # {}
  PROVE  Min(T) \in T /\ \A y \in T : Min(T) <= y
<1>1. \E x \in T : \A y \in T : x <= y
  BY LeastMember
<1> QED
  BY <1>1 DEF Min

\* The search of cur_subject splits an ordered schedule at now.
LEMMA NowIndexFacts ==
  ASSUME NEW a, NEW n \in Nat, NEW now, Ordered(a, n),
         \A k \in 1 .. n : a[k].date \in Nat /\ a[k].time \in Nat,
         now[1] \in Nat, now[2] \in Nat
  PROVE  /\ NowIndex(a, n, now) \in 0 .. n
         /\ \A k \in 1 .. n : k <= NowIndex(a, n, now) <=> ~Earlier(now, When(a[k]))
<1> DEFINE later == {i \in 1 .. n : Earlier(now, When(a[i]))}
           x == NowIndex(a, n, now)
<1>1. x = IF later = {} THEN n ELSE Min(later) - 1
  BY DEF NowIndex
<1> HIDE DEF x
<1>2. CASE later = {}
  <2>1. x = n
    BY <1>1, <1>2
  <2>2. ASSUME NEW k \in 1 .. n PROVE ~Earlier(now, When(a[k])) /\ k <= x
    BY <1>2, <2>1
  <2>3. \A k \in 1 .. n : k <= x <=> ~Earlier(now, When(a[k]))
    BY <2>2, Zenon
  <2> QED
    BY <2>1, <2>3 DEF x
<1>3. CASE later # {}
  <2>1. Min(later) \in later /\ \A y \in later : Min(later) <= y
    BY <1>3, MinOf
  <2> DEFINE y == Min(later)
  <2> HIDE DEF y
  <2>2. y \in 1 .. n /\ Earlier(now, When(a[y])) /\ x = y - 1
    BY <1>1, <1>3, <2>1 DEF y
  <2>3. ASSUME NEW k \in 1 .. n, k <= x PROVE ~Earlier(now, When(a[k]))
    <3>1. k < y
      BY <2>2, <2>3
    <3>2. k \in later => y <= k
      BY <2>1 DEF y
    <3> QED
      BY <2>2, <3>1, <3>2
  <2>4. ASSUME NEW k \in 1 .. n, ~(k <= x) PROVE Earlier(now, When(a[k]))
    <3>1. k \in y .. n
      BY <2>2, <2>4
    <3>2. ~Earlier(When(a[k]), When(a[y]))
      BY <2>2, <3>1 DEF Ordered
    <3> QED
      BY <2>2, <3>2 DEF Earlier, When
  <2>5. \A k \in 1 .. n : k <= x <=> ~Earlier(now, When(a[k]))
    BY <2>3, <2>4, Zenon
  <2>6. x \in 0 .. n
    BY <2>2
  <2> QED
    BY <2>5, <2>6 DEF x
<1> QED
  BY <1>2, <1>3

\* A time of day, as two numbers.
LEMMA MomentFacts ==
  ASSUME NEW now \in Moments
  PROVE  now[1] \in Nat /\ now[2] \in Nat
BY DataAssumption DEF Moments

\* Whatever the array held before beyond the schedule's entries, as long as
\* it was clean: the subject found in the re-aligned copy is a current one.
THEOREM CSubjectIsCurrent ==
  ASSUME NEW a \in Arrays, NEW f \in Files, NEW now \in Moments,
         \A k \in Index : k \notin 1 .. Len(f) => a[k] = Clean
  PROVE  CSubject(ReAlign(Load(a, f), Len(f)), Len(f), now) \in Current(f, now)
<1> DEFINE n == Len(f)
           b == Load(a, f)
           c == ReAlign(b, n)
           x == NowIndex(c, n, now)
<1>0. n \in 0 .. MaxLen /\ n \in Nat /\ 1 .. n \subseteq Index
      /\ f \in Seq(Entries) /\ DOMAIN f = 1 .. n
  BY FileEntries, Range0, LenProperties
<1>1. b \in Arrays /\ Filled(b, n) /\ \A k \in 1 .. n : b[k] = f[k]
  BY <1>0, LoadFacts
<1> HIDE DEF n, b
<1>2. c \in Arrays /\ Shuffled(b, c, 1, n) /\ Ordered(c, n)
  BY <1>0, <1>1, ReAlignSorts
<1> HIDE DEF c
<1>3. PICK p \in [1 .. n -> 1 .. n] :
        /\ \A k, l \in 1 .. n : p[k] = p[l] => k = l
        /\ \A l \in 1 .. n : \E k \in 1 .. n : p[k] = l
        /\ \A k \in Index : c[k] = IF k \in 1 .. n THEN b[p[k]] ELSE b[k]
  BY <1>2 DEF Shuffled
<1>4. \A k \in 1 .. n : c[k] = f[p[k]]
  BY <1>0, <1>1, <1>3
<1>5. x \in 0 .. n /\ \A k \in 1 .. n : k <= x <=> ~Earlier(now, When(c[k]))
  <2>1. \A k \in 1 .. n : c[k].date \in Nat /\ c[k].time \in Nat
    BY <1>0, <1>2, SlotFacts DEF Arrays
  <2> QED
    BY <1>0, <1>2, <2>1, MomentFacts, NowIndexFacts
<1>6. CSubject(c, n, now) = IF x = 0 THEN "NOTHING" ELSE c[x].name
  BY DEF CSubject
<1> HIDE DEF x
<1>7. \A k \in 1 .. n : p[k] \in Started(f, now) <=> k <= x
  BY <1>0, <1>3, <1>4, <1>5 DEF Started
<1>8. CASE x = 0
  <2>1. ASSUME NEW l \in Started(f, now) PROVE FALSE
    <3>1. l \in 1 .. n
      BY <1>0 DEF Started
    <3>2. PICK k \in 1 .. n : p[k] = l
      BY <1>3, <3>1
    <3>3. k <= x
      BY <1>7, <3>2
    <3> QED
      BY <1>8, <3>3
  <2>2. Started(f, now) = {}
    BY <2>1
  <2> QED
    BY <1>6, <1>8, <2>2 DEF Current, c, n, b
<1>9. CASE x # 0
  <2>1. x \in 1 .. n /\ x <= x
    BY <1>0, <1>5, <1>9
  <2>2. p[x] \in Started(f, now)
    BY <1>7, <2>1
  <2>3. ASSUME NEW m \in Started(f, now) PROVE ~Earlier(When(f[p[x]]), When(f[m]))
    <3>1. m \in 1 .. n
      BY <1>0 DEF Started
    <3>2. PICK k \in 1 .. n : p[k] = m
      BY <1>3, <3>1
    <3>3. k <= x
      BY <1>7, <3>2
    <3>4. x \in k .. n
      BY <2>1, <3>3
    <3>5. ~Earlier(When(c[x]), When(c[k]))
      BY <1>2, <3>4 DEF Ordered
    <3> QED
      BY <1>4, <2>1, <3>2, <3>5
  <2>4. f[p[x]].name \in {f[i].name : i \in {k \in Started(f, now) :
                       \A m \in Started(f, now) : ~Earlier(When(f[k]), When(f[m]))}}
    BY <2>2, <2>3
  <2>5. CSubject(c, n, now) = f[p[x]].name
    BY <1>4, <1>6, <1>9, <2>1
  <2> QED
    BY <2>2, <2>4, <2>5 DEF Current, c, n, b
<1> QED
  BY <1>8, <1>9

\* The light's reading of an ordered file and cur_subject's of the same name
\* the same entry.
THEOREM LightSubjectAgrees ==
  ASSUME NEW f \in Files, NEW now \in Moments, InOrder(f)
  PROVE  LET s == CSubject(ReAlign(Load(Blank, f), Len(f)), Len(f), now)
         IN LightSubject(f, now) =
              IF s # "NOTHING" THEN s ELSE IF f = <<>> THEN "0" ELSE Head(f).name
<1> DEFINE n == Len(f)
           a == Load(Blank, f)
           x == NowIndex(a, n, now)
           stops == {k \in 2 .. n : Earlier(now, When(f[k]))}
<1>0. n \in 0 .. MaxLen /\ n \in Nat /\ 1 .. n \subseteq Index /\ f \in Seq(Entries)
  BY FileEntries, Range0
<1>1. a \in Arrays /\ Filled(a, n) /\ \A k \in 1 .. n : a[k] = f[k]
  BY <1>0, LoadFacts, BlankFacts
<1>2. LightSubject(f, now) = IF f = <<>> THEN "0"
                             ELSE IF stops = {} THEN Last(f).name
                             ELSE f[Min(stops) - 1].name
  BY Zenon DEF LightSubject
<1>3. f # <<>> => /\ n >= 1 /\ Last(f) = f[n] /\ Head(f) = f[1]
                  /\ \A k \in 1 .. n : f[k].name # "NOTHING"
  <2>1. ASSUME f # <<>> PROVE n >= 1
    BY <1>0, <2>1, EmptySeq
  <2>2. \A k \in 1 .. n : f[k].name # "NOTHING"
    BY FileEntries, SlotFacts
  <2> QED
    BY <1>0, <2>1, <2>2 DEF Last
<1>4. f = <<>> => n = 0
  OBVIOUS
<1> HIDE DEF n, a
<1>5. Ordered(a, n)
  <2>1. ASSUME NEW k \in 1 .. n, NEW l \in k .. n PROVE ~Earlier(When(a[l]), When(a[k]))
    <3>1. l \in 1 .. n
      BY <1>0
    <3>2. CASE k = l
      <4>1. a[k].date \in Nat /\ a[k].time \in Nat
        BY <1>0, <1>1, SlotFacts DEF Arrays
      <4> QED
        BY <3>2, <4>1 DEF Earlier, When
    <3>3. CASE k # l
      <4>1. k < l
        BY <1>0, <3>3
      <4>2. ~Earlier(When(f[l]), When(f[k]))
        BY <1>0, <3>1, <4>1, InOrderIs DEF n
      <4> QED
        BY <1>1, <3>1, <4>2
    <3> QED
      BY <3>2, <3>3
  <2> QED
    BY <2>1 DEF Ordered
<1>6. ReAlign(a, n) = a
  BY <1>0, <1>1, <1>5, ReAlignStays
<1>7. x \in 0 .. n /\ \A k \in 1 .. n : k <= x <=> ~Earlier(now, When(a[k]))
  <2>1. \A k \in 1 .. n : a[k].date \in Nat /\ a[k].time \in Nat
    BY <1>0, <1>1, SlotFacts DEF Arrays
  <2> QED
    BY <1>0, <1>5, <2>1, MomentFacts, NowIndexFacts
<1> DEFINE s == CSubject(a, n, now)
<1>8. s = IF x = 0 THEN "NOTHING" ELSE a[x].name
  BY DEF CSubject
<1> HIDE DEF x, s
<1>9. ASSUME NEW k \in 2 .. n PROVE k \in stops <=> x < k
  <2>1. k \in 1 .. n
    BY <1>0
  <2>2. k <= x <=> ~Earlier(now, When(f[k]))
    BY <1>1, <1>7, <2>1
  <2>3. Earlier(now, When(f[k])) <=> ~(k <= x)
    BY <2>2 DEF Earlier
  <2> QED
    BY <1>7, <2>1, <2>3
<1>10. stops \subseteq 2 .. n
  OBVIOUS
<1> HIDE DEF stops
<1> DEFINE L == LightSubject(f, now)
<1>11. L = IF s # "NOTHING" THEN s ELSE IF f = <<>> THEN "0" ELSE Head(f).name
  <2>1. CASE f = <<>>
    BY <1>2, <1>4, <1>7, <1>8, <2>1
  <2>2. CASE f # <<>> /\ stops = {}
    <3>1. L = f[n].name
      BY <1>2, <1>3, <2>2
    <3>2. CASE n = 1
      BY <1>1, <1>3, <1>7, <1>8, <2>2, <3>1, <3>2
    <3>3. CASE n # 1
      <4>1. n \in 2 .. n /\ n \in 1 .. n
        BY <1>0, <1>3, <2>2, <3>3
      <4>2. x = n
        BY <1>7, <1>9, <2>2, <4>1
      <4> QED
        BY <1>1, <1>3, <1>8, <2>2, <3>1, <4>1, <4>2
    <3> QED
      BY <3>2, <3>3
  <2>3. CASE f # <<>> /\ stops # {}
    <3> DEFINE y == Min(stops)
    <3>1. y \in stops /\ \A z \in stops : y <= z
      BY <1>0, <1>10, <2>3, MinOf
    <3>2. L = f[y - 1].name
      BY <1>2, <2>3
    <3> HIDE DEF y
    <3>3. y \in 2 .. n /\ x < y
      BY <1>9, <1>10, <3>1
    <3>4. CASE y = 2
      <4>1. x = 0 \/ x = 1
        BY <1>7, <3>3, <3>4
      <4>2. L = f[1].name /\ 1 \in 1 .. n
        BY <1>3, <2>3, <3>2, <3>4, <1>0
      <4> QED
        BY <1>1, <1>3, <1>8, <2>3, <4>1, <4>2
    <3>5. CASE y # 2
      <4>1. y - 1 \in 2 .. n /\ y - 1 \notin stops
        <5>1. y - 1 \in 2 .. n /\ ~(y <= y - 1)
          BY <1>0, <3>3, <3>5
        <5> QED
          BY <3>1, <5>1
      <4>2. x = y - 1 /\ x \in 1 .. n
        BY <1>7, <1>9, <3>3, <4>1
      <4> QED
        BY <1>1, <1>3, <1>8, <2>3, <3>2, <4>2
    <3> QED
      BY <3>4, <3>5
  <2> QED
    BY <2>1, <2>2, <2>3
<1> QED
  BY <1>6, <1>11 DEF s, a, n

-----------------------------------------------------------------------------
\* In whatever order a file is, the light takes an entry that has begun or the
\* first line of it.
THEOREM LightSubjectBegun ==
  ASSUME NEW f \in Files, NEW now \in Moments, f # <<>>
  PROVE  LightSubject(f, now) \in {f[k].name : k \in Started(f, now) \cup {1}}
<1> DEFINE n == Len(f)
           stops == {k \in 2 .. n : Earlier(now, When(f[k]))}
<1>1. n \in Nat /\ f \in Seq(Entries) /\ DOMAIN f = 1 .. n
  BY FileEntries, LenProperties, Range0
<1>2. n >= 1 /\ Last(f) = f[n]
  BY <1>1, EmptySeq DEF Last
<1>3. LightSubject(f, now) = IF stops = {} THEN f[n].name ELSE f[Min(stops) - 1].name
  BY <1>2, Zenon DEF LightSubject
<1> HIDE DEF n
<1>4. ASSUME NEW k \in 1 .. n, k \notin stops
      PROVE  k \in Started(f, now) \cup {1}
  BY <1>1, <1>4 DEF Started
<1>5. CASE stops = {}
  <2>1. n \in 1 .. n /\ n \notin stops
    BY <1>1, <1>2, <1>5
  <2>2. n \in Started(f, now) \cup {1}
    BY <1>4, <2>1
  <2> QED
    BY <1>3, <1>5, <2>2
<1>6. CASE stops # {}
  <2> DEFINE y == Min(stops)
  <2>1. stops \in SUBSET Nat
    BY <1>1
  <2>2. y \in stops /\ \A z \in stops : y <= z
    BY <1>6, <2>1, MinOf
  <2>3. LightSubject(f, now) = f[y - 1].name
    BY <1>3, <1>6
  <2> HIDE DEF y
  <2>4. y \in 2 .. n
    BY <2>2
  <2> HIDE DEF stops
  <2>5. y - 1 \in 1 .. n /\ ~(y <= y - 1)
    BY <1>1, <2>4
  <2>6. y - 1 \notin stops
    BY <2>2, <2>5
  <2>7. y - 1 \in Started(f, now) \cup {1}
    BY <1>4, <2>5, <2>6
  <2> QED
    BY <2>3, <2>7
<1> QED
  BY <1>5, <1>6

-----------------------------------------------------------------------------
\* A change keeps the file one of at most MaxLen entries.
LEMMA ChangedFile ==
  ASSUME NEW f \in Files, NEW k \in DOMAIN f, NEW name \in Names, NEW time \in Times
  PROVE  [f EXCEPT ![k] = [date |-> f[k].date, time |-> time, name |-> name]] \in Files
<1> DEFINE e == [date |-> f[k].date, time |-> time, name |-> name]
<1>1. f \in Seq(Entries) /\ Len(f) <= MaxLen /\ k \in 1 .. Len(f)
  BY FileFacts, LenProperties
<1>2. f[k] \in Entries
  BY <1>1, FileEntries
<1>3. e \in Entries
  BY <1>2 DEF Entries
<1> HIDE DEF e
<1>4. /\ [f EXCEPT ![k] = e] \in Seq(Entries)
      /\ Len([f EXCEPT ![k] = e]) = Len(f)
  BY <1>1, <1>3, ExceptSeq
<1>5. [f EXCEPT ![k] = e] \in Files
  BY <1>1, <1>4, FileFacts
<1> QED
  BY <1>5 DEF e

\* What OrderSpec keeps: the file stays one of at most MaxLen entries, is in
\* order when it has just been re-aligned, and what the two programs read of
\* it is right.
OrderInv ==
  /\ list \in Files
  /\ stage = "ordered" => InOrder(list)
  /\ SubjectIsCurrent /\ LightAgrees

\* OrderInv holds at first, and Realign, Change and Follow keep it.
LEMMA OrderInvInductive == OrderSpec => []OrderInv
<1>1. OrderInit => OrderInv
  BY DEF OrderInit, OrderInv, SubjectIsCurrent, LightAgrees
<1>2. OrderInv /\ [OrderNext]_ovars => OrderInv'
  <2> SUFFICES ASSUME OrderInv, [OrderNext]_ovars PROVE OrderInv'
    OBVIOUS
  <2> USE DEF OrderInv
  <2>1. CASE Realign
    <3>1. list' \in Files /\ InOrder(list')
      BY <2>1, AlignedFacts DEF Realign
    <3> QED
      BY <2>1, <3>1 DEF Realign, SubjectIsCurrent, LightAgrees
  <2>2. CASE Change
    <3> DEFINE a == Aligned(list)
    <3>1. a \in Files /\ DOMAIN a = DOMAIN list
      BY AlignedFacts, FileEntries, LenProperties
    <3>2. PICK k \in DOMAIN list, name \in Names, time \in Times :
            list' = [a EXCEPT ![k] = [date |-> a[k].date, time |-> time, name |-> name]]
      BY <2>2, Zenon DEF Change
    <3> HIDE DEF a
    <3>3. list' \in Files
      BY <3>1, <3>2, ChangedFile
    <3> QED
      BY <2>2, <3>3 DEF Change, SubjectIsCurrent, LightAgrees
  <2>3. CASE Follow
    <3>0. PICK now \in Moments :
            /\ clock' = now
            /\ subject' = CSubject(ReAlign(Load(Blank, list), Len(list)), Len(list), now)
            /\ lit' = LightSubject(list, now)
      BY <2>3, Zenon DEF Follow
    <3>1. list' = list /\ stage' = "read" /\ list \in Files
      BY <2>3 DEF Follow
    <3>2. subject' \in Current(list, now)
      <4>1. CSubject(ReAlign(Load(Blank, list), Len(list)), Len(list), now)
              \in Current(list, now)
        BY <3>1, BlankFacts, CSubjectIsCurrent
      <4> QED
        BY <3>0, <4>1
    <3>3. InOrder(list) =>
            lit' = IF subject' # "NOTHING" THEN subject'
                   ELSE IF list = <<>> THEN "0" ELSE Head(list).name
      BY <3>0, <3>1, LightSubjectAgrees
    <3>4. InOrder(list) => Agreed(subject', lit', list)
      BY <3>3 DEF Agreed
    <3>5. list # <<>> => lit' \in {list[k].name : k \in Started(list, now) \cup {1}}
      BY <3>0, <3>1, LightSubjectBegun
    <3>6. SubjectIsCurrent'
      BY <3>0, <3>1, <3>2 DEF SubjectIsCurrent
    <3>7. LightAgrees'
      BY <3>0, <3>1, <3>4, <3>5 DEF LightAgrees
    <3> QED
      BY <3>1, <3>6, <3>7
  <2>4. CASE UNCHANGED ovars
    BY <2>4 DEF ovars, SubjectIsCurrent, LightAgrees
  <2> QED
    BY <2>1, <2>2, <2>3, <2>4 DEF OrderNext
<1> QED
  BY <1>1, <1>2, PTL DEF OrderSpec

\* re_align loses, doubles and invents no entry, and the file it leaves is in
\* order, whatever was changed before.
THEOREM RealigningSorts == OrderSpec => AlignSorts
<1>1. OrderInv => (stage = "ordered" => InOrder(list))
  BY DEF OrderInv
<1>2. OrderInv /\ [OrderNext]_ovars => [stage' = "ordered" => ToBag(list') = ToBag(list)]_ovars
  <2> SUFFICES ASSUME OrderInv, OrderNext, stage' = "ordered"
               PROVE  ToBag(list') = ToBag(list)
    OBVIOUS
  <2>1. list \in Files /\ list' = Aligned(list)
    BY DEF OrderInv, OrderNext, Realign, Change, Follow
  <2> QED
    BY <2>1, AlignedFacts
<1> QED
  BY <1>1, <1>2, OrderInvInductive, PTL DEF OrderSpec, AlignSorts

\* cur_subject names a current subject of whatever schedule the file holds, in
\* order or not.
THEOREM SubjectFound == OrderSpec => []SubjectIsCurrent
BY OrderInvInductive, PTL DEF OrderInv

\* Of every file in order, at every time, the light and the study program name
\* the same subject; of one that is not, the light names an entry that has
\* begun or the first line.
THEOREM LightFollows == OrderSpec => []LightAgrees
BY OrderInvInductive, PTL DEF OrderInv
=============================================================================
