------------------------- MODULE SensorWindowProofs -------------------------
(***************************************************************************)
(* Proofs about SensorWindow, for every Num and every MaxProcs: the type   *)
(* invariant, the agreement of the study program with the sensor's flag,   *)
(* and that the loop implements RoundVote.                                 *)
(***************************************************************************)
EXTENDS SensorWindow, FiniteSetTheorems, TLAPS

-----------------------------------------------------------------------------
(***************************************************************************)
(* The strengthening.  While a change of the vote is acted on, the array   *)
(* still holds the readings that decided it and is_studying still holds    *)
(* the old value; outside these steps the message told last is the flag.   *)
(***************************************************************************)
Pending ==
  /\ pc \in {"announce", "spawn", "stop"} =>
       (Sum >= Num \div 2) # (is_studying = 1)
  /\ pc = "spawn" => is_studying = 0 /\ told = "ON"
  /\ pc = "stop" => is_studying = 1 /\ told = "OFF"

Session ==
  /\ is_studying = 1 => child_pid = spawned /\ child_pid > 0
  /\ is_studying = 1 /\ pc # "stop" => told = "ON"
  /\ is_studying = 0 => running = {}
  /\ running \subseteq {child_pid}

IInv == TypeOK /\ (Spared => Pending /\ Session)

-----------------------------------------------------------------------------
(* The readings among the first n are finitely many, at most n of them.    *)
LEMMA NearFinite ==
  ASSUME NEW n \in Nat
  PROVE  /\ IsFiniteSet(NearAmong(n))
         /\ Cardinality(NearAmong(n)) \in 0 .. n
<1>1. /\ IsFiniteSet(0 .. n - 1)
      /\ Cardinality(0 .. n - 1) = IF 0 > n - 1 THEN 0 ELSE (n - 1) - 0 + 1
  BY FS_Interval
<1>2. Cardinality(0 .. n - 1) = n
  BY <1>1
<1>3. NearAmong(n) \subseteq 0 .. n - 1
  BY DEF NearAmong
<1>4. /\ IsFiniteSet(NearAmong(n))
      /\ Cardinality(NearAmong(n)) <= Cardinality(0 .. n - 1)
  BY <1>1, <1>3, FS_Subset
<1>5. Cardinality(NearAmong(n)) \in Nat
  BY <1>4, FS_CardinalityType
<1> QED
  BY <1>2, <1>4, <1>5

(* Storing a reading in slot n adds it to the count of the first n.        *)
LEMMA NearGrows ==
  ASSUME TypeOK, NEW n \in 0 .. Num - 1,
         studying_arr' = [studying_arr EXCEPT ![n] = Reading]
  PROVE  Cardinality(NearAmong(n + 1)') = Cardinality(NearAmong(n)) + Reading
<1> USE NumAssumption
<1>1. IsFiniteSet(NearAmong(n))
  BY NearFinite
<1>2. n \in Slots /\ studying_arr \in [Slots -> Bit]
  BY DEF TypeOK, Slots
<1>3. \A i \in 0 .. n - 1 : studying_arr'[i] = studying_arr[i]
  BY <1>2 DEF Slots
<1>4. studying_arr'[n] = Reading
  BY <1>2
<1>5. n \notin NearAmong(n)
  BY DEF NearAmong
<1>6. 0 .. n = (0 .. n - 1) \cup {n}
  OBVIOUS
<1>7. CASE Reading = 1
  <2>1. NearAmong(n + 1)' = NearAmong(n) \cup {n}
    BY <1>3, <1>4, <1>6, <1>7 DEF NearAmong
  <2>2. Cardinality(NearAmong(n) \cup {n}) = Cardinality(NearAmong(n)) + 1
    BY <1>1, <1>5, FS_AddElement
  <2> QED
    BY <2>1, <2>2, <1>7
<1>8. CASE Reading = 0
  <2>1. NearAmong(n + 1)' = NearAmong(n)
    BY <1>3, <1>4, <1>6, <1>8 DEF NearAmong
  <2>2. Cardinality(NearAmong(n)) \in Nat
    BY NearFinite
  <2> QED
    BY <2>1, <2>2, <1>8
<1> QED
  BY <1>7, <1>8 DEF Reading

LEMMA SumType == Sum \in 0 .. Num
  BY NearFinite, NumAssumption DEF Sum

-----------------------------------------------------------------------------
LEMMA InitIInv == Init => IInv
  BY NumAssumption, ProcsAssumption
     DEF Init, IInv, TypeOK, Spared, Pending, Session, Slots, Bit, PCs

LEMMA NextIInv == IInv /\ [Next]_vars => IInv'
<1> SUFFICES ASSUME IInv, [Next]_vars PROVE IInv'
  OBVIOUS
<1> USE NumAssumption, ProcsAssumption
<1>t. TypeOK
  BY DEF IInv
<1>s. Sum \in 0 .. Num
  BY SumType
<1>1. CASE Move
  <2>1. Sum' = Sum
    BY <1>1 DEF Move, Sum, NearAmong, window
  <2> QED
    BY <1>1, <2>1 DEF Move, IInv, TypeOK, Spared, Pending, Session, window, children
<1>2. CASE Measure
  <2>1. TypeOK'
    BY <1>2, <1>t DEF Measure, TypeOK, Slots, Bit, Reading, children, PCs
  <2>2. pc' = "measure" /\ pc = "measure"
    BY <1>2 DEF Measure
  <2> QED
    BY <1>2, <2>1, <2>2 DEF Measure, IInv, Spared, Pending, Session, children
<1>3. CASE Vote
  <2>1. /\ UNCHANGED <<someone, beyond, studying_arr, told, child_pid, spawned, running>>
        /\ pc = "measure" /\ is_studying' = FlagThen
    BY <1>3 DEF Vote, children
  <2>2. Sum' = Sum
    BY <2>1 DEF Sum, NearAmong
  <2>3. is_studying' \in Bit /\ (Spared => is_studying' = is_studying)
    BY <2>1, <1>t DEF TypeOK, FlagThen, Reading, Bit, Spared
  <2>4. CASE (Sum >= Num \div 2) # (FlagThen = 1)
    <3>1. pc' = "announce" /\ cnt' = Sum
      BY <1>3, <2>4 DEF Vote
    <3>2. TypeOK'
      BY <3>1, <2>1, <2>3, <1>s, <1>t DEF TypeOK, PCs
    <3> QED
      BY <3>1, <3>2, <2>1, <2>2, <2>3, <2>4 DEF IInv, Spared, Pending, Session
  <2>5. CASE ~((Sum >= Num \div 2) # (FlagThen = 1))
    <3>1. pc' = "measure" /\ cnt' = 0
      BY <1>3, <2>1, <2>5 DEF Vote
    <3>2. TypeOK'
      BY <3>1, <2>1, <2>3, <1>t DEF TypeOK, PCs
    <3> QED
      BY <3>1, <3>2, <2>1, <2>3 DEF IInv, Spared, Pending, Session
  <2> QED
    BY <2>4, <2>5
<1>m. CASE VoteMissed
  <2>1. /\ UNCHANGED <<someone, beyond, studying_arr, is_studying, pc, told, child_pid, spawned, running>>
        /\ pc = "measure" /\ cnt' = CntThen + 1 /\ CntThen < Num
    BY <1>m DEF VoteMissed, children
  <2>2. cnt' \in 0 .. Num
    <3>1. CntThen \in Nat
      BY <1>t DEF TypeOK, CntThen, Reading
    <3> QED
      BY <2>1, <3>1
  <2>3. TypeOK'
    BY <2>1, <2>2, <1>t DEF TypeOK
  <2> QED
    BY <2>1, <2>3 DEF IInv, Spared, Pending, Session
<1>4. CASE Announce
  <2>1. Sum' = Sum
    BY <1>4 DEF Announce, Sum, NearAmong, window
  <2> QED
    BY <1>4, <2>1 DEF Announce, IInv, TypeOK, Spared, Pending, Session, window, children, PCs, Bit
<1>5. CASE Spawn
  BY <1>5 DEF Spawn, IInv, TypeOK, Spared, Pending, Session, PCs, Bit
<1>6. CASE SpawnFails
  BY <1>6 DEF SpawnFails, IInv, TypeOK, Spared, Pending, Session, window, children, PCs
<1>7. CASE Stop
  BY <1>7 DEF Stop, IInv, TypeOK, Spared, Pending, Session, PCs, Bit
<1>g. CASE StopGroup
  BY <1>g DEF StopGroup, IInv, TypeOK, Spared, Pending, Session, window, PCs
<1>8. CASE \E p \in running : StudyExits(p)
  <2>1. Sum' = Sum
    BY <1>8 DEF StudyExits, Sum, NearAmong, window
  <2> QED
    BY <1>8, <2>1 DEF StudyExits, IInv, TypeOK, Spared, Pending, Session, window
<1>9. CASE UNCHANGED vars
  <2>1. Sum' = Sum
    BY <1>9 DEF vars, Sum, NearAmong
  <2> QED
    BY <1>9, <2>1 DEF vars, IInv, TypeOK, Spared, Pending, Session
<1> QED
  BY <1>1, <1>2, <1>3, <1>m, <1>4, <1>5, <1>6, <1>7, <1>g, <1>8, <1>9 DEF Next, SensorStep

LEMMA Invariance == Spec => []IInv
  BY InitIInv, NextIInv, PTL DEF Spec

(* Every variable keeps its type, whatever the write past the array hits:  *)
(* cnt never names more than the slot behind the array, which is written   *)
(* but not read, and no pid is used that was not forked.                   *)
THEOREM TypeCorrect == Spec => []TypeOK
<1>1. IInv => TypeOK
  BY DEF IInv
<1> QED
  BY <1>1, Invariance, PTL

(* Only the last child ever runs, only while somebody is counted present,  *)
(* and only after the light was told ON.                                   *)
THEOREM StudyFollowsPresence == Spec => []NoStrayStudy
<1>1. IInv => NoStrayStudy
  BY DEF IInv, TypeOK, Pending, Session, NoStrayStudy, Bit
<1> QED
  BY <1>1, Invariance, PTL

(* The signal that ends a session goes to the child forked last.           *)
THEOREM StopIsAimed == Spec => []StopHitsTheChild
<1>1. IInv => StopHitsTheChild
  BY DEF IInv, Pending, Session, StopHitsTheChild
<1> QED
  BY <1>1, Invariance, PTL

-----------------------------------------------------------------------------
(* A step of the loop that acts on a change ends the round it belongs to.  *)
LEMMA FlipDecides ==
  ASSUME IInv, Spared, pc \in {"spawn", "stop"}, pc' = "measure", cnt' = 0,
         is_studying' = IF pc = "spawn" THEN 1 ELSE 0,
         UNCHANGED <<someone, beyond>>
  PROVE  Rounds!Decide
<1>1. (Sum >= Num \div 2) # (is_studying = 1)
  BY DEF IInv, Pending
<1>2. Taken = Num /\ Taken' = 0 /\ Spared'
  BY DEF Taken, Spared
<1>3. Cardinality(NearAmong(Taken)) = Sum
  BY <1>2 DEF Sum
<1>4. is_studying = 1 <=> pc = "stop"
  BY DEF IInv, Pending
<1>5. (is_studying' = 1) = (Sum >= Num \div 2)
  BY <1>1, <1>4
<1>6. Cardinality(NearAmong(Taken))' = 0
  <2>1. NearAmong(Taken)' = {}
    BY <1>2 DEF NearAmong
  <2> QED
    BY <2>1, FS_EmptySet
<1> QED
  BY <1>2, <1>3, <1>5, <1>6 DEF Rounds!Decide

(* The loop implements RoundVote, whatever the length of the window, if    *)
(* the write past the array hits nothing that is used: no stale slot of    *)
(* the array and no use of cnt as the sum can make its decision differ     *)
(* from the round's.                                                       *)
THEOREM ImplementsRoundVote == Spec => VotesByRound
<1> USE NumAssumption
<1>1. Init => Rounds!Init
  <2> SUFFICES ASSUME Init PROVE Rounds!Init
    OBVIOUS
  <2>1. Taken = 0
    BY DEF Init, Taken
  <2>2. NearAmong(Taken) = {}
    BY <2>1 DEF NearAmong
  <2> QED
    BY <2>1, <2>2, FS_EmptySet DEF Init, Rounds!Init
<1>2. IInv /\ [Next]_vars => [Rounds!Next]_Rounds!vars
  <2> SUFFICES ASSUME IInv, [Next]_vars PROVE [Rounds!Next]_Rounds!vars
    OBVIOUS
  <2> USE DEF Rounds!vars
  <2>t. TypeOK
    BY DEF IInv
  <2>b. beyond' = beyond /\ (Spared' <=> Spared)
    BY DEF Next, SensorStep, Move, Measure, Vote, VoteMissed, Announce, Spawn, SpawnFails, Stop,
       StopGroup, StudyExits, window, vars, Spared
  <2>1. CASE Move
    <3>1. UNCHANGED <<Taken, is_studying, studying_arr, beyond>> /\ someone' = ~someone
      BY <2>1, <2>b DEF Move, Taken, window
    <3> QED
      BY <3>1, <2>b DEF NearAmong, Rounds!Move, Rounds!Next
  <2>n. CASE ~Spared /\ ~Move
    <3>1. Taken = 0 /\ Taken' = 0 /\ someone' = someone
      BY <2>n, <2>b DEF Taken, Next, SensorStep, Measure, Vote, VoteMissed, Announce, Spawn,
         SpawnFails, Stop, StopGroup, StudyExits, vars
    <3>2. NearAmong(Taken) = {} /\ NearAmong(Taken)' = {}
      BY <3>1 DEF NearAmong
    <3> QED
      BY <2>n, <2>b, <3>1, <3>2
  <2>2. CASE Spared /\ Measure
    <3>a. cnt \in 0 .. Num - 1
      BY <2>2, <2>t DEF Measure, TypeOK
    <3>b. PICK n \in 0 .. Num - 1 : n = cnt
      BY <3>a
    <3>1. Taken = n /\ Taken' = n + 1
      BY <2>2, <2>b, <3>b DEF Measure, Taken
    <3>c. studying_arr' = [studying_arr EXCEPT ![n] = Reading]
      BY <2>2, <3>b DEF Measure
    <3>2. Cardinality(NearAmong(n + 1)') = Cardinality(NearAmong(n)) + Reading
      BY <2>t, <3>c, NearGrows
    <3>3. NearAmong(Taken)' = NearAmong(n + 1)' /\ NearAmong(Taken) = NearAmong(n)
      BY <3>1 DEF NearAmong
    <3>4. is_studying' = is_studying /\ someone' = someone
      BY <2>2 DEF Measure
    <3>5. Rounds!Take
      BY <2>b, <3>1, <3>2, <3>3, <3>4 DEF Rounds!Take, Reading
    <3> QED
      BY <3>5 DEF Rounds!Next
  <2>3. CASE Spared /\ Vote
    <3>1. /\ cnt >= Num /\ pc = "measure" /\ is_studying' = is_studying
          /\ UNCHANGED <<someone, studying_arr>>
      BY <2>3 DEF Vote, FlagThen, Spared
    <3>2. cnt = Num /\ Taken = Num /\ Spared'
      BY <3>1, <2>3, <2>b, <2>t DEF TypeOK, Taken
    <3>5. CASE (Sum >= Num \div 2) # (is_studying = 1)
      <4>1. Taken' = Num
        BY <2>3, <2>b, <3>5 DEF Vote, FlagThen, Taken, Spared
      <4>2. NearAmong(Taken)' = NearAmong(Taken)
        BY <3>1, <3>2, <4>1 DEF NearAmong
      <4> QED
        BY <2>b, <3>1, <3>2, <4>1, <4>2
    <3>6. CASE ~((Sum >= Num \div 2) # (is_studying = 1))
      <4>1. Taken' = 0
        BY <2>3, <2>b, <3>1, <3>6 DEF Vote, FlagThen, Taken, Spared
      <4>2. NearAmong(Taken)' = {}
        BY <4>1 DEF NearAmong
      <4>3. Cardinality(NearAmong(Taken))' = 0
        BY <4>2, FS_EmptySet
      <4>4. Cardinality(NearAmong(Taken)) = Sum
        BY <3>2 DEF Sum
      <4>5. Rounds!Decide
        BY <2>3, <3>1, <3>2, <3>6, <4>1, <4>3, <4>4 DEF Rounds!Decide
      <4> QED
        BY <4>5 DEF Rounds!Next
    <3> QED
      BY <3>5, <3>6
  <2>m. CASE Spared /\ VoteMissed
    <3>1. CntThen = cnt
      BY <2>m DEF CntThen, Spared
    <3>2. cnt \in 0 .. Num /\ cnt >= Num /\ cnt < Num
      BY <2>m, <2>t, <3>1 DEF VoteMissed, TypeOK
    <3> QED
      BY <3>2
  <2>4. CASE Spared /\ Announce
    BY <2>4, <2>b DEF Announce, Taken, NearAmong, window
  <2>5. CASE Spared /\ Spawn
    <3>1. Rounds!Decide
      BY <2>5, FlipDecides DEF Spawn
    <3> QED
      BY <3>1 DEF Rounds!Next
  <2>6. CASE Spared /\ SpawnFails
    BY <2>6, <2>b DEF SpawnFails, Taken, NearAmong, window
  <2>7. CASE Spared /\ Stop
    <3>1. Rounds!Decide
      BY <2>7, FlipDecides DEF Stop
    <3> QED
      BY <3>1 DEF Rounds!Next
  <2>g. CASE Spared /\ StopGroup
    <3>1. child_pid \in Nat /\ child_pid > 0
      BY <2>g, <2>t, ProcsAssumption DEF StopGroup, IInv, TypeOK, Pending, Session
    <3> QED
      BY <2>g, <3>1 DEF StopGroup
  <2>8. CASE Spared /\ \E p \in running : StudyExits(p)
    BY <2>8, <2>b DEF StudyExits, Taken, NearAmong, window
  <2>9. CASE UNCHANGED vars
    BY <2>9, <2>b DEF vars, Taken, NearAmong
  <2> QED
    BY <2>1, <2>n, <2>2, <2>3, <2>m, <2>4, <2>5, <2>6, <2>7, <2>g, <2>8, <2>9 DEF Next, SensorStep
<1> QED
  BY <1>1, <1>2, Invariance, PTL DEF Spec, VotesByRound, Rounds!Spec
=============================================================================
