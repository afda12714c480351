------------------------ MODULE ScheduleStoreProofs ------------------------
(***************************************************************************)
(* Proofs about ScheduleStore: for every set of dates, times and subjects  *)
(* and every length of the file, that it is well typed, that the file      *)
(* holds what the user entered, that it is in order until a change or a    *)
(* kill inside a registration, and that the subject sent from a clean      *)
(* array and an untouched file is the current one.                         *)
(*                                                                         *)
(* The invariant has two halves that do not look at each other's           *)
(* variables.  MenuInv: file, the menu's copy and the two ghosts of what   *)
(* the user expects; RecognizerInv: the recognizer's count and array.  The *)
(* facts about sorting and bags are ScheduleOrderProofs's.                 *)
(***************************************************************************)
EXTENDS ScheduleStore, ScheduleOrderProofs

\* What the menu thread keeps.  While it has the file open "w", the file is
\* empty and the entries are in its copy, which is in order.
MenuInv ==
  /\ file \in Files /\ up \in BOOLEAN /\ dirty \in BOOLEAN
  /\ op \in {"menu", "appended", "changing", "deleting", "refused"}
  /\ arr \in Files /\ change \in 0 .. Len(arr)
  /\ op # "changing" => change = 0
  /\ op \notin {"changing", "deleting"} => ToBag(file) = ledger
  /\ op \in {"changing", "deleting"} =>
       file = <<>> /\ ToBag(arr) = ledger /\ InOrder(arr)
  /\ op \in {"menu", "refused"} /\ ~dirty => InOrder(file)

\* What the recognizer keeps.  The slot behind the last one that an entry can
\* be read into is never written.
RecognizerInv ==
  /\ r_pc \in {"idle", "counted"} /\ r_n \in 0 .. MaxLen
  /\ r_steady \in BOOLEAN
  /\ verdict \in [steady : BOOLEAN, residue : BOOLEAN, right : BOOLEAN]
  /\ r_mem \in Arrays /\ r_mem[MaxLen + 1] = Clean
  /\ r_pc = "counted" /\ r_steady => r_n = Len(file)
  /\ SubjectIfClean

StoreInv == MenuInv /\ RecognizerInv
-----------------------------------------------------------------------------
\* An empty schedule is a file, holds nothing and is in order.
LEMMA EmptyFile ==
  /\ <<>> \in Files /\ Len(<<>>) = 0 /\ 0 \in 0 .. Len(<<>>)
  /\ ToBag(<<>>) = EmptyBag
  /\ InOrder(<<>>)
<1>1. <<>> \in Seq(Entries) /\ Len(<<>>) = 0
  BY EmptySeq
<1>2. <<>> \in Files
  <2>1. 0 <= MaxLen
    BY LenAssumption
  <2> QED
    BY <1>1, <2>1, FileFacts
<1>3. InOrder(<<>>)
  BY <1>1, InOrderIs
<1> QED
  BY <1>1, <1>2, <1>3, ToBagEmpty

\* What register_sched appends.
LEMMA AppendFacts ==
  ASSUME NEW f \in Files, NEW g \in Files, Len(f) + Len(g) <= MaxLen
  PROVE  f \o g \in Files /\ ToBag(f \o g) = ToBag(f) (+) ToBag(g)
<1>1. f \in Seq(Entries) /\ g \in Seq(Entries)
  BY FileEntries
<1>2. f \o g \in Seq(Entries) /\ Len(f \o g) = Len(f) + Len(g)
  BY <1>1, ConcatProperties
<1> QED
  BY <1>1, <1>2, FileFacts, ToBagConcat

\* What change_sched makes of a file: one entry is another.
LEMMA ChangeFacts ==
  ASSUME NEW f \in Files, NEW k \in 1 .. Len(f), NEW e \in Entries
  PROVE  /\ [f EXCEPT ![k] = e] \in Files
         /\ ToBag([f EXCEPT ![k] = e])
              = (ToBag(f) (-) SetToBag({f[k]})) (+) SetToBag({e})
<1> DEFINE g == [f EXCEPT ![k] = e]
<1>1. f \in Seq(Entries) /\ Len(f) <= MaxLen
  BY FileFacts
<1>2. g \in Seq(Entries) /\ Len(g) = Len(f)
  BY <1>1, ExceptSeq
<1>3. g \in Files
  BY <1>1, <1>2, FileFacts
<1>4. ToBag(g) = (ToBag(f) (-) SetToBag({f[k]})) (+) SetToBag({e})
  BY <1>1, ToBagChange
<1> QED
  BY <1>3, <1>4

\* What delete_sched takes out.
LEMMA DeleteFacts ==
  ASSUME NEW f \in Files, NEW k \in 1 .. Len(f)
  PROVE  /\ RemoveAt(f, k) \in Files
         /\ ToBag(RemoveAt(f, k)) = ToBag(f) (-) SetToBag({f[k]})
<1>1. f \in Seq(Entries) /\ Len(f) <= MaxLen /\ Len(f) \in Nat
  BY FileFacts, LenProperties
<1>2. RemoveAt(f, k) \in Seq(Entries) /\ Len(RemoveAt(f, k)) = Len(f) - 1
  BY <1>1, RemoveAtFacts
<1>3. RemoveAt(f, k) \in Files
  BY <1>1, <1>2, FileFacts, LenAssumption
<1> QED
  BY <1>1, <1>3, ToBagRemoveAt
-----------------------------------------------------------------------------
\* The menu's half: one step per action of the menu thread, the start and the
\* kill.
LEMMA MenuStepKeeps ==
  ASSUME MenuInv, MenuStep
  PROVE  MenuInv'
<1> USE DEF MenuInv
<1>1. ASSUME NEW batch \in Files, AppendBatch(batch) PROVE MenuInv'
  <2>1. file' \in Files /\ ToBag(file') = ToBag(file) (+) ToBag(batch)
    BY <1>1, AppendFacts DEF AppendBatch
  <2> QED
    BY <1>1, <2>1 DEF AppendBatch
<1>2. CASE Rewrite
  <2>1. file' \in Files /\ ToBag(file') = ToBag(file) /\ InOrder(file')
    BY <1>2, AlignedFacts DEF Rewrite
  <2> QED
    BY <1>2, <2>1 DEF Rewrite
<1>3. ASSUME NEW d \in Dates, NEW s \in Names, ChangeOpen(d, s) PROVE MenuInv'
  <2> DEFINE m == Matches(arr', d, s)
  <2>1. arr' \in Files /\ ToBag(arr') = ToBag(file) /\ InOrder(arr')
    BY <1>3, AlignedFacts DEF ChangeOpen
  <2>2. change' \in 0 .. Len(arr')
    <3>1. arr' \in Seq(Entries) /\ Len(arr') \in Nat /\ DOMAIN arr' = 1 .. Len(arr')
      BY <2>1, FileEntries, LenProperties
    <3>2. m \subseteq 1 .. Len(arr')
      BY <3>1 DEF Matches
    <3>3. change' \in IF m = {} THEN 0 .. Len(arr') ELSE {Max(m)}
      BY <1>3 DEF ChangeOpen
    <3> HIDE DEF m
    <3>4. m # {} => Max(m) \in m
      BY <3>1, <3>2, MaxIn
    <3> QED
      BY <3>1, <3>2, <3>3, <3>4
  <2> QED
    BY <1>3, <2>1, <2>2, EmptyFile DEF ChangeOpen
<1>4. ASSUME NEW d \in Dates, NEW s \in Names, DeleteOpen(d, s) PROVE MenuInv'
  <2> DEFINE a == Aligned(file)
             days == {i \in DOMAIN a : a[i].date = d}
             k == Min(days)
  <2>1. a \in Files /\ ToBag(a) = ToBag(file) /\ days # {} /\ op = "menu"
    BY <1>4, AlignedFacts DEF DeleteOpen
  <2>2. k \in 1 .. Len(a)
    <3>1. DOMAIN a = 1 .. Len(a)
      BY <2>1, FileEntries, LenProperties
    <3>2. days \in SUBSET Nat /\ days # {}
      BY <2>1, <3>1
    <3>3. k \in days
      BY <3>2, MinOf
    <3> QED
      BY <3>1, <3>3
  <2>3. CASE a[k].name = s
    <3> DEFINE r == RemoveAt(a, k)
    <3>1. /\ op' = "deleting" /\ file' = <<>>
          /\ arr' = Aligned(r) /\ ledger' = ledger (-) SetToBag({a[k]})
          /\ UNCHANGED <<up, change, dirty>>
      BY <1>4, <2>3, Zenon DEF DeleteOpen
    <3>2. r \in Files /\ ToBag(r) = ToBag(a) (-) SetToBag({a[k]})
      BY <2>1, <2>2, DeleteFacts
    <3> HIDE DEF r, a, days, k
    <3>3. arr' \in Files /\ ToBag(arr') = ledger' /\ InOrder(arr')
      BY <2>1, <3>1, <3>2, AlignedFacts
    <3>4. change' = 0 /\ change' \in 0 .. Len(arr')
      BY <2>1, <3>1, <3>3, FileEntries
    <3> QED
      BY <3>1, <3>3, <3>4, EmptyFile
  <2>4. CASE a[k].name # s
    <3>1. /\ op' \in {"menu", "refused"}
          /\ UNCHANGED <<arr, ledger, file, up, change, dirty>>
      BY <1>4, <2>4 DEF DeleteOpen
    <3> HIDE DEF a, days, k
    <3> QED
      BY <2>1, <3>1
  <2> QED
    BY <2>3, <2>4
<1>5. ASSUME NEW s \in Names, NEW t \in Times, ChangeFlush(s, t) PROVE MenuInv'
  <2>1. /\ op = "changing" /\ op' = "menu" /\ arr' = <<>> /\ change' = 0 /\ up' = up
        /\ arr \in Files /\ ToBag(arr) = ledger /\ InOrder(arr)
    BY <1>5 DEF ChangeFlush
  <2>2. CASE change = 0
    <3>1. file' = arr /\ ledger' = ledger /\ dirty' = FALSE
      BY <1>5, <2>2 DEF ChangeFlush
    <3> QED
      BY <2>1, <3>1, EmptyFile
  <2>3. CASE change # 0
    <3> DEFINE new == [arr[change] EXCEPT !.name = s, !.time = t]
    <3>1. /\ file' = [arr EXCEPT ![change] = new]
          /\ ledger' = (ledger (-) SetToBag({arr[change]})) (+) SetToBag({new})
          /\ dirty' = TRUE
      BY <1>5, <2>3 DEF ChangeFlush
    <3>2. change \in 1 .. Len(arr)
      BY <2>1, <2>3, FileEntries
    <3>3. new \in Entries
      <4>1. arr[change] \in Entries
        BY <2>1, <3>2, FileEntries
      <4> QED
        BY <4>1 DEF Entries
    <3> HIDE DEF new
    <3>4. file' \in Files /\ ToBag(file') = ledger'
      BY <2>1, <3>1, <3>2, <3>3, ChangeFacts
    <3> QED
      BY <2>1, <3>1, <3>4, EmptyFile
  <2> QED
    BY <2>2, <2>3
<1>6. CASE DeleteFlush
  BY <1>6, EmptyFile DEF DeleteFlush
<1>7. CASE BackToMenu
  BY <1>7 DEF BackToMenu
<1> QED
  BY <1>1, <1>2, <1>3, <1>4, <1>5, <1>6, <1>7 DEF MenuStep

LEMMA KillKeeps ==
  ASSUME MenuInv, Kill
  PROVE  MenuInv'
<1> USE DEF MenuInv, Kill
<1>1. CASE op \in {"changing", "deleting"}
  BY <1>1, EmptyFile
<1>2. CASE op \notin {"changing", "deleting"}
  BY <1>2, EmptyFile
<1> QED
  BY <1>1, <1>2

-----------------------------------------------------------------------------
\* The recognizer's half.  To it a step of the menu is no more than this: it
\* leaves the recognizer alone, and either the file too, or the recognizer's
\* count is known to be old.
LEMMA MenuTouches ==
  ASSUME MenuInv, RecognizerInv, MenuStep
  PROVE  /\ UNCHANGED reco
         /\ r_steady' \in BOOLEAN
         /\ r_pc = "counted" /\ r_steady' => r_steady /\ file' = file
<1> USE DEF MenuInv, RecognizerInv, Touches, reco
<1>1. ASSUME NEW batch \in Files, AppendBatch(batch)
      PROVE  /\ UNCHANGED reco /\ r_steady' \in BOOLEAN
             /\ r_pc = "counted" /\ r_steady' => r_steady /\ file' = file
  <2>1. batch = <<>> => file \o batch = file
    <3>1. file \in Seq(Entries)
      BY FileEntries
    <3> QED
      BY <3>1, ConcatEmptySeq
  <2>2. /\ UNCHANGED reco /\ file' = file \o batch
        /\ r_steady' = (r_steady /\ ~(batch # <<>> /\ r_pc = "counted"))
    BY <1>1 DEF AppendBatch
  <2>3. r_steady' \in BOOLEAN
    BY <2>2
  <2>4. r_pc = "counted" /\ r_steady' => r_steady /\ batch = <<>>
    BY <2>2
  <2> QED
    BY <2>1, <2>2, <2>3, <2>4
<1>2. CASE Rewrite
  BY <1>2 DEF Rewrite
<1>3. ASSUME NEW d \in Dates, NEW s \in Names, ChangeOpen(d, s) \/ DeleteOpen(d, s)
      PROVE  /\ UNCHANGED reco /\ r_steady' \in BOOLEAN
             /\ r_pc = "counted" /\ r_steady' => r_steady /\ file' = file
  <2>1. CASE ChangeOpen(d, s)
    BY <2>1 DEF ChangeOpen
  <2>2. CASE DeleteOpen(d, s)
    <3>1. UNCHANGED reco /\ (Touches(TRUE) \/ UNCHANGED <<file, r_steady>>)
      BY <2>2, Zenon DEF DeleteOpen
    <3>2. CASE Touches(TRUE)
      BY <3>1, <3>2
    <3>3. CASE UNCHANGED <<file, r_steady>>
      BY <3>1, <3>3
    <3> QED
      BY <3>1, <3>2, <3>3
  <2> QED
    BY <1>3, <2>1, <2>2
<1>4. ASSUME NEW s \in Names, NEW t \in Times, ChangeFlush(s, t)
      PROVE  /\ UNCHANGED reco /\ r_steady' \in BOOLEAN
             /\ r_pc = "counted" /\ r_steady' => r_steady /\ file' = file
  BY <1>4 DEF ChangeFlush
<1>5. CASE DeleteFlush
  BY <1>5 DEF DeleteFlush
<1>6. CASE BackToMenu
  BY <1>6 DEF BackToMenu
<1> QED
  BY <1>1, <1>2, <1>3, <1>4, <1>5, <1>6 DEF MenuStep

\* The array stays an array, and its last slot clean, whatever is left in it
\* of longer schedules.
LEMMA ReportedArray ==
  ASSUME NEW a \in Arrays, a[MaxLen + 1] = Clean, NEW f \in Files
  PROVE  /\ ReAlign(Load(a, f), Len(f)) \in Arrays
         /\ ReAlign(Load(a, f), Len(f))[MaxLen + 1] = Clean
<1> DEFINE n == Len(f)
           b == Load(a, f)
<1>1. /\ n \in 0 .. MaxLen /\ MaxLen + 1 \in Index /\ MaxLen + 1 \notin 1 .. n
  BY FileEntries, LenAssumption DEF Index
<1>2. /\ b \in Arrays /\ \A k \in 1 .. n : b[k].date # 0
      /\ b[MaxLen + 1] = Clean
  BY <1>1, LoadFacts
<1> HIDE DEF n, b
<1>3. /\ ReAlign(b, n) \in Arrays
      /\ \A k \in Index : k \notin 1 .. n /\ b[k].date = 0 => ReAlign(b, n)[k] = b[k]
  BY <1>1, <1>2, ReAlignKeeps
<1>4. ReAlign(b, n)[MaxLen + 1] = Clean
  BY <1>1, <1>2, <1>3, SlotFacts
<1> QED
  BY <1>3, <1>4 DEF n, b

LEMMA ReportKeeps ==
  ASSUME MenuInv, RecognizerInv, NEW now \in Moments, Report(now)
  PROVE  RecognizerInv'
<1> USE DEF MenuInv, RecognizerInv
<1> DEFINE a == ReAlign(Load(r_mem, file), Len(file))
           resid == \E i \in Len(file) + 1 .. MaxLen : r_mem[i] # Clean
           ok == CSubject(a, r_n, now) \in Current(file, now)
<1>1. a \in Arrays /\ a[MaxLen + 1] = Clean
  BY ReportedArray
<1>2. /\ r_pc = "counted" /\ r_pc' = "idle" /\ r_mem' = a
      /\ verdict' = [steady |-> r_steady, residue |-> resid, right |-> ok]
      /\ r_n' = 0 /\ r_steady' = TRUE /\ file' = file
  BY Zenon DEF Report
<1>3. resid \in BOOLEAN /\ ok \in BOOLEAN
  OBVIOUS
<1>4. ASSUME r_steady, ~resid PROVE ok
  <2>1. r_n = Len(file)
    BY <1>2, <1>4
  <2>2. ASSUME NEW k \in Index, k \notin 1 .. Len(file) PROVE r_mem[k] = Clean
    <3>1. k = MaxLen + 1 \/ k \in Len(file) + 1 .. MaxLen
      BY <2>2, FileEntries, LenAssumption DEF Index
    <3> QED
      BY <1>4, <3>1
  <2>3. CSubject(ReAlign(Load(r_mem, file), Len(file)), Len(file), now)
          \in Current(file, now)
    BY <2>2, CSubjectIsCurrent
  <2> QED
    BY <2>1, <2>3
<1> HIDE DEF a, resid, ok
<1>5. /\ verdict' \in [steady : BOOLEAN, residue : BOOLEAN, right : BOOLEAN]
      /\ SubjectIfClean'
  BY <1>2, <1>3, <1>4 DEF SubjectIfClean
<1>6. 0 \in 0 .. MaxLen
  BY LenAssumption
<1> QED
  BY <1>1, <1>2, <1>5, <1>6

LEMMA StoreInvInductive == Spec => []StoreInv
<1>1. Init => StoreInv
  <2>1. 0 \in 0 .. MaxLen /\ MaxLen + 1 \in Index
    BY LenAssumption DEF Index
  <2>2. Init => MenuInv
    BY EmptyFile DEF Init, MenuInv
  <2>3. Init => RecognizerInv
    BY <2>1, BlankFacts DEF Init, RecognizerInv, SubjectIfClean, Unjudged
  <2> QED
    BY <2>2, <2>3 DEF StoreInv
<1>2. StoreInv /\ [Next]_vars => StoreInv'
  <2> SUFFICES ASSUME MenuInv, RecognizerInv, [Next]_vars PROVE StoreInv'
    BY DEF StoreInv
  <2> USE DEF StoreInv
  <2>1. CASE Start
    BY <2>1 DEF Start, MenuInv, RecognizerInv, SubjectIfClean, menu, reco
  <2>2. CASE Kill
    <3>1. 0 \in 0 .. MaxLen /\ MaxLen + 1 \in Index
      BY LenAssumption DEF Index
    <3>2. RecognizerInv'
      BY <2>2, <3>1, BlankFacts DEF Kill, RecognizerInv, SubjectIfClean, Unjudged
    <3> QED
      BY <2>2, <3>2, KillKeeps
  <2>3. CASE MenuStep
    <3>1. /\ UNCHANGED reco /\ r_steady' \in BOOLEAN
          /\ r_pc = "counted" /\ r_steady' => r_steady /\ file' = file
      BY <2>3, MenuTouches
    <3>2. RecognizerInv'
      BY <3>1 DEF RecognizerInv, SubjectIfClean, reco
    <3> QED
      BY <2>3, <3>2, MenuStepKeeps
  <2>4. CASE Count
    <3>1. MenuInv'
      BY <2>4 DEF Count, MenuInv, menu
    <3>2. Len(file) \in 0 .. MaxLen
      BY FileEntries DEF MenuInv
    <3>3. RecognizerInv'
      BY <2>4, <3>2 DEF Count, RecognizerInv, SubjectIfClean, Unjudged
    <3> QED
      BY <3>1, <3>3
  <2>5. ASSUME NEW now \in Moments, Report(now) PROVE StoreInv'
    <3>1. MenuInv'
      BY <2>5 DEF Report, MenuInv, menu
    <3>2. RecognizerInv'
      BY <2>5, ReportKeeps
    <3> QED
      BY <3>1, <3>2
  <2>6. CASE UNCHANGED vars
    BY <2>6 DEF vars, menu, reco, MenuInv, RecognizerInv, SubjectIfClean
  <2> QED
    BY <2>1, <2>2, <2>3, <2>4, <2>5, <2>6 DEF Next
<1> QED
  BY <1>1, <1>2, PTL DEF Spec
-----------------------------------------------------------------------------
\* schedule_info.txt, the menu's copy of it and the recognizer's array have
\* their types.
THEOREM StoreTyped == Spec => []TypeOK
<1>1. StoreInv => TypeOK
  <2> SUFFICES ASSUME StoreInv PROVE TypeOK
    OBVIOUS
  <2> USE DEF StoreInv, MenuInv, RecognizerInv
  <2>1. IsABag(ledger)
    <3>1. file \in Seq(Entries) /\ arr \in Seq(Entries)
      BY FileEntries
    <3>2. ledger = ToBag(file) \/ ledger = ToBag(arr)
      OBVIOUS
    <3> QED
      BY <3>1, <3>2, ToBagIsABag
  <2> QED
    BY <2>1 DEF TypeOK, Arrays, Slots, Index
<1> QED
  BY <1>1, StoreInvInductive, PTL

\* Between its operations the file holds what the user entered and has not
\* changed or deleted since, as often as entered.
THEOREM LedgerStays == Spec => []LedgerKept
<1>1. StoreInv => LedgerKept
  BY DEF StoreInv, MenuInv, LedgerKept
<1> QED
  BY <1>1, StoreInvInductive, PTL

\* The file is in order until a change, or a kill inside a registration.
THEOREM OrderStays == Spec => []OrderedUnlessChanged
<1>1. StoreInv => OrderedUnlessChanged
  BY DEF StoreInv, MenuInv, OrderedUnlessChanged
<1> QED
  BY <1>1, StoreInvInductive, PTL

\* A subject found in a clean array and an untouched file is a current one.
THEOREM SubjectSent == Spec => []SubjectIfClean
<1>1. StoreInv => SubjectIfClean
  BY DEF StoreInv, RecognizerInv
<1> QED
  BY <1>1, StoreInvInductive, PTL
=============================================================================
