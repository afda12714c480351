-------------------------- MODULE DimmedBulbProofs --------------------------
(***************************************************************************)
(* Proofs about DimmedBulb, for every finite set of addresses, all names,  *)
(* numbers and widths of the format, and every delivered file that its     *)
(* assumptions admit.                                                      *)
(***************************************************************************)
EXTENDS DimmedBulb, Integers, FiniteSetTheorems, FunctionTheorems, SequenceTheorems,
        WellFoundedInduction, TLAPS

-----------------------------------------------------------------------------
(* The registry of bulbs, with any commands: Spec of BulbRegistry.         *)

Known == DOMAIN detected_bulbs

\* Ids are given once, from 1 to the number of bulbs.
Numbered ==
  /\ Known \subseteq IP
  /\ \A ip \in Known : detected_bulbs[ip] \in 1 .. Cardinality(Known)
  /\ \A a, b \in Known : detected_bulbs[a] = detected_bulbs[b] => a = b

\* bulb_idx2ip follows detected_bulbs, by the entry between the two at most.
Follows ==
  /\ \A i \in DOMAIN bulb_idx2ip :
       bulb_idx2ip[i] \in Known /\ detected_bulbs[bulb_idx2ip[i]] = i
  /\ entering \in [ip : IP, id : Nat] \cup {None, Dead}
  /\ entering \in [ip : IP, id : Nat] =>
       entering.ip \in Known /\ detected_bulbs[entering.ip] = entering.id

IsLamp(ip) == ip \in Known /\ detected_bulbs[ip] = Lamp

Commands ==
  {Idle} \cup [at : {"begun"}, text : Command]
         \cup [at : {"found"}, text : Command, ip : IP]

\* Every lookup, before and after the table is read, means the same bulb.
ToTheLamp ==
  /\ cmd \in [Caller -> Commands]
  /\ \A c \in Caller : cmd[c].at = "found" => IsLamp(cmd[c].ip)
  /\ \A ip \in obeyed : IsLamp(ip)

IInv == Numbered /\ Follows /\ ToTheLamp

LEMMA KnownIsFinite ==
  ASSUME Known \subseteq IP
  PROVE  IsFiniteSet(Known) /\ Cardinality(Known) \in Nat
  BY IPAssumption, FS_Subset, FS_CardinalityType

LEMMA InitInv == Init => IInv
<1> SUFFICES ASSUME Init PROVE IInv
  OBVIOUS
<1>1. Known = {} /\ DOMAIN bulb_idx2ip = {}
  BY DEF Init, Known
<1>2. entering = None /\ obeyed = {} /\ cmd \in [Caller -> {Idle}]
  BY DEF Init
<1>3. Numbered
  BY <1>1 DEF Numbered
<1>4. entering \notin [ip : IP, id : Nat]
  BY <1>2 DEF None
<1>5. Follows
  BY <1>1, <1>2, <1>4 DEF Follows
<1>6. ToTheLamp
  BY <1>2 DEF ToTheLamp, Commands, Idle
<1> QED BY <1>3, <1>5, <1>6 DEF IInv

\* A bulb that answers keeps its id, or gets one that no bulb has.
LEMMA DetectKeeps ==
  ASSUME IInv, NEW ip \in IP, Detect(ip)
  PROVE  /\ Numbered'
         /\ \A b \in Known : b \in Known' /\ detected_bulbs'[b] = detected_bulbs[b]
         /\ ip \in Known' /\ detected_bulbs'[ip] = IdFor(ip) /\ IdFor(ip) \in Nat
<1>1. IsFiniteSet(Known) /\ Cardinality(Known) \in Nat
  BY KnownIsFinite DEF IInv, Numbered
<1>2. /\ Known' = Known \cup {ip}
      /\ detected_bulbs'[ip] = IdFor(ip)
      /\ \A b \in Known : b # ip => detected_bulbs'[b] = detected_bulbs[b]
  BY DEF Detect, Known, With
<1>3. CASE ip \in Known
  <2>1. IdFor(ip) = detected_bulbs[ip]
    BY <1>3 DEF IdFor, Known
  <2>2. Known' = Known
    BY <1>2, <1>3
  <2>3. \A b \in Known : detected_bulbs'[b] = detected_bulbs[b]
    BY <1>2, <2>1
  <2>4. Numbered'
    BY <2>2, <2>3 DEF IInv, Numbered
  <2>5. IdFor(ip) \in Nat
    BY <1>1, <1>3, <2>1 DEF IInv, Numbered
  <2> QED BY <1>2, <1>3, <2>2, <2>3, <2>4, <2>5
<1>4. CASE ip \notin Known
  <2>1. IdFor(ip) = Cardinality(Known) + 1
    BY <1>4 DEF IdFor, Known
  <2>2. Cardinality(Known') = Cardinality(Known) + 1
    BY <1>1, <1>2, <1>4, FS_AddElement
  <2>3. \A b \in Known : detected_bulbs'[b] = detected_bulbs[b]
    BY <1>2, <1>4
  <2>4. \A b \in Known' : detected_bulbs'[b] \in 1 .. Cardinality(Known')
    BY <1>1, <1>2, <2>1, <2>2, <2>3 DEF IInv, Numbered
  <2>5. \A a, b \in Known' : detected_bulbs'[a] = detected_bulbs'[b] => a = b
    BY <1>1, <1>2, <2>1, <2>3 DEF IInv, Numbered
  <2>6. Known' \subseteq IP
    BY <1>2 DEF IInv, Numbered
  <2>7. Numbered'
    BY <2>4, <2>5, <2>6 DEF Numbered
  <2> QED BY <1>1, <1>2, <2>1, <2>3, <2>7
<1> QED BY <1>3, <1>4

LEMMA DetectInv ==
  ASSUME IInv, NEW ip \in IP, Detect(ip)
  PROVE  IInv'
<1>1. /\ Numbered'
      /\ \A b \in Known : b \in Known' /\ detected_bulbs'[b] = detected_bulbs[b]
      /\ ip \in Known' /\ detected_bulbs'[ip] = IdFor(ip) /\ IdFor(ip) \in Nat
  BY DetectKeeps
<1>2. entering' = [ip |-> ip, id |-> IdFor(ip)] /\ UNCHANGED <<bulb_idx2ip, cmd, obeyed>>
  BY DEF Detect
<1>3. Follows'
  BY <1>1, <1>2 DEF IInv, Follows
<1>4. ToTheLamp'
  BY <1>1, <1>2 DEF IInv, ToTheLamp, IsLamp
<1> QED BY <1>1, <1>3, <1>4 DEF IInv

LEMMA IndexInv ==
  ASSUME IInv, Index
  PROVE  IInv'
<1>1. /\ entering \in [ip : IP, id : Nat]
      /\ entering.ip \in Known /\ detected_bulbs[entering.ip] = entering.id
  BY DEF IInv, Follows, Index
<1>2. UNCHANGED <<detected_bulbs, cmd, obeyed>> /\ entering' = None
  BY DEF Index
<1>3. /\ DOMAIN bulb_idx2ip' = DOMAIN bulb_idx2ip \cup {entering.id}
      /\ bulb_idx2ip'[entering.id] = entering.ip
      /\ \A i \in DOMAIN bulb_idx2ip : i # entering.id => bulb_idx2ip'[i] = bulb_idx2ip[i]
  BY DEF Index, With
<1>4. entering' \notin [ip : IP, id : Nat]
  BY <1>2 DEF None
<1>5. Follows'
  BY <1>1, <1>2, <1>3, <1>4 DEF IInv, Follows, Known
<1>6. Numbered' /\ ToTheLamp'
  BY <1>2 DEF IInv, Numbered, ToTheLamp, IsLamp, Known
<1> QED BY <1>5, <1>6 DEF IInv

\* The lookups change no table: what remains is that they mean the lamp.
LEMMA LookupInv ==
  ASSUME IInv, UNCHANGED tables, ToTheLamp'
  PROVE  IInv'
  BY DEF IInv, Numbered, Follows, Known, tables

LEMMA FindIPInv ==
  ASSUME IInv, NEW c \in Caller, FindIP(c)
  PROVE  IInv'
<1>1. cmd[c] \in [at : {"begun"}, text : Command]
  BY DEF IInv, ToTheLamp, FindIP, Commands, Idle
<1>2. CASE Lamp \in DOMAIN bulb_idx2ip
  <2>1. IsLamp(bulb_idx2ip[Lamp]) /\ bulb_idx2ip[Lamp] \in IP
    BY <1>2 DEF IInv, Numbered, Follows, IsLamp
  <2>2. cmd' = [cmd EXCEPT ![c] = [at |-> "found", text |-> cmd[c].text, ip |-> bulb_idx2ip[Lamp]]]
    BY <1>2 DEF FindIP
  <2>3. UNCHANGED <<tables, obeyed>>
    BY DEF FindIP
  <2>4. ToTheLamp'
    BY <1>1, <2>1, <2>2, <2>3 DEF IInv, ToTheLamp, IsLamp, Known, Commands, tables
  <2> QED BY <2>3, <2>4, LookupInv
<1>3. CASE Lamp \notin DOMAIN bulb_idx2ip
  <2>1. cmd' = [cmd EXCEPT ![c] = Idle] /\ UNCHANGED <<tables, obeyed>>
    BY <1>3 DEF FindIP
  <2>2. ToTheLamp'
    BY <2>1 DEF IInv, ToTheLamp, IsLamp, Known, Commands, tables, Idle
  <2> QED BY <2>1, <2>2, LookupInv
<1> QED BY <1>2, <1>3

LEMMA TellInv ==
  ASSUME IInv, NEW c \in Caller, Tell(c)
  PROVE  IInv'
<1>1. IsLamp(cmd[c].ip)
  BY DEF IInv, ToTheLamp, Tell
<1>2. /\ cmd' = [cmd EXCEPT ![c] = Idle] /\ UNCHANGED tables
      /\ obeyed' \subseteq obeyed \cup {cmd[c].ip}
  BY DEF Tell
<1>3. ToTheLamp'
  BY <1>1, <1>2 DEF IInv, ToTheLamp, IsLamp, Known, Commands, tables, Idle
<1> QED BY <1>2, <1>3, LookupInv

LEMMA BeginInv ==
  ASSUME IInv, NEW c \in Caller, NEW text \in Command, Begin(c, text)
  PROVE  IInv'
<1>1. cmd' = [cmd EXCEPT ![c] = [at |-> "begun", text |-> text]] /\ UNCHANGED <<tables, obeyed>>
  BY DEF Begin
<1>2. ToTheLamp'
  BY <1>1 DEF IInv, ToTheLamp, IsLamp, Known, Commands, tables
<1> QED BY <1>1, <1>2, LookupInv

LEMMA StepInv == IInv /\ [Next]_vars => IInv'
<1> SUFFICES ASSUME IInv, [Next]_vars PROVE IInv'
  OBVIOUS
<1>1. CASE \E ip \in IP : Detect(ip)
  BY <1>1, DetectInv
<1>2. CASE Index
  BY <1>2, IndexInv
<1>3. CASE DetectionDies
  <2>1. entering' = Dead /\ entering' \notin [ip : IP, id : Nat]
    BY <1>3 DEF DetectionDies, Dead
  <2>2. UNCHANGED <<detected_bulbs, bulb_idx2ip, cmd, obeyed>>
    BY <1>3 DEF DetectionDies
  <2> QED BY <2>1, <2>2 DEF IInv, Numbered, Follows, ToTheLamp, IsLamp, Known
<1>4. CASE Lookup
  BY <1>4, FindIPInv, TellInv DEF Lookup
<1>5. CASE \E c \in Caller, text \in Command : Begin(c, text)
  BY <1>5, BeginInv
<1>6. CASE UNCHANGED vars
  BY <1>6 DEF vars, IInv, Numbered, Follows, ToTheLamp, IsLamp, Known
<1> QED BY <1>1, <1>2, <1>3, <1>4, <1>5, <1>6 DEF Next, Detection

LEMMA Invariant == Spec => []IInv
<1> QED BY InitInv, StepInv, PTL DEF Spec

LEMMA IInvImplies == IInv => TypeOK /\ LookupsSucceed /\ OneLamp
<1> SUFFICES ASSUME IInv PROVE TypeOK /\ LookupsSucceed /\ OneLamp
  OBVIOUS
<1> USE DEF IInv
<1>1. Cardinality(Known) \in Nat
  BY KnownIsFinite DEF Numbered
<1>2. \A ip \in Known : detected_bulbs[ip] \in Nat
  BY <1>1 DEF Numbered
<1>3. \A i \in DOMAIN bulb_idx2ip : i \in Nat /\ bulb_idx2ip[i] \in IP
  BY <1>2 DEF Follows, Numbered
<1>4. \A c \in Caller : cmd[c].at \in {"idle", "begun", "found"}
  BY DEF ToTheLamp, Commands, Idle
<1>5. TypeOK
  BY <1>2, <1>3, <1>4 DEF TypeOK, Numbered, Follows, ToTheLamp, IsLamp, Known
<1>6. LookupsSucceed
  BY DEF LookupsSucceed, ToTheLamp, IsLamp, Known
<1>7. OneLamp
  BY DEF OneLamp, ToTheLamp, IsLamp, Numbered
<1> QED BY <1>5, <1>6, <1>7

-----------------------------------------------------------------------------
(* Naturals: least members, and induction up to a bound.                   *)

\* Every nonempty set of naturals has a least member.
LEMMA LeastMember ==
  ASSUME NEW T \in SUBSET Nat, T # {}
  PROVE  \E x \in T : \A y \in T : x <= y
<1>1. PICK x \in T : \A y \in T : ~(<<y, x>> \in OpToRel(<, Nat))
  BY WFMin, NatLessThanWellFounded
<1>2. ASSUME NEW y \in T PROVE x <= y
  <2>1. x \in Nat /\ y \in Nat
    OBVIOUS
  <2>2. y < x => <<y, x>> \in OpToRel(<, Nat)
    BY <2>1 DEF OpToRel
  <2>3. ~(<<y, x>> \in OpToRel(<, Nat))
    BY <1>1, Zenon
  <2>4. ~(y < x)
    BY <2>2, <2>3, Zenon
  <2> QED
    BY <2>1, <2>4
<1> QED
  BY <1>2

\* A set with 0 that holds k if it holds k - 1 holds every number up to m.
LEMMA UpTo ==
  ASSUME NEW m \in Nat, NEW P, 0 \in P, \A k \in 1 .. m : k - 1 \in P => k \in P
  PROVE  0 .. m \subseteq P
<1> SUFFICES ASSUME (0 .. m) \ P # {} PROVE FALSE
  OBVIOUS
<1> DEFINE T == (0 .. m) \ P
<1>1. T \in SUBSET Nat /\ T # {}
  OBVIOUS
<1> HIDE DEF T
<1>2. PICK x \in T : \A y \in T : x <= y
  BY <1>1, LeastMember
<1>3. x \in 1 .. m /\ x - 1 \in 0 .. m /\ x - 1 \notin T
  BY <1>2 DEF T
<1> QED
  BY <1>2, <1>3 DEF T

\* The Min of a nonempty set of naturals is its least member, and the Max of
\* two numbers the greater.
LEMMA MinOf ==
  ASSUME NEW T \in SUBSET Nat, T # {}
  PROVE  Bright!Min(T) \in T /\ \A y \in T : Bright!Min(T) <= y
<1>1. \E x \in T : \A y \in T : x <= y
  BY LeastMember
<1> QED
  BY <1>1 DEF Bright!Min

LEMMA MinIs ==
  ASSUME NEW T \in SUBSET Nat, NEW x \in T, \A y \in T : x <= y
  PROVE  Bright!Min(T) = x
<1>1. Bright!Min(T) \in T /\ \A y \in T : Bright!Min(T) <= y
  BY MinOf
<1>2. Bright!Min(T) \in Nat /\ x \in Nat /\ x <= Bright!Min(T) /\ Bright!Min(T) <= x
  BY <1>1
<1> QED
  BY <1>2

LEMMA MaxOfTwo ==
  ASSUME NEW a \in Nat, NEW b \in Nat
  PROVE  Bright!Max({a, b}) = IF a >= b THEN a ELSE b
<1> DEFINE s == {a, b}
<1>1. \E x \in s : \A y \in s : x >= y
  <2>1. CASE a >= b
    BY <2>1
  <2>2. CASE ~(a >= b)
    BY <2>2
  <2> QED
    BY <2>1, <2>2
<1>2. Bright!Max(s) \in s /\ \A y \in s : Bright!Max(s) >= y
  BY <1>1 DEF Bright!Max
<1> QED
  BY <1>2
-----------------------------------------------------------------------------
(* The lines of a file.                                                    *)

\* Cardinality is the same operator in BrightFile as it is here.
LEMMA SameCardinality ==
  ASSUME NEW S
  PROVE  Bright!Cardinality(S) = Cardinality(S)
  BY DEF Bright!Cardinality, Cardinality

LEMMA LineNosAre ==
  ASSUME NEW f
  PROVE  Bright!LineNos(f) = 1 .. Cardinality(Bright!Ends(f))
  BY SameCardinality DEF Bright!LineNos

\* The number of the line that ends at e.
Rank(f, e) == Cardinality({d \in Bright!Ends(f) : d <= e})

\* The ends of lines are finitely many.
LEMMA EndsFinite ==
  ASSUME NEW f \in Seq(Char)
  PROVE  /\ Bright!Ends(f) \subseteq 1 .. Len(f) /\ IsFiniteSet(Bright!Ends(f))
         /\ Cardinality(Bright!Ends(f)) \in Nat
<1>1. Bright!Ends(f) \subseteq 1 .. Len(f)
  BY DEF Bright!Ends
<1>2. IsFiniteSet(1 .. Len(f))
  BY FS_Interval
<1> QED
  BY <1>1, <1>2, FS_Subset, FS_CardinalityType

\* Lines are numbered in the order of their ends.
LEMMA RankGrows ==
  ASSUME NEW f \in Seq(Char), NEW d \in Bright!Ends(f), NEW e \in Bright!Ends(f)
  PROVE  /\ Rank(f, e) \in Bright!LineNos(f)
         /\ d < e => Rank(f, d) < Rank(f, e)
<1> DEFINE to(x) == {y \in Bright!Ends(f) : y <= x}
<1>1. /\ Bright!Ends(f) \subseteq 1 .. Len(f) /\ IsFiniteSet(Bright!Ends(f))
      /\ Cardinality(Bright!Ends(f)) \in Nat
  BY EndsFinite
<1>2. ASSUME NEW x PROVE IsFiniteSet(to(x)) /\ Cardinality(to(x)) \in Nat
                         /\ Cardinality(to(x)) <= Cardinality(Bright!Ends(f))
  <2>1. to(x) \in SUBSET Bright!Ends(f)
    OBVIOUS
  <2> HIDE DEF to
  <2> QED
    BY <1>1, <2>1, FS_Subset, FS_CardinalityType
<1>3. e \in to(e)
  BY <1>1
<1>4. ASSUME d < e PROVE to(d) \subseteq to(e) /\ e \notin to(d)
  BY <1>1, <1>4
<1> HIDE DEF to
<1>5. Cardinality(to(e)) # 0
  BY <1>2, <1>3, FS_EmptySet
<1>6. ASSUME d < e PROVE Cardinality(to(d)) < Cardinality(to(e))
  <2>1. to(d) \subseteq to(e) /\ to(d) # to(e)
    BY <1>3, <1>4, <1>6
  <2>2. Cardinality(to(d)) <= Cardinality(to(e)) /\ Cardinality(to(e)) # Cardinality(to(d))
    BY <1>2, <2>1, FS_Subset
  <2> QED
    BY <1>2, <2>2
<1>7. Rank(f, d) = Cardinality(to(d)) /\ Rank(f, e) = Cardinality(to(e))
  BY DEF to, Rank
<1> QED
  BY <1>1, <1>2, <1>5, <1>6, <1>7, LineNosAre

\* Every line has an end.
LEMMA EveryRank ==
  ASSUME NEW f \in Seq(Char), NEW k \in Bright!LineNos(f)
  PROVE  \E e \in Bright!Ends(f) : Rank(f, e) = k
<1> DEFINE S == Bright!Ends(f)
           N == Bright!LineNos(f)
           r == [e \in S |-> Rank(f, e)]
<1>1. S \subseteq 1 .. Len(f) /\ IsFiniteSet(S) /\ Cardinality(S) \in Nat
  BY EndsFinite
<1>2. IsFiniteSet(N) /\ Cardinality(N) = Cardinality(S)
  BY <1>1, FS_Interval, LineNosAre
<1>3. r \in [S -> N]
  BY RankGrows
<1>4. ASSUME NEW d \in S, NEW e \in S, r[d] = r[e] PROVE d = e
  <2>1. d \in Nat /\ e \in Nat
    BY <1>1
  <2>2. Rank(f, d) = Rank(f, e) /\ Rank(f, d) \in Int
    BY <1>3, <1>4 DEF Bright!LineNos
  <2>3. ~(d < e) /\ ~(e < d)
    BY <2>2, RankGrows
  <2> QED
    BY <2>1, <2>3
<1> HIDE DEF S, N
<1>5. r \in Injection(S, N)
  BY <1>3, <1>4, Zenon DEF Injection, IsInjective
<1>6. r \in Surjection(S, N)
  BY <1>1, <1>2, <1>5, FS_Injection
<1>7. \E e \in S : r[e] = k
  BY <1>6 DEF Surjection, N
<1> QED
  BY <1>7 DEF S

\* LineEnd(f, k) is the only end with that number.
LEMMA LineEndIs ==
  ASSUME NEW f \in Seq(Char), NEW k \in Bright!LineNos(f)
  PROVE  /\ Bright!LineEnd(f, k) \in Bright!Ends(f)
         /\ Rank(f, Bright!LineEnd(f, k)) = k
         /\ \A e \in Bright!Ends(f) : Rank(f, e) = k => e = Bright!LineEnd(f, k)
<1>1. /\ Bright!LineEnd(f, k) \in Bright!Ends(f)
      /\ Rank(f, Bright!LineEnd(f, k)) = k
  <2>1. Bright!LineEnd(f, k) = CHOOSE e \in Bright!Ends(f) : Rank(f, e) = k
    BY SameCardinality DEF Rank, Bright!LineEnd
  <2>2. \E e \in Bright!Ends(f) : Rank(f, e) = k
    BY EveryRank
  <2> QED
    BY <2>1, <2>2
<1>2. ASSUME NEW e \in Bright!Ends(f), Rank(f, e) = k
      PROVE  e = Bright!LineEnd(f, k)
  <2>1. e \in Nat /\ Bright!LineEnd(f, k) \in Nat /\ k \in Nat
    BY <1>1, EndsFinite DEF Bright!LineNos
  <2>2. ~(e < Bright!LineEnd(f, k)) /\ ~(Bright!LineEnd(f, k) < e)
    BY <1>1, <1>2, <2>1, RankGrows
  <2> QED
    BY <2>1, <2>2
<1> QED
  BY <1>1, <1>2

\* A line is what lies between two ends with none in between; lines come in
\* the order of their numbers.
LEMMA LineFacts ==
  ASSUME NEW f \in Seq(Char), NEW k \in Bright!LineNos(f)
  PROVE  /\ Bright!LineEnd(f, k) \in Bright!Ends(f)
         /\ Bright!LineEnd(f, k) \in 1 .. Len(f)
         /\ Bright!Before(f, k) \in {0} \cup Bright!Ends(f)
         /\ Bright!Before(f, k) \in 0 .. Len(f) - 1
         /\ Bright!Before(f, k) < Bright!LineEnd(f, k)
         /\ \A d \in Bright!Ends(f) :
              ~(Bright!Before(f, k) < d /\ d < Bright!LineEnd(f, k))
         /\ \A j \in 1 .. k - 1 : j \in Bright!LineNos(f) /\
                                  Bright!LineEnd(f, j) <= Bright!Before(f, k)
<1> DEFINE b == Bright!Before(f, k)
           e == Bright!LineEnd(f, k)
<1>0. /\ Bright!Ends(f) \subseteq 1 .. Len(f) /\ k \in Nat \ {0}
      /\ Cardinality(Bright!Ends(f)) \in Nat
  BY EndsFinite, LineNosAre
<1>1. e \in Bright!Ends(f) /\ Rank(f, e) = k /\ e \in 1 .. Len(f)
  BY <1>0, LineEndIs
<1>2. \A j \in 1 .. k - 1 : j \in Bright!LineNos(f)
  BY <1>0, LineNosAre
<1>3. CASE k = 1
  <2>1. b = 0
    BY <1>3 DEF Bright!Before
  <2>2. ASSUME NEW d \in Bright!Ends(f), d < e PROVE FALSE
    <3>1. Rank(f, d) < 1 /\ Rank(f, d) \in Nat \ {0}
      BY <1>1, <1>3, <2>2, RankGrows DEF Bright!LineNos
    <3> QED
      BY <3>1
  <2> QED
    BY <1>0, <1>1, <1>3, <2>1, <2>2
<1>4. CASE k # 1
  <2>1. k - 1 \in Bright!LineNos(f) /\ b = Bright!LineEnd(f, k - 1)
    BY <1>0, <1>2, <1>4 DEF Bright!Before
  <2>2. b \in Bright!Ends(f) /\ Rank(f, b) = k - 1 /\ b \in 1 .. Len(f)
    BY <1>0, <2>1, LineEndIs
  <2>3. b < e
    <3>1. ~(e < b) /\ e # b
      BY <1>0, <1>1, <2>2, RankGrows
    <3> QED
      BY <1>1, <2>2, <3>1
  <2>4. ASSUME NEW d \in Bright!Ends(f), b < d, d < e PROVE FALSE
    <3>1. Rank(f, b) < Rank(f, d) /\ Rank(f, d) < Rank(f, e) /\ Rank(f, d) \in Nat
      BY <1>1, <2>2, <2>4, RankGrows DEF Bright!LineNos
    <3> QED
      BY <1>0, <1>1, <2>2, <3>1
  <2>5. ASSUME NEW j \in 1 .. k - 1 PROVE Bright!LineEnd(f, j) <= b
    <3>1. /\ Bright!LineEnd(f, j) \in Bright!Ends(f) /\ Bright!LineEnd(f, j) \in Nat
          /\ Rank(f, Bright!LineEnd(f, j)) = j
      BY <1>0, <1>2, LineEndIs
    <3>2. ~(b < Bright!LineEnd(f, j))
      <4>1. b < Bright!LineEnd(f, j) => k - 1 < j
        BY <2>2, <3>1, RankGrows
      <4> QED
        BY <1>0, <4>1
    <3> QED
      BY <2>2, <3>1, <3>2
  <2> QED
    BY <1>0, <1>1, <1>2, <2>2, <2>3, <2>4, <2>5
<1> QED
  BY <1>3, <1>4

-----------------------------------------------------------------------------
(* What is printed, and where.                                             *)

\* The kinds of characters are told apart.
LEMMA CharFacts ==
  /\ Bright!Blanks = {".", "/"} /\ "." # "/"
  /\ \A c \in Letter : c \in Char /\ c \notin Digit /\ c \notin Bright!Blanks
  /\ \A c \in Digit : c \in Char /\ c \notin Letter /\ c \notin Bright!Blanks
  /\ \A c \in Bright!Blanks : c \in Char /\ c \notin Letter /\ c \notin Digit
  /\ \A c \in Char : c \in Letter \/ c \in Digit \/ c = "." \/ c = "/"
  BY FormatAssumption DEF Char, Bright!Blanks

\* A name has letters, and fits.
LEMMA NameFacts ==
  ASSUME NEW k \in DOMAIN sub_str
  PROVE  /\ sub_str[k] \in Seq(Letter) /\ sub_str[k] \in Seq(Char)
         /\ Len(sub_str[k]) \in 1 .. NameWidth
         /\ \A i \in 1 .. Len(sub_str[k]) : sub_str[k][i] \in Letter
<1>1. sub_str[k] \in Seq(Letter) /\ Len(sub_str[k]) \in 1 .. NameWidth
  BY FormatAssumption
<1>2. \A i \in 1 .. Len(sub_str[k]) : sub_str[k][i] \in Letter
  BY <1>1
<1>3. sub_str[k] \in Seq(Char)
  BY <1>1, <1>2 DEF Char
<1> QED
  BY <1>1, <1>2, <1>3

\* A printed line is a name, blanks up to the number, the number and a newline.
LEMMA PrintedFacts ==
  ASSUME NEW k \in DOMAIN sub_str, NEW v \in Seq(Digit)
  PROVE  /\ Bright!Printed(k, v) \in Seq(Char)
         /\ Len(Bright!Printed(k, v)) = NameWidth + 2 + Len(v)
         /\ \A i \in 1 .. Len(sub_str[k]) : Bright!Printed(k, v)[i] = sub_str[k][i]
         /\ \A i \in Len(sub_str[k]) + 1 .. NameWidth + 1 : Bright!Printed(k, v)[i] = "."
         /\ \A i \in 1 .. Len(v) : Bright!Printed(k, v)[NameWidth + 1 + i] = v[i]
         /\ Bright!Printed(k, v)[NameWidth + 2 + Len(v)] = "/"
<1> DEFINE n == sub_str[k]
           pad == [i \in 1 .. NameWidth - Len(sub_str[k]) |-> "."]
           a == n \o pad
           b == a \o <<".">>
           c == b \o v
           d == c \o <<"/">>
<1>0. Bright!Printed(k, v) = d
  BY DEF Bright!Printed
<1>1. /\ n \in Seq(Char) /\ Len(n) \in 1 .. NameWidth /\ NameWidth \in Nat
      /\ "." \in Char /\ "/" \in Char
  BY NameFacts, CharFacts, FormatAssumption
<1>2. v \in Seq(Char) /\ Len(v) \in Nat
  BY DEF Char
<1>3. pad \in Seq(Char) /\ Len(pad) = NameWidth - Len(n)
      /\ \A i \in 1 .. Len(pad) : pad[i] = "."
  <2>1. NameWidth - Len(n) \in Nat
    BY <1>1
  <2>2. pad \in [1 .. NameWidth - Len(n) -> Char]
    BY <1>1
  <2> QED
    BY <2>1, <2>2
<1>4. <<".">> \in Seq(Char) /\ Len(<<".">>) = 1 /\ <<".">>[1] = "."
  BY <1>1
<1>5. <<"/">> \in Seq(Char) /\ Len(<<"/">>) = 1 /\ <<"/">>[1] = "/"
  BY <1>1
<1> HIDE DEF n, pad
<1>6. /\ a \in Seq(Char) /\ Len(a) = NameWidth
      /\ \A i \in 1 .. NameWidth : a[i] = IF i <= Len(n) THEN n[i] ELSE "."
  <2>1. /\ a \in Seq(Char) /\ Len(a) = Len(n) + Len(pad)
        /\ \A i \in 1 .. Len(n) + Len(pad) : a[i] = IF i <= Len(n) THEN n[i] ELSE pad[i - Len(n)]
    BY <1>1, <1>3, ConcatProperties
  <2> QED
    BY <1>1, <1>3, <2>1
<1> HIDE DEF a
<1>7. /\ b \in Seq(Char) /\ Len(b) = NameWidth + 1
      /\ \A i \in 1 .. NameWidth + 1 : b[i] = IF i <= Len(n) THEN n[i] ELSE "."
  <2>1. /\ b \in Seq(Char) /\ Len(b) = Len(a) + 1
        /\ \A i \in 1 .. Len(a) + 1 : b[i] = IF i <= Len(a) THEN a[i] ELSE <<".">>[i - Len(a)]
    BY <1>4, <1>6, ConcatProperties
  <2> QED
    BY <1>1, <1>4, <1>6, <2>1
<1> HIDE DEF b
<1>8. /\ c \in Seq(Char) /\ Len(c) = NameWidth + 1 + Len(v)
      /\ \A i \in 1 .. NameWidth + 1 : c[i] = b[i]
      /\ \A i \in 1 .. Len(v) : c[NameWidth + 1 + i] = v[i]
  <2>1. /\ c \in Seq(Char) /\ Len(c) = Len(b) + Len(v)
        /\ \A i \in 1 .. Len(b) + Len(v) : c[i] = IF i <= Len(b) THEN b[i] ELSE v[i - Len(b)]
    BY <1>2, <1>7, ConcatProperties
  <2> QED
    BY <1>1, <1>2, <1>7, <2>1
<1> HIDE DEF c
<1>9. /\ d \in Seq(Char) /\ Len(d) = NameWidth + 2 + Len(v)
      /\ \A i \in 1 .. NameWidth + 1 + Len(v) : d[i] = c[i]
      /\ d[NameWidth + 2 + Len(v)] = "/"
  <2>1. /\ d \in Seq(Char) /\ Len(d) = Len(c) + 1
        /\ \A i \in 1 .. Len(c) + 1 : d[i] = IF i <= Len(c) THEN c[i] ELSE <<"/">>[i - Len(c)]
    BY <1>5, <1>8, ConcatProperties
  <2> QED
    BY <1>1, <1>2, <1>5, <1>8, <2>1
<1> HIDE DEF d
<1>10. \A i \in 1 .. Len(n) : d[i] = n[i]
  BY <1>1, <1>2, <1>7, <1>8, <1>9
<1>11. \A i \in Len(n) + 1 .. NameWidth + 1 : d[i] = "."
  BY <1>1, <1>2, <1>7, <1>8, <1>9
<1>12. \A i \in 1 .. Len(v) : d[NameWidth + 1 + i] = v[i]
  BY <1>1, <1>2, <1>8, <1>9
<1> QED
  BY <1>0, <1>9, <1>10, <1>11, <1>12 DEF n

\* Over replaces as many characters as are printed, and lengthens the file
\* when it ends before.
LEMMA OverFacts ==
  ASSUME NEW f \in Seq(Char), NEW t \in Seq(Char), NEW b \in 0 .. Len(f)
  PROVE  /\ Bright!Over(f, b, t) \in Seq(Char)
         /\ Len(Bright!Over(f, b, t)) = IF Len(f) >= b + Len(t) THEN Len(f) ELSE b + Len(t)
         /\ \A i \in 1 .. Len(t) : Bright!Over(f, b, t)[b + i] = t[i]
         /\ \A i \in 1 .. Len(f) : i <= b \/ b + Len(t) < i => Bright!Over(f, b, t)[i] = f[i]
<1> DEFINE g == Bright!Over(f, b, t)
           m == IF Len(f) >= b + Len(t) THEN Len(f) ELSE b + Len(t)
<1>0. Len(f) \in Nat /\ Len(t) \in Nat /\ b \in Nat /\ m \in Nat
  OBVIOUS
<1>1. g = [i \in 1 .. m |-> IF i \in b + 1 .. b + Len(t) THEN t[i - b] ELSE f[i]]
  BY <1>0, MaxOfTwo DEF Bright!Over
<1> HIDE DEF g
<1>2. \A i \in 1 .. m : (IF i \in b + 1 .. b + Len(t) THEN t[i - b] ELSE f[i]) \in Char
  <2> SUFFICES ASSUME NEW i \in 1 .. m
               PROVE  (IF i \in b + 1 .. b + Len(t) THEN t[i - b] ELSE f[i]) \in Char
    OBVIOUS
  <2>1. CASE i \in b + 1 .. b + Len(t)
    <3>1. i - b \in 1 .. Len(t)
      BY <1>0, <2>1
    <3> QED
      BY <2>1, <3>1
  <2>2. CASE i \notin b + 1 .. b + Len(t)
    <3>1. i \in 1 .. Len(f)
      BY <1>0, <2>2
    <3> QED
      BY <2>2, <3>1
  <2> QED
    BY <2>1, <2>2
<1>3. g \in Seq(Char) /\ Len(g) = m
  <2>1. g \in [1 .. m -> Char]
    BY <1>1, <1>2
  <2>2. m \in Nat
    BY <1>0
  <2> HIDE DEF m
  <2> QED
    BY <2>1, <2>2
<1>4. ASSUME NEW i \in 1 .. Len(t) PROVE g[b + i] = t[i]
  <2>1. b + i \in 1 .. m /\ b + i \in b + 1 .. b + Len(t) /\ (b + i) - b = i
    BY <1>0
  <2> QED
    BY <1>1, <2>1
<1>5. ASSUME NEW i \in 1 .. Len(f), i <= b \/ b + Len(t) < i PROVE g[i] = f[i]
  <2>1. i \in 1 .. m /\ i \notin b + 1 .. b + Len(t)
    BY <1>0, <1>5
  <2> QED
    BY <1>1, <2>1
<1> QED
  BY <1>3, <1>4, <1>5 DEF g

-----------------------------------------------------------------------------
(* One line rewritten.                                                     *)

\* A file that ends with a newline, so that its last line has an end.
IsText(f) == f \in Seq(Char) /\ f # <<>> /\ f[Len(f)] = "/"

\* What change_subject_bright makes of f.
Rewrite(f, k, v) == Bright!Over(f, Bright!Before(f, k), Bright!Printed(k, v))

\* Behind the characters of the lines before come those that are printed,
\* and then what was in their place.
LEMMA RewriteFacts ==
  ASSUME NEW f, IsText(f), NEW k \in DOMAIN sub_str, k \in Bright!LineNos(f),
         NEW v \in Seq(Digit)
  PROVE  LET b == Bright!Before(f, k)
             to == b + NameWidth + 2 + Len(v)
             g == Rewrite(f, k, v)
         IN
         /\ IsText(g) /\ b \in 0 .. Len(f) - 1
         /\ Len(g) = IF Len(f) >= to THEN Len(f) ELSE to
         /\ b # 0 => f[b] = "/" /\ g[b] = "/"
         /\ \A i \in 1 .. Len(g) : i <= b \/ to < i => i \in 1 .. Len(f) /\ g[i] = f[i]
         /\ \A i \in 1 .. NameWidth + 2 + Len(v) : g[b + i] = Bright!Printed(k, v)[i]
<1> DEFINE b == Bright!Before(f, k)
           to == b + NameWidth + 2 + Len(v)
           g == Rewrite(f, k, v)
           t == Bright!Printed(k, v)
<1>1. /\ f \in Seq(Char) /\ Len(f) \in Nat /\ b \in 0 .. Len(f) - 1 /\ Len(v) \in Nat
      /\ b # 0 => f[b] = "/"
  BY LineFacts DEF IsText, Bright!Ends
<1>2. NameWidth \in Nat
  BY FormatAssumption
<1>3. /\ t \in Seq(Char) /\ Len(t) = NameWidth + 2 + Len(v)
      /\ t[NameWidth + 2 + Len(v)] = "/"
  BY PrintedFacts
<1>4. g = Bright!Over(f, b, t)
  BY DEF Rewrite
<1>5. /\ g \in Seq(Char)
      /\ Len(g) = IF Len(f) >= b + Len(t) THEN Len(f) ELSE b + Len(t)
      /\ \A i \in 1 .. Len(t) : g[b + i] = t[i]
      /\ \A i \in 1 .. Len(f) : i <= b \/ b + Len(t) < i => g[i] = f[i]
  <2> HIDE DEF t, b, g
  <2>1. b \in 0 .. Len(f) /\ f \in Seq(Char) /\ t \in Seq(Char)
    BY <1>1, <1>3
  <2> QED
    BY <1>4, <2>1, OverFacts
<1>6. to = b + Len(t) /\ to \in Nat /\ Len(t) \in Nat \ {0} /\ b \in Nat
  BY <1>1, <1>2, <1>3
<1> HIDE DEF t, b, g, to
<1>7. \A i \in 1 .. Len(g) : i <= b \/ to < i => i \in 1 .. Len(f) /\ g[i] = f[i]
  BY <1>1, <1>5, <1>6
<1>8. b # 0 => f[b] = "/" /\ g[b] = "/"
  BY <1>1, <1>5, <1>6
<1>9. g[to] = "/"
  <2>1. Len(t) \in 1 .. Len(t)
    BY <1>6
  <2> QED
    BY <1>3, <1>5, <1>6, <2>1
<1>10. IsText(g)
  <2>1. CASE Len(f) >= to /\ to # Len(f)
    BY <1>1, <1>5, <1>6, <2>1 DEF IsText
  <2>2. CASE ~(Len(f) >= to /\ to # Len(f))
    <3>1. Len(g) = to /\ to # 0
      BY <1>1, <1>5, <1>6, <2>2
    <3> QED
      BY <1>5, <1>9, <3>1 DEF IsText
  <2> QED
    BY <2>1, <2>2
<1>11. Len(g) = IF Len(f) >= to THEN Len(f) ELSE to
  BY <1>5, <1>6
<1> QED
  BY <1>1, <1>3, <1>5, <1>7, <1>8, <1>10, <1>11 DEF b, to, g, t

\* The characters in the place of the line are letters, blanks, digits and a
\* newline.
LEMMA RewriteKinds ==
  ASSUME NEW f, IsText(f), NEW k \in DOMAIN sub_str, k \in Bright!LineNos(f),
         NEW v \in Seq(Digit)
  PROVE  LET b == Bright!Before(f, k)
             m == Len(sub_str[k])
             to == b + NameWidth + 2 + Len(v)
             g == Rewrite(f, k, v)
         IN
         /\ \A d \in b + 1 .. b + m : g[d] \in Letter
         /\ \A d \in b + m + 1 .. b + NameWidth + 1 : g[d] = "."
         /\ \A d \in b + NameWidth + 2 .. to - 1 : g[d] \in Digit
         /\ g[to] = "/"
         /\ b \in Nat /\ m \in Nat \ {0} /\ m <= NameWidth /\ NameWidth \in Nat
         /\ Len(v) \in Nat /\ Len(f) \in Nat /\ Len(g) \in Nat /\ to <= Len(g)
<1> DEFINE b == Bright!Before(f, k)
           to == b + NameWidth + 2 + Len(v)
           g == Rewrite(f, k, v)
           m == Len(sub_str[k])
           t == Bright!Printed(k, v)
<1>1. /\ IsText(g) /\ b \in 0 .. Len(f) - 1 /\ Len(f) \in Nat
      /\ Len(g) = IF Len(f) >= to THEN Len(f) ELSE to
      /\ \A i \in 1 .. NameWidth + 2 + Len(v) : g[b + i] = t[i]
  BY RewriteFacts DEF IsText
<1>2. m \in 1 .. NameWidth /\ NameWidth \in Nat /\ \A i \in 1 .. m : sub_str[k][i] \in Letter
  BY NameFacts, FormatAssumption
<1>3. Len(v) \in Nat /\ \A i \in 1 .. Len(v) : v[i] \in Digit
  OBVIOUS
<1>4. /\ \A i \in 1 .. m : t[i] = sub_str[k][i]
      /\ \A i \in m + 1 .. NameWidth + 1 : t[i] = "."
      /\ \A i \in 1 .. Len(v) : t[NameWidth + 1 + i] = v[i]
      /\ t[NameWidth + 2 + Len(v)] = "/"
  BY PrintedFacts
<1>5. to = b + NameWidth + 2 + Len(v)
  OBVIOUS
<1> HIDE DEF b, g, m, t, to
<1>6. /\ b \in Nat /\ m \in Nat \ {0} /\ m <= NameWidth /\ NameWidth \in Nat /\ Len(v) \in Nat
      /\ to \in Nat
  BY <1>1, <1>2, <1>3, <1>5
<1>7. Len(f) \in Nat /\ Len(g) \in Nat /\ to <= Len(g)
  BY <1>1, <1>6
<1>8. ASSUME NEW d \in b + 1 .. b + m PROVE g[d] \in Letter
  <2>1. d - b \in 1 .. m /\ d - b \in 1 .. NameWidth + 2 + Len(v) /\ b + (d - b) = d
    BY <1>6
  <2> QED
    BY <1>1, <1>2, <1>4, <2>1
<1>9. ASSUME NEW d \in b + m + 1 .. b + NameWidth + 1 PROVE g[d] = "."
  <2>1. d - b \in m + 1 .. NameWidth + 1 /\ d - b \in 1 .. NameWidth + 2 + Len(v) /\ b + (d - b) = d
    BY <1>6
  <2> QED
    BY <1>1, <1>4, <2>1
<1>10. ASSUME NEW d \in b + NameWidth + 2 .. to - 1 PROVE g[d] \in Digit
  <2>1. /\ d - b - NameWidth - 1 \in 1 .. Len(v) /\ d - b \in 1 .. NameWidth + 2 + Len(v)
        /\ b + (d - b) = d /\ NameWidth + 1 + (d - b - NameWidth - 1) = d - b
    BY <1>5, <1>6
  <2>2. g[d] = t[d - b] /\ t[d - b] = v[d - b - NameWidth - 1]
    BY <1>1, <1>4, <2>1
  <2> QED
    BY <1>3, <2>1, <2>2
<1>11. g[to] = "/"
  <2>1. NameWidth + 2 + Len(v) \in 1 .. NameWidth + 2 + Len(v) /\ b + (NameWidth + 2 + Len(v)) = to
    BY <1>5, <1>6
  <2> QED
    BY <1>1, <1>4, <2>1
<1> QED
  BY <1>6, <1>7, <1>8, <1>9, <1>10, <1>11 DEF b, to, g, m

\* The lines end where they did, outside what is printed, and at its end.
LEMMA RewriteEnds ==
  ASSUME NEW f, IsText(f), NEW k \in DOMAIN sub_str, k \in Bright!LineNos(f),
         NEW v \in Seq(Digit)
  PROVE  LET b == Bright!Before(f, k)
             to == b + NameWidth + 2 + Len(v)
         IN Bright!Ends(Rewrite(f, k, v)) =
              {d \in Bright!Ends(f) : d <= b \/ to < d} \cup {to}
<1> DEFINE b == Bright!Before(f, k)
           to == b + NameWidth + 2 + Len(v)
           g == Rewrite(f, k, v)
           m == Len(sub_str[k])
<1>1. /\ IsText(g) /\ b \in 0 .. Len(f) - 1
      /\ Len(g) = IF Len(f) >= to THEN Len(f) ELSE to
      /\ \A i \in 1 .. Len(g) : i <= b \/ to < i => i \in 1 .. Len(f) /\ g[i] = f[i]
  BY RewriteFacts
<1>2. /\ \A d \in b + 1 .. b + m : g[d] \in Letter
      /\ \A d \in b + m + 1 .. b + NameWidth + 1 : g[d] = "."
      /\ \A d \in b + NameWidth + 2 .. to - 1 : g[d] \in Digit
      /\ g[to] = "/"
  BY RewriteKinds
<1>3. /\ b \in Nat /\ m \in Nat \ {0} /\ m <= NameWidth /\ NameWidth \in Nat
      /\ Len(v) \in Nat /\ Len(f) \in Nat /\ Len(g) \in Nat /\ to <= Len(g)
      /\ to = b + NameWidth + 2 + Len(v)
  BY RewriteKinds
<1>4. /\ Bright!Ends(f) = {i \in 1 .. Len(f) : f[i] = "/"}
      /\ Bright!Ends(g) = {i \in 1 .. Len(g) : g[i] = "/"}
  BY <1>1 DEF Bright!Ends, IsText
<1> HIDE DEF b, to, g, m
<1>5. ASSUME NEW d \in b + 1 .. to - 1 PROVE g[d] # "/"
  <2>1. \/ d \in b + 1 .. b + m
        \/ d \in b + m + 1 .. b + NameWidth + 1
        \/ d \in b + NameWidth + 2 .. to - 1
    BY <1>3
  <2>2. g[d] \in Letter \/ g[d] = "." \/ g[d] \in Digit
    BY <1>2, <2>1
  <2> QED
    BY <2>2, CharFacts
<1>6. ASSUME NEW d \in Bright!Ends(g)
      PROVE  d = to \/ (d \in Bright!Ends(f) /\ (d <= b \/ to < d))
  <2>1. d \in 1 .. Len(g) /\ g[d] = "/"
    BY <1>4
  <2>2. d \notin b + 1 .. to - 1
    BY <1>5, <2>1
  <2>3. d = to \/ d <= b \/ to < d
    BY <1>3, <2>1, <2>2
  <2>4. ASSUME d <= b \/ to < d PROVE d \in 1 .. Len(f) /\ g[d] = f[d]
    BY <1>1, <2>1, <2>4
  <2> QED
    BY <1>4, <2>1, <2>3, <2>4
<1>7. ASSUME NEW d \in Bright!Ends(f), d <= b \/ to < d PROVE d \in Bright!Ends(g)
  <2>1. d \in 1 .. Len(f) /\ f[d] = "/"
    BY <1>4
  <2>2. d \in 1 .. Len(g)
    BY <1>1, <1>3, <2>1
  <2> QED
    BY <1>1, <1>4, <1>7, <2>1, <2>2
<1>8. to \in Bright!Ends(g)
  BY <1>2, <1>3, <1>4
<1>9. Bright!Ends(g) = {d \in Bright!Ends(f) : d <= b \/ to < d} \cup {to}
  BY <1>6, <1>7, <1>8
<1> QED
  BY <1>9 DEF b, to, g

\* Where numbers begin, likewise.
LEMMA RewriteStarts ==
  ASSUME NEW f, IsText(f), NEW k \in DOMAIN sub_str, k \in Bright!LineNos(f),
         NEW v \in Seq(Digit), Len(v) # 0
  PROVE  LET b == Bright!Before(f, k)
             to == b + NameWidth + 2 + Len(v)
         IN NumberStarts(Rewrite(f, k, v)) =
              {i \in NumberStarts(f) : i <= b \/ to + 1 < i} \cup {b + NameWidth + 2}
<1> DEFINE b == Bright!Before(f, k)
           to == b + NameWidth + 2 + Len(v)
           g == Rewrite(f, k, v)
           m == Len(sub_str[k])
           n == b + NameWidth + 2
<1>1. /\ b \in 0 .. Len(f) - 1
      /\ Len(g) = IF Len(f) >= to THEN Len(f) ELSE to
      /\ b # 0 => f[b] = "/" /\ g[b] = "/"
      /\ \A i \in 1 .. Len(g) : i <= b \/ to < i => i \in 1 .. Len(f) /\ g[i] = f[i]
  BY RewriteFacts
<1>2. /\ \A d \in b + 1 .. b + m : g[d] \in Letter
      /\ \A d \in b + m + 1 .. b + NameWidth + 1 : g[d] = "."
      /\ \A d \in b + NameWidth + 2 .. to - 1 : g[d] \in Digit
      /\ g[to] = "/"
  BY RewriteKinds
<1>3. /\ b \in Nat /\ m \in Nat \ {0} /\ m <= NameWidth /\ NameWidth \in Nat
      /\ Len(v) \in Nat \ {0} /\ Len(f) \in Nat /\ Len(g) \in Nat /\ to <= Len(g)
      /\ to = b + NameWidth + 2 + Len(v) /\ n = b + NameWidth + 2
  BY RewriteKinds
<1> HIDE DEF b, to, g, m, n
<1>4. ASSUME NEW i \in NumberStarts(g), i \in b + 1 .. to + 1
      PROVE  i = n
  <2>1. i \in 2 .. Len(g) /\ g[i - 1] = "." /\ g[i] \notin Bright!Blanks
    BY DEF NumberStarts
  <2>2. i # b + 1
    <3>1. ASSUME i = b + 1 PROVE b # 0 /\ i - 1 = b
      BY <1>3, <2>1, <3>1
    <3> QED
      BY <1>1, <2>1, <3>1, CharFacts
  <2>3. i # to + 1
    <3>1. ASSUME i = to + 1 PROVE i - 1 = to
      BY <1>3, <3>1
    <3> QED
      BY <1>2, <2>1, <3>1, CharFacts
  <2>4. i # to
    BY <1>2, <2>1, CharFacts
  <2>5. \/ i - 1 \in b + 1 .. b + m
        \/ i \in b + m + 1 .. b + NameWidth + 1
        \/ i = n
        \/ i - 1 \in b + NameWidth + 2 .. to - 1
    BY <1>3, <1>4, <2>1, <2>2, <2>3, <2>4
  <2>6. i - 1 \notin b + 1 .. b + m /\ i - 1 \notin b + NameWidth + 2 .. to - 1
    BY <1>2, <2>1, CharFacts
  <2>7. i \notin b + m + 1 .. b + NameWidth + 1
    BY <1>2, <2>1, CharFacts
  <2> QED
    BY <2>5, <2>6, <2>7
<1>5. n \in NumberStarts(g)
  <2>1. /\ n \in 2 .. Len(g) /\ n \in b + NameWidth + 2 .. to - 1
        /\ n - 1 \in b + m + 1 .. b + NameWidth + 1
    BY <1>3
  <2>2. g[n - 1] = "." /\ g[n] \notin Bright!Blanks
    BY <1>2, <2>1, CharFacts
  <2> QED
    BY <2>1, <2>2 DEF NumberStarts
<1>6. ASSUME NEW i \in NumberStarts(g), i <= b \/ to + 1 < i
      PROVE  i \in NumberStarts(f)
  <2>1. i \in 2 .. Len(g) /\ g[i - 1] = "." /\ g[i] \notin Bright!Blanks
    BY DEF NumberStarts
  <2>2. /\ i \in 1 .. Len(g) /\ (i <= b \/ to < i)
        /\ i - 1 \in 1 .. Len(g) /\ (i - 1 <= b \/ to < i - 1)
    BY <1>3, <1>6, <2>1
  <2>3. i \in 1 .. Len(f) /\ g[i] = f[i] /\ i - 1 \in 1 .. Len(f) /\ g[i - 1] = f[i - 1]
    BY <1>1, <2>2
  <2>4. i \in 2 .. Len(f)
    BY <2>1, <2>3
  <2> QED
    BY <2>1, <2>3, <2>4 DEF NumberStarts
<1>7. ASSUME NEW i \in NumberStarts(f), i <= b \/ to + 1 < i
      PROVE  i \in NumberStarts(g)
  <2>1. i \in 2 .. Len(f) /\ f[i - 1] = "." /\ f[i] \notin Bright!Blanks
    BY DEF NumberStarts
  <2>2. i \in 2 .. Len(g) /\ i \in 1 .. Len(g) /\ i - 1 \in 1 .. Len(g)
    BY <1>1, <1>3, <2>1
  <2>3. (i <= b \/ to < i) /\ (i - 1 <= b \/ to < i - 1)
    BY <1>3, <1>7, <2>1
  <2>4. g[i] = f[i] /\ g[i - 1] = f[i - 1]
    BY <1>1, <2>2, <2>3
  <2> QED
    BY <2>1, <2>2, <2>4 DEF NumberStarts
<1>8. ASSUME NEW i \in NumberStarts(g) PROVE i \in b + 1 .. to + 1 \/ i <= b \/ to + 1 < i
  BY <1>3 DEF NumberStarts
<1>9. NumberStarts(g) = {i \in NumberStarts(f) : i <= b \/ to + 1 < i} \cup {n}
  BY <1>4, <1>5, <1>6, <1>7, <1>8
<1> QED
  BY <1>9 DEF b, to, g, n

-----------------------------------------------------------------------------
(* What every file keeps, however it has been damaged.                     *)

\* Every word behind a blank is a number that was delivered or entered.
Legible(f) ==
  /\ IsText(f) /\ NumbersInPlace(f) /\ NamesHaveNumbers(f)
  /\ \A i \in NumberStarts(f) : Bright!WordAt(f, i) \in Command

\* A word ends before the next blank.
LEMMA WordIs ==
  ASSUME NEW f \in Seq(Char), NEW i \in 1 .. Len(f), NEW e \in i .. Len(f),
         f[e] \in Bright!Blanks, \A j \in i .. e - 1 : f[j] \notin Bright!Blanks
  PROVE  /\ Bright!WordAt(f, i) \in Seq(Char)
         /\ Len(Bright!WordAt(f, i)) = e - i
         /\ \A j \in 1 .. e - i : Bright!WordAt(f, i)[j] = f[i + j - 1]
<1> DEFINE T == {j \in i .. Len(f) : f[j] \in Bright!Blanks}
<1>1. Len(f) \in Nat /\ i \in Nat \ {0} /\ e \in Nat /\ i <= e /\ e <= Len(f)
  OBVIOUS
<1>2. T \in SUBSET Nat /\ e \in T
  BY <1>1
<1>3. ASSUME NEW y \in T PROVE e <= y
  BY <1>1
<1>4. Bright!Min(T) = e
  <2> HIDE DEF T
  <2> QED
    BY <1>2, <1>3, MinIs
<1>5. Bright!WordAt(f, i) = SubSeq(f, i, e - 1)
  BY <1>4 DEF Bright!WordAt
<1>6. i \in Int /\ e - 1 \in Int /\ \A j \in i .. e - 1 : f[j] \in Char
  BY <1>1
<1>7. /\ SubSeq(f, i, e - 1) \in Seq(Char)
      /\ Len(SubSeq(f, i, e - 1)) = IF i <= e - 1 THEN (e - 1) - i + 1 ELSE 0
      /\ \A j \in 1 .. (e - 1) - i + 1 : SubSeq(f, i, e - 1)[j] = f[i + j - 1]
  BY <1>6, SubSeqProperties
<1> QED
  BY <1>1, <1>5, <1>7

\* In a text every word has an end, which is in its line.
LEMMA WordEnds ==
  ASSUME NEW f, IsText(f), NEW i \in 1 .. Len(f)
  PROVE  \E e \in i .. Len(f) : /\ f[e] \in Bright!Blanks
                                /\ \A j \in i .. e - 1 : f[j] \notin Bright!Blanks
<1> DEFINE T == {j \in i .. Len(f) : f[j] \in Bright!Blanks}
<1>1. Len(f) \in Nat /\ f[Len(f)] \in Bright!Blanks
  BY CharFacts DEF IsText
<1>2. T \in SUBSET Nat /\ Len(f) \in T
  BY <1>1
<1>3. PICK e \in T : \A y \in T : e <= y
  <2> HIDE DEF T
  <2> QED
    BY <1>2, LeastMember
<1>4. e \in i .. Len(f) /\ f[e] \in Bright!Blanks
  OBVIOUS
<1>5. ASSUME NEW j \in i .. e - 1 PROVE f[j] \notin Bright!Blanks
  <2>1. j \in i .. Len(f) /\ ~(e <= j)
    BY <1>1, <1>4
  <2> QED
    BY <1>3, <2>1
<1> QED
  BY <1>4, <1>5

\* Files that agree on a word and the blank behind it have the same word.
LEMMA SameWord ==
  ASSUME NEW f \in Seq(Char), NEW g \in Seq(Char), NEW i \in 1 .. Len(f),
         NEW e \in i .. Len(f), e <= Len(g),
         f[e] \in Bright!Blanks, \A j \in i .. e - 1 : f[j] \notin Bright!Blanks,
         \A j \in i .. e : g[j] = f[j]
  PROVE  Bright!WordAt(g, i) = Bright!WordAt(f, i)
<1> DEFINE a == Bright!WordAt(f, i)
           b == Bright!WordAt(g, i)
<1>1. a \in Seq(Char) /\ Len(a) = e - i /\ \A j \in 1 .. e - i : a[j] = f[i + j - 1]
  BY WordIs
<1>2. /\ i \in Nat \ {0} /\ e \in Nat /\ Len(f) \in Nat /\ Len(g) \in Nat
      /\ i <= e /\ e <= Len(g)
  OBVIOUS
<1>3. i \in 1 .. Len(g) /\ e \in i .. Len(g) /\ g[e] \in Bright!Blanks
  BY <1>2
<1>4. \A j \in i .. e - 1 : g[j] \notin Bright!Blanks
  BY <1>2
<1>5. b \in Seq(Char) /\ Len(b) = e - i /\ \A j \in 1 .. e - i : b[j] = g[i + j - 1]
  BY <1>3, <1>4, WordIs
<1>6. ASSUME NEW j \in 1 .. e - i PROVE g[i + j - 1] = f[i + j - 1]
  <2>1. i + j - 1 \in i .. e
    BY <1>2
  <2> QED
    BY <2>1
<1> HIDE DEF a, b
<1>7. \A j \in 1 .. Len(b) : b[j] = a[j]
  BY <1>1, <1>5, <1>6
<1>8. b = a
  BY <1>1, <1>5, <1>7, SeqEqual
<1> QED
  BY <1>8 DEF a, b

\* What was printed is found again as a word.
LEMMA RewriteNumber ==
  ASSUME NEW f, IsText(f), NEW k \in DOMAIN sub_str, k \in Bright!LineNos(f),
         NEW v \in Seq(Digit)
  PROVE  Bright!WordAt(Rewrite(f, k, v), Bright!Before(f, k) + NameWidth + 2) = v
<1> DEFINE b == Bright!Before(f, k)
           to == b + NameWidth + 2 + Len(v)
           g == Rewrite(f, k, v)
           i == b + NameWidth + 2
           w == Bright!WordAt(g, i)
           t == Bright!Printed(k, v)
<1>1. IsText(g) /\ \A j \in 1 .. NameWidth + 2 + Len(v) : g[b + j] = t[j]
  BY RewriteFacts
<1>2. \A j \in 1 .. Len(v) : t[NameWidth + 1 + j] = v[j]
  BY PrintedFacts
<1>3. /\ \A d \in i .. to - 1 : g[d] \in Digit
      /\ g[to] = "/"
      /\ b \in Nat /\ NameWidth \in Nat /\ Len(v) \in Nat /\ Len(g) \in Nat /\ to <= Len(g)
      /\ to = i + Len(v) /\ i = b + NameWidth + 2
  BY RewriteKinds
<1> HIDE DEF b, to, g, i, t
<1>4. g[to] \in Bright!Blanks /\ \A d \in i .. to - 1 : g[d] \notin Bright!Blanks
  BY <1>3, CharFacts
<1>5. i \in 1 .. Len(g) /\ to \in i .. Len(g) /\ to - i = Len(v) /\ g \in Seq(Char)
  BY <1>1, <1>3 DEF IsText
<1>6. w \in Seq(Char) /\ Len(w) = Len(v) /\ \A j \in 1 .. Len(v) : w[j] = g[i + j - 1]
  BY <1>4, <1>5, WordIs
<1>7. ASSUME NEW j \in 1 .. Len(v) PROVE g[i + j - 1] = v[j]
  <2>1. NameWidth + 1 + j \in 1 .. NameWidth + 2 + Len(v) /\ b + (NameWidth + 1 + j) = i + j - 1
    BY <1>3
  <2> QED
    BY <1>1, <1>2, <2>1
<1> HIDE DEF w
<1>8. v \in Seq(Char)
  BY DEF Char
<1>9. w = v
  BY <1>6, <1>7, <1>8, SeqEqual
<1> QED
  BY <1>9 DEF w, g, i, b

\* The rest of the file that Rewrite leaves: a word in it is still there.
LEMMA RewriteWords ==
  ASSUME NEW f, IsText(f), NEW k \in DOMAIN sub_str, k \in Bright!LineNos(f),
         NEW v \in Seq(Digit), NEW i \in NumberStarts(f),
         \/ i <= Bright!Before(f, k)
         \/ Bright!Before(f, k) + NameWidth + 3 + Len(v) < i
  PROVE  Bright!WordAt(Rewrite(f, k, v), i) = Bright!WordAt(f, i)
<1> DEFINE b == Bright!Before(f, k)
           to == b + NameWidth + 2 + Len(v)
           g == Rewrite(f, k, v)
<1>1. /\ IsText(g) /\ b \in 0 .. Len(f) - 1
      /\ Len(g) = IF Len(f) >= to THEN Len(f) ELSE to
      /\ b # 0 => f[b] = "/" /\ g[b] = "/"
      /\ \A j \in 1 .. Len(g) : j <= b \/ to < j => j \in 1 .. Len(f) /\ g[j] = f[j]
  BY RewriteFacts
<1>2. /\ b \in Nat /\ NameWidth \in Nat /\ Len(v) \in Nat /\ Len(f) \in Nat
      /\ Len(g) \in Nat /\ to = b + NameWidth + 2 + Len(v)
  BY RewriteKinds
<1>3. i <= b \/ to + 1 < i
  BY <1>2
<1>4. i \in 1 .. Len(f)
  BY <1>2 DEF NumberStarts
<1> HIDE DEF b, to, g
<1>5. PICK e \in i .. Len(f) : f[e] \in Bright!Blanks /\ \A j \in i .. e - 1 : f[j] \notin Bright!Blanks
  BY <1>4, WordEnds
<1>6. i <= b => e <= b
  <2> SUFFICES ASSUME i <= b, b < e PROVE FALSE
    BY <1>2, <1>4, <1>5
  <2>1. b \in i .. e - 1 /\ b # 0
    BY <1>2, <1>4, <1>5
  <2> QED
    BY <1>1, <1>5, <2>1, CharFacts
<1>7. e <= Len(g)
  BY <1>1, <1>2, <1>5
<1>8. \A j \in i .. e : g[j] = f[j]
  <2> SUFFICES ASSUME NEW j \in i .. e PROVE g[j] = f[j]
    OBVIOUS
  <2>1. j \in 1 .. Len(g) /\ (j <= b \/ to < j)
    BY <1>2, <1>3, <1>4, <1>5, <1>6, <1>7
  <2> QED
    BY <1>1, <2>1
<1>9. f \in Seq(Char) /\ g \in Seq(Char)
  BY <1>1 DEF IsText
<1>10. Bright!WordAt(g, i) = Bright!WordAt(f, i)
  BY <1>4, <1>5, <1>7, <1>8, <1>9, SameWord
<1> QED
  BY <1>10 DEF g

\* No number gets further from the beginning of its line.
LEMMA RewriteInPlace ==
  ASSUME NEW f, IsText(f), NumbersInPlace(f),
         NEW k \in DOMAIN sub_str, k \in Bright!LineNos(f),
         NEW v \in Seq(Digit), Len(v) # 0
  PROVE  NumbersInPlace(Rewrite(f, k, v))
<1> DEFINE b == Bright!Before(f, k)
           to == b + NameWidth + 2 + Len(v)
           g == Rewrite(f, k, v)
<1>1. Bright!Ends(g) = {d \in Bright!Ends(f) : d <= b \/ to < d} \cup {to}
  BY RewriteEnds
<1>2. NumberStarts(g) = {i \in NumberStarts(f) : i <= b \/ to + 1 < i} \cup {b + NameWidth + 2}
  BY RewriteStarts
<1>3. /\ b \in Nat /\ NameWidth \in Nat /\ Len(v) \in Nat \ {0} /\ to = b + NameWidth + 2 + Len(v)
      /\ Len(f) \in Nat
  BY RewriteKinds
<1>4. b \in {0} \cup Bright!Ends(f) /\ Bright!Ends(f) \subseteq 1 .. Len(f)
  BY LineFacts, EndsFinite DEF IsText
<1>5. b \in {0} \cup Bright!Ends(g)
  BY <1>1, <1>3, <1>4
<1> HIDE DEF b, to, g
<1>6. ASSUME NEW i \in NumberStarts(g)
      PROVE  \E c \in {0} \cup Bright!Ends(g) : i \in c + 1 .. c + NameWidth + 2
  <2>1. CASE i = b + NameWidth + 2
    <3>1. i \in b + 1 .. b + NameWidth + 2
      BY <1>3, <2>1
    <3> QED
      BY <1>5, <3>1
  <2>2. CASE i \in NumberStarts(f) /\ (i <= b \/ to + 1 < i)
    <3>1. PICK c \in {0} \cup Bright!Ends(f) : i \in c + 1 .. c + NameWidth + 2
      BY <2>2 DEF NumbersInPlace
    <3>2. c \in Nat /\ i \in Nat
      BY <1>3, <1>4, <3>1
    <3>3. CASE c <= b \/ to < c
      <4>1. c \in {0} \cup Bright!Ends(g)
        BY <1>1, <3>1, <3>3
      <4> QED
        BY <3>1, <4>1
    <3>4. CASE b < c /\ c <= to
      <4>1. i \in to + 1 .. to + NameWidth + 2
        BY <1>3, <2>2, <3>1, <3>2, <3>4
      <4> QED
        BY <1>1, <4>1
    <3> QED
      BY <1>3, <3>2, <3>3, <3>4
  <2> QED
    BY <1>2, <2>1, <2>2
<1>7. NumbersInPlace(g)
  BY <1>6 DEF NumbersInPlace
<1> QED
  BY <1>7 DEF g

\* Every name, or what is left of it, keeps a number in its line.
LEMMA RewriteNames ==
  ASSUME NEW f, IsText(f), NamesHaveNumbers(f),
         NEW k \in DOMAIN sub_str, k \in Bright!LineNos(f),
         NEW v \in Seq(Digit), Len(v) # 0
  PROVE  NamesHaveNumbers(Rewrite(f, k, v))
<1> DEFINE b == Bright!Before(f, k)
           to == b + NameWidth + 2 + Len(v)
           g == Rewrite(f, k, v)
           m == Len(sub_str[k])
           n == b + NameWidth + 2
<1>1. Bright!Ends(g) = {d \in Bright!Ends(f) : d <= b \/ to < d} \cup {to}
  BY RewriteEnds
<1>2. NumberStarts(g) = {i \in NumberStarts(f) : i <= b \/ to + 1 < i} \cup {n}
  BY RewriteStarts
<1>3. /\ b \in Nat /\ NameWidth \in Nat /\ Len(v) \in Nat \ {0} /\ to = b + NameWidth + 2 + Len(v)
      /\ Len(f) \in Nat /\ n = b + NameWidth + 2 /\ m <= NameWidth /\ m \in Nat /\ Len(g) \in Nat
  BY RewriteKinds
<1>4. b \in {0} \cup Bright!Ends(f) /\ Bright!Ends(f) \subseteq 1 .. Len(f)
  BY LineFacts, EndsFinite DEF IsText
<1>5. /\ \A d \in b + m + 1 .. b + NameWidth + 1 : g[d] = "."
      /\ \A d \in b + NameWidth + 2 .. to - 1 : g[d] \in Digit
      /\ g[to] = "/"
  BY RewriteKinds
<1>6. /\ IsText(g)
      /\ \A i \in 1 .. Len(g) : i <= b \/ to < i => i \in 1 .. Len(f) /\ g[i] = f[i]
      /\ b # 0 => f[b] = "/"
  BY RewriteFacts
<1> HIDE DEF b, to, g, m, n
<1>7. ASSUME NEW i \in DOMAIN g, g[i] \in Letter
      PROVE  \E j \in NumberStarts(g) :
               i < j /\ \A d \in Bright!Ends(g) : ~(i < d /\ d < j)
  <2>0. i \in 1 .. Len(g) /\ i \in Nat
    BY <1>6 DEF IsText
  <2>1. CASE i \in b + 1 .. to
    <3>1. i \notin b + m + 1 .. b + NameWidth + 1 /\ i \notin b + NameWidth + 2 .. to - 1 /\ i # to
      BY <1>5, <1>7, CharFacts
    <3>2. i <= b + m
      BY <1>3, <2>0, <2>1, <3>1
    <3>3. i < n
      BY <1>3, <3>2, <2>0
    <3>4. \A d \in Bright!Ends(g) : ~(i < d /\ d < n)
      BY <1>1, <1>3, <1>4, <2>1
    <3> QED
      BY <1>2, <3>3, <3>4
  <2>2. CASE i <= b \/ to < i
    <3>1. i \in DOMAIN f /\ f[i] \in Letter
      BY <1>6, <1>7, <2>0, <2>2 DEF IsText
    <3>2. PICK j \in NumberStarts(f) :
            i < j /\ \A d \in Bright!Ends(f) : ~(i < d /\ d < j)
      BY <3>1 DEF NamesHaveNumbers
    <3>3. j \in Nat
      BY <1>3 DEF NumberStarts
    <3>4. CASE i <= b
      <4>1. b \in Bright!Ends(f) /\ i # b
        BY <1>3, <1>4, <1>6, <2>0, <3>1, <3>4, CharFacts
      <4>2. j <= b
        BY <1>3, <2>0, <3>2, <3>3, <3>4, <4>1
      <4>3. j \in NumberStarts(g)
        BY <1>2, <4>2
      <4>4. \A d \in Bright!Ends(g) : ~(i < d /\ d < j)
        BY <1>1, <1>3, <1>4, <3>2, <3>3, <4>2
      <4> QED
        BY <3>2, <4>3, <4>4
    <3>5. CASE to < i
      <4>1. j \in NumberStarts(g)
        BY <1>2, <1>3, <2>0, <3>2, <3>3, <3>5
      <4>2. \A d \in Bright!Ends(g) : ~(i < d /\ d < j)
        BY <1>1, <1>3, <1>4, <3>2, <3>3, <3>5
      <4> QED
        BY <3>2, <4>1, <4>2
    <3> QED
      BY <2>2, <3>4, <3>5
  <2> QED
    BY <1>3, <2>0, <2>1, <2>2
<1>8. NamesHaveNumbers(g)
  BY <1>7 DEF NamesHaveNumbers
<1> QED
  BY <1>8 DEF g

\* A rewritten file is as legible as it was.
LEMMA RewriteLegible ==
  ASSUME NEW f, Legible(f), NEW k \in DOMAIN sub_str, k \in Bright!LineNos(f),
         NEW v \in Numbers
  PROVE  Legible(Rewrite(f, k, v))
<1> DEFINE b == Bright!Before(f, k)
           to == b + NameWidth + 2 + Len(v)
           g == Rewrite(f, k, v)
<1>1. v \in Seq(Digit) /\ Len(v) # 0 /\ v \in Command
  BY FormatAssumption, CommandAssumption
<1>2. IsText(f) /\ IsText(g)
  BY <1>1, RewriteFacts DEF Legible
<1>3. NumbersInPlace(g)
  BY <1>1, RewriteInPlace DEF Legible
<1>4. NamesHaveNumbers(g)
  BY <1>1, RewriteNames DEF Legible
<1>5. ASSUME NEW i \in NumberStarts(g) PROVE Bright!WordAt(g, i) \in Command
  <2>1. \/ i = b + NameWidth + 2
        \/ i \in NumberStarts(f) /\ (i <= b \/ to + 1 < i)
    BY <1>1, <1>2, RewriteStarts
  <2>2. CASE i = b + NameWidth + 2
    BY <1>1, <1>2, <2>2, RewriteNumber
  <2>3. CASE i \in NumberStarts(f) /\ (i <= b \/ to + 1 < i)
    <3>1. b \in Nat /\ NameWidth \in Nat /\ Len(v) \in Nat
      BY <1>1, <1>2, RewriteKinds
    <3>2. i <= b \/ b + NameWidth + 3 + Len(v) < i
      <4>1. to + 1 = b + NameWidth + 3 + Len(v)
        BY <3>1
      <4> QED
        BY <2>3, <4>1
    <3>3. Bright!WordAt(g, i) = Bright!WordAt(f, i)
      BY <1>1, <1>2, <2>3, <3>2, RewriteWords
    <3>4. Bright!WordAt(f, i) \in Command
      BY <2>3 DEF Legible
    <3> QED
      BY <3>3, <3>4
  <2> QED
    BY <2>1, <2>2, <2>3
<1> QED
  BY <1>2, <1>3, <1>4, <1>5 DEF Legible

-----------------------------------------------------------------------------
(* What the light finds.                                                   *)

\* The words of a line lie between its ends; every one but a first at the
\* beginning of the line is a number.
LEMMA WordsFacts ==
  ASSUME NEW f, IsText(f), NEW k \in Bright!LineNos(f)
  PROVE  /\ Bright!Words(f, k) \subseteq 1 .. Len(f)
         /\ \A i \in Bright!Words(f, k) :
              /\ Bright!Before(f, k) < i /\ i < Bright!LineEnd(f, k)
              /\ f[i] \notin Bright!Blanks
              /\ i # Bright!Before(f, k) + 1 => i \in NumberStarts(f)
         /\ \A i \in NumberStarts(f) :
              Bright!Before(f, k) < i /\ i < Bright!LineEnd(f, k) => i \in Bright!Words(f, k)
<1> DEFINE b == Bright!Before(f, k)
           e == Bright!LineEnd(f, k)
           W == Bright!Words(f, k)
<1>1. /\ e \in 1 .. Len(f) /\ f[e] = "/" /\ b \in 0 .. Len(f) - 1 /\ Len(f) \in Nat
      /\ \A d \in Bright!Ends(f) : ~(b < d /\ d < e)
  BY LineFacts DEF IsText, Bright!Ends
<1>2. W = {i \in b + 1 .. e : f[i] \notin Bright!Blanks /\ (i = 1 \/ f[i - 1] \in Bright!Blanks)}
  BY DEF Bright!Words
<1>3. Bright!Ends(f) = {i \in 1 .. Len(f) : f[i] = "/"}
  BY DEF Bright!Ends, IsText
<1> HIDE DEF b, e, W
<1>4. ASSUME NEW i \in W
      PROVE  /\ i \in 1 .. Len(f) /\ b < i /\ i < e /\ f[i] \notin Bright!Blanks
             /\ i # b + 1 => i \in NumberStarts(f)
  <2>1. i \in b + 1 .. e /\ f[i] \notin Bright!Blanks /\ (i = 1 \/ f[i - 1] \in Bright!Blanks)
    BY <1>2
  <2>2. i # e
    BY <1>1, <2>1, CharFacts
  <2>3. i \in 1 .. Len(f) /\ b < i /\ i < e
    BY <1>1, <2>1, <2>2
  <2>4. ASSUME i # b + 1 PROVE i \in NumberStarts(f)
    <3>1. i - 1 \in 1 .. Len(f) /\ b < i - 1 /\ i - 1 < e /\ i \in 2 .. Len(f)
      BY <1>1, <2>3, <2>4
    <3>2. f[i - 1] # "/"
      BY <1>1, <1>3, <3>1
    <3>3. f[i - 1] = "."
      BY <2>1, <3>1, <3>2, CharFacts
    <3> QED
      BY <2>1, <3>1, <3>3 DEF NumberStarts
  <2> QED
    BY <2>1, <2>3, <2>4
<1>5. ASSUME NEW i \in NumberStarts(f), b < i, i < e PROVE i \in W
  <2>1. i \in 2 .. Len(f) /\ f[i - 1] \in Bright!Blanks /\ f[i] \notin Bright!Blanks
    BY CharFacts DEF NumberStarts
  <2>2. i \in b + 1 .. e
    BY <1>1, <1>5, <2>1
  <2> QED
    BY <1>2, <2>1, <2>2
<1> QED
  BY <1>4, <1>5 DEF b, e, W

\* Every line that sscanf or the light looks at is numbered by a natural.
LEMMA LineNosFacts ==
  ASSUME NEW f, IsText(f)
  PROVE  \A k \in Bright!LineNos(f) : k \in Nat \ {0} /\ k \in 1 .. k
<1>1. Cardinality(Bright!Ends(f)) \in Nat
  BY EndsFinite DEF IsText
<1> QED
  BY <1>1, LineNosAre

\* The first word of a line with words, and the second of one with two.
LEMMA FirstFacts ==
  ASSUME NEW f, IsText(f), NEW k \in Bright!LineNos(f), Bright!Words(f, k) # {}
  PROVE  /\ Bright!First(f, k) \in Bright!Words(f, k) /\ Bright!First(f, k) \in Nat
         /\ \A i \in Bright!Words(f, k) : Bright!First(f, k) <= i
<1>1. Bright!Words(f, k) \in SUBSET Nat
  BY WordsFacts DEF IsText
<1> QED
  BY <1>1, MinOf DEF Bright!First

LEMMA SecondFacts ==
  ASSUME NEW f, IsText(f), NEW k \in Bright!LineNos(f),
         NEW j \in Bright!Words(f, k), j # Bright!First(f, k)
  PROVE  /\ Bright!Second(f, k) \in Bright!Words(f, k) /\ Bright!Second(f, k) \in NumberStarts(f)
         /\ Bright!First(f, k) < Bright!Second(f, k) /\ Bright!Second(f, k) <= j
<1> DEFINE W == Bright!Words(f, k)
           i == Bright!First(f, k)
           s == Bright!Second(f, k)
           b == Bright!Before(f, k)
<1>1. i \in W /\ i \in Nat /\ \A x \in W : i <= x
  BY FirstFacts
<1>2. /\ W \subseteq 1 .. Len(f) /\ Len(f) \in Nat
      /\ \A x \in W : b < x /\ (x # b + 1 => x \in NumberStarts(f))
  BY WordsFacts DEF IsText
<1>3. s = Bright!Min(W \ {i})
  BY DEF Bright!Second
<1>4. j \in W /\ j # i /\ b \in Nat
  BY LineFacts DEF IsText
<1> HIDE DEF W, i, s, b
<1>5. W \ {i} \in SUBSET Nat /\ W \ {i} # {}
  <2>1. W \subseteq 1 .. Len(f) /\ Len(f) \in Nat
    BY <1>2
  <2>2. W \subseteq Nat
    BY <2>1
  <2> QED
    BY <1>4, <2>2
<1>6. s \in W \ {i} /\ s <= j
  BY <1>3, <1>4, <1>5, MinOf
<1>7. s \in Nat /\ i <= s /\ s # i /\ b < i
  BY <1>1, <1>2, <1>6
<1>8. i < s /\ s # b + 1
  BY <1>1, <1>4, <1>7
<1>9. s \in NumberStarts(f)
  BY <1>2, <1>6, <1>8
<1> QED
  BY <1>6, <1>8, <1>9 DEF W, i, s

\* The light finds a number that was delivered or entered, or nothing.
LEMMA LightLegible ==
  ASSUME NEW f, Legible(f), NEW k \in DOMAIN sub_str
  PROVE  Bright!LightBright(f, sub_str[k]) \in Command \cup {Bright!Missing}
<1> DEFINE lit == {j \in Bright!LineNos(f) :
                     /\ \A x \in 1 .. j : Bright!Words(f, x) # {}
                     /\ Bright!WordAt(f, Bright!First(f, j)) = sub_str[k]}
           line0 == Bright!Min(lit)
           W == Bright!Words(f, line0)
           i == Bright!First(f, line0)
           s == Bright!Second(f, line0)
<1>1. Bright!LightBright(f, sub_str[k]) =
        IF lit = {} THEN Bright!Missing ELSE Bright!WordAt(f, s)
  BY DEF Bright!LightBright
<1>2. ASSUME lit # {} PROVE Bright!WordAt(f, s) \in Command
  <2>1. IsText(f) /\ f \in Seq(Char) /\ Len(f) \in Nat /\ NamesHaveNumbers(f)
    BY DEF Legible, IsText
  <2>2. line0 \in lit
    <3>1. lit \in SUBSET Nat
      BY <2>1, LineNosFacts
    <3> HIDE DEF lit
    <3> QED
      BY <1>2, <3>1, MinOf
  <2>3. line0 \in Bright!LineNos(f) /\ line0 \in 1 .. line0
    BY <2>1, <2>2, LineNosFacts
  <2>4. W # {} /\ Bright!WordAt(f, i) = sub_str[k]
    BY <2>2, <2>3
  <2> HIDE DEF lit, line0
  <2>5. i \in W /\ i \in Nat
    BY <2>1, <2>3, <2>4, FirstFacts
  <2>6. /\ i \in 1 .. Len(f) /\ f[i] \notin Bright!Blanks
        /\ Bright!Before(f, line0) < i /\ i < Bright!LineEnd(f, line0)
        /\ \A x \in NumberStarts(f) :
             Bright!Before(f, line0) < x /\ x < Bright!LineEnd(f, line0) => x \in W
    BY <2>1, <2>3, <2>5, WordsFacts
  <2>7. /\ Bright!LineEnd(f, line0) \in Bright!Ends(f)
        /\ Bright!LineEnd(f, line0) \in 1 .. Len(f) /\ Bright!Before(f, line0) \in 0 .. Len(f) - 1
    BY <2>1, <2>3, LineFacts
  <2> HIDE DEF W, i
  <2>8. f[i] \in Letter
    <3>1. PICK e \in i .. Len(f) :
            f[e] \in Bright!Blanks /\ \A j \in i .. e - 1 : f[j] \notin Bright!Blanks
      BY <2>1, <2>6, WordEnds
    <3>2. \A j \in 1 .. e - i : Bright!WordAt(f, i)[j] = f[i + j - 1]
      BY <2>1, <2>6, <3>1, WordIs
    <3>3. e # i
      BY <2>6, <3>1
    <3>4. 1 \in 1 .. e - i /\ i + 1 - 1 = i
      BY <2>1, <2>6, <3>1, <3>3
    <3>5. f[i] = sub_str[k][1]
      BY <2>4, <3>2, <3>4
    <3> QED
      BY <3>5, NameFacts
  <2>9. PICK j \in NumberStarts(f) :
          i < j /\ \A d \in Bright!Ends(f) : ~(i < d /\ d < j)
    <3>1. i \in DOMAIN f
      BY <2>1, <2>6
    <3> QED
      BY <2>1, <2>8, <3>1 DEF NamesHaveNumbers
  <2>10. j \in W /\ j # i
    <3>1. j # Bright!LineEnd(f, line0)
      BY <2>7, CharFacts DEF NumberStarts, Bright!Ends
    <3>2. j \in Nat
      BY <2>1 DEF NumberStarts
    <3>3. Bright!Before(f, line0) < j /\ j < Bright!LineEnd(f, line0) /\ j # i
      BY <2>1, <2>5, <2>6, <2>7, <2>9, <3>1, <3>2
    <3> QED
      BY <2>6, <3>3
  <2>11. s \in NumberStarts(f)
    BY <2>1, <2>3, <2>10, SecondFacts DEF W, i
  <2> QED
    BY <2>11 DEF Legible
<1> QED
  BY <1>1, <1>2

\* No line is added that scans: either the line that is rewritten ends within
\* what is printed, or what is left of it holds no number.
LEMMA RewriteCount ==
  ASSUME NEW f, IsText(f), NumbersInPlace(f),
         NEW k \in DOMAIN sub_str, k \in Bright!LineNos(f),
         NEW v \in Seq(Digit), Len(v) # 0, Bright!AllScan(Rewrite(f, k, v))
  PROVE  Cardinality(Bright!Ends(Rewrite(f, k, v))) <= Cardinality(Bright!Ends(f))
<1> DEFINE b == Bright!Before(f, k)
           e == Bright!LineEnd(f, k)
           to == b + NameWidth + 2 + Len(v)
           g == Rewrite(f, k, v)
           E == Bright!Ends(f)
<1>1. Bright!Ends(g) = {d \in E : d <= b \/ to < d} \cup {to}
  BY RewriteEnds
<1>2. NumberStarts(g) = {i \in NumberStarts(f) : i <= b \/ to + 1 < i} \cup {b + NameWidth + 2}
  BY RewriteStarts
<1>3. /\ b \in Nat /\ NameWidth \in Nat /\ Len(v) \in Nat \ {0} /\ to = b + NameWidth + 2 + Len(v)
      /\ Len(f) \in Nat /\ Len(g) \in Nat
  BY RewriteKinds
<1>4. /\ e \in E /\ b < e /\ e \in Nat /\ E \subseteq 1 .. Len(f)
      /\ \A d \in E : ~(b < d /\ d < e)
  BY LineFacts, EndsFinite DEF IsText
<1>5. IsText(g) /\ f \in Seq(Char) /\ g \in Seq(Char)
  BY RewriteFacts DEF IsText
<1>6. IsFiniteSet(E) /\ Cardinality(E) \in Nat
  BY <1>5, EndsFinite
<1> HIDE DEF b, e, to, g, E
<1>7. CASE e <= to
  <2>1. Bright!Ends(g) \in SUBSET ((E \ {e}) \cup {to})
    BY <1>1, <1>3, <1>4, <1>7
  <2>2. /\ IsFiniteSet(E \ {e}) /\ Cardinality(E \ {e}) = Cardinality(E) - 1
    BY <1>4, <1>6, FS_RemoveElement
  <2>3. /\ IsFiniteSet((E \ {e}) \cup {to})
        /\ \/ Cardinality((E \ {e}) \cup {to}) = Cardinality(E \ {e})
           \/ Cardinality((E \ {e}) \cup {to}) = Cardinality(E \ {e}) + 1
    BY <2>2, FS_AddElement
  <2>4. Cardinality(Bright!Ends(g)) <= Cardinality((E \ {e}) \cup {to})
    BY <2>1, <2>3, FS_Subset
  <2>5. Cardinality(Bright!Ends(g)) \in Nat
    BY <1>5, EndsFinite
  <2> QED
    BY <1>6, <2>2, <2>3, <2>4, <2>5 DEF g, E
<1>8. CASE to < e
  <2> DEFINE n == Rank(g, e)
             s == Bright!Second(g, n)
             i == Bright!First(g, n)
             W == Bright!Words(g, n)
  <2>1. e \in Bright!Ends(g) /\ to \in Bright!Ends(g)
    BY <1>1, <1>4, <1>8
  <2>2. n \in Bright!LineNos(g) /\ Bright!LineEnd(g, n) = e
    BY <1>5, <2>1, RankGrows, LineEndIs
  <2>3. to <= Bright!Before(g, n)
    <3>1. /\ Bright!Before(g, n) \in 0 .. Len(g) - 1
          /\ \A d \in Bright!Ends(g) : ~(Bright!Before(g, n) < d /\ d < Bright!LineEnd(g, n))
      BY <1>5, <2>2, LineFacts
    <3> QED
      BY <1>3, <1>8, <2>1, <2>2, <3>1
  <2>4. Bright!Scans(g, n)
    BY <2>2 DEF Bright!AllScan, g
  <2>5. Cardinality(W) >= 2
    BY <2>4, SameCardinality DEF Bright!Scans
  <2> HIDE DEF n, s, i, W
  <2>6. W # {} /\ W # {i}
    <3>1. Cardinality({}) = 0 /\ Cardinality({i}) = 1
      BY FS_EmptySet, FS_Singleton
    <3>2. ASSUME W = {} PROVE FALSE
      <4>1. Cardinality(W) = 0
        BY <3>1, <3>2, Zenon
      <4> QED
        BY <2>5, <4>1
    <3>3. ASSUME W = {i} PROVE FALSE
      <4>1. Cardinality(W) = 1
        BY <3>1, <3>3, Zenon
      <4> QED
        BY <2>5, <4>1
    <3> QED
      BY <3>2, <3>3
  <2>7. PICK j \in W : j # i
    BY <2>6
  <2>8. s \in W /\ s \in NumberStarts(g) /\ i < s
    BY <1>5, <2>2, <2>7, SecondFacts DEF W, s, i
  <2>9. i \in W /\ i \in Nat
    BY <1>5, <2>2, <2>6, FirstFacts DEF W, i
  <2>10. Bright!Before(g, n) < i /\ s < e
    BY <1>5, <2>2, <2>8, <2>9, WordsFacts DEF W
  <2>11. Bright!Before(g, n) \in Nat /\ s \in Nat
    BY <1>3, <1>5, <2>2, <2>8, LineFacts DEF NumberStarts
  <2>12. to + 1 < s
    BY <1>3, <2>3, <2>8, <2>9, <2>10, <2>11
  <2>13. s \in NumberStarts(f)
    BY <1>2, <1>3, <2>8, <2>12
  <2>14. PICK c \in {0} \cup E : s \in c + 1 .. c + NameWidth + 2
    BY <2>13 DEF NumbersInPlace, E
  <2>15. c \in Nat /\ c < s /\ s <= c + NameWidth + 2
    BY <1>3, <1>4, <2>11, <2>14
  <2>16. c <= b
    BY <1>3, <1>4, <2>10, <2>11, <2>14, <2>15
  <2>17. FALSE
    BY <1>3, <2>11, <2>12, <2>15, <2>16
  <2> QED
    BY <2>17
<1> QED
  BY <1>3, <1>4, <1>7, <1>8

-----------------------------------------------------------------------------
(* The lines up to the first damaged one.                                  *)

\* Where lines of the same width begin and end.
LEMMA Multiples ==
  ASSUME NEW w \in Nat, NEW j \in Nat \ {0}
  PROVE  /\ (j - 1) * w \in Nat /\ j * w \in Nat /\ j * w = (j - 1) * w + w
         /\ \A i \in Nat : i < j => i * w <= (j - 1) * w
<1>1. (j - 1) * w \in Nat /\ j * w \in Nat
  OBVIOUS
<1>2. j * w = (j - 1) * w + w
  OBVIOUS
<1>3. ASSUME NEW i \in Nat, i < j PROVE i * w <= (j - 1) * w
  <2> DEFINE d == (j - 1) - i
  <2>1. d \in Nat /\ j - 1 = i + d
    BY <1>3
  <2> HIDE DEF d
  <2>2. d * w \in Nat /\ i * w \in Nat
    BY <2>1
  <2>3. (i + d) * w = i * w + d * w
    BY <2>1
  <2>4. (j - 1) * w = i * w + d * w
    BY <2>1, <2>3
  <2> QED
    BY <2>2, <2>4
<1> QED
  BY <1>1, <1>2, <1>3

LEMMA LineWidthFacts ==
  /\ Bright!LineWidth = NameWidth + Width + 2 /\ Bright!LineWidth \in Nat \ {0}
  /\ NameWidth \in Nat /\ Width \in Nat \ {0}
  BY FormatAssumption DEF Bright!LineWidth

\* The first m lines are as fprintf prints them, with the numbers en.
Prefix(f, m, en) ==
  \A j \in 1 .. m : /\ j \in DOMAIN sub_str
                    /\ en[j] \in Seq(Digit) /\ Len(en[j]) = Width
                    /\ Bright!Shows(f, j, en[j])

\* Line k of f, behind its first a characters and up to e, is printed with v.
LineIs(f, k, v, a, e) ==
  LET n == Len(sub_str[k]) IN
  /\ \A d \in a + 1 .. a + n : f[d] \in Letter /\ f[d] = sub_str[k][d - a]
  /\ \A d \in a + n + 1 .. a + NameWidth + 1 : f[d] = "."
  /\ \A d \in a + NameWidth + 2 .. e - 1 :
       f[d] \in Digit /\ f[d] = v[d - a - NameWidth - 1]
  /\ f[e] = "/"
  /\ k \in Nat \ {0} /\ a \in Nat /\ n \in Nat \ {0} /\ n <= NameWidth
  /\ NameWidth \in Nat /\ Width \in Nat \ {0} /\ Len(f) \in Nat
  /\ e = a + NameWidth + Width + 2 /\ e <= Len(f)

\* A line that shows a number is such a line, at its multiple of the width.
LEMMA ShownLine ==
  ASSUME NEW f \in Seq(Char), NEW k \in DOMAIN sub_str, NEW v \in Seq(Digit),
         Len(v) = Width, Bright!Shows(f, k, v)
  PROVE  LineIs(f, k, v, (k - 1) * Bright!LineWidth, k * Bright!LineWidth)
<1> DEFINE a == (k - 1) * Bright!LineWidth
           m == Len(sub_str[k])
           e == k * Bright!LineWidth
           t == Bright!Printed(k, v)
           L == Bright!LineWidth
<1>1. /\ L = NameWidth + Width + 2 /\ L \in Nat \ {0}
      /\ NameWidth \in Nat /\ Width \in Nat \ {0}
  BY LineWidthFacts
<1>2. k \in Nat \ {0} /\ Len(f) \in Nat
  BY FormatAssumption
<1>3. a \in Nat /\ e = a + L
  BY <1>1, <1>2, Multiples
<1>4. e <= Len(f) /\ \A i \in 1 .. L : f[a + i] = t[i]
  BY DEF Bright!Shows
<1>5. m \in 1 .. NameWidth /\ \A i \in 1 .. m : sub_str[k][i] \in Letter
  BY NameFacts
<1>6. \A i \in 1 .. Width : v[i] \in Digit
  OBVIOUS
<1>7. /\ \A i \in 1 .. m : t[i] = sub_str[k][i]
      /\ \A i \in m + 1 .. NameWidth + 1 : t[i] = "."
      /\ \A i \in 1 .. Width : t[NameWidth + 1 + i] = v[i]
      /\ t[NameWidth + 2 + Width] = "/"
  BY PrintedFacts
<1> HIDE DEF a, m, e, t, L
<1>8. ASSUME NEW d \in a + 1 .. a + m PROVE f[d] \in Letter /\ f[d] = sub_str[k][d - a]
  <2>1. d - a \in 1 .. m /\ d - a \in 1 .. L /\ a + (d - a) = d
    BY <1>1, <1>3, <1>5
  <2> QED
    BY <1>4, <1>5, <1>7, <2>1
<1>9. ASSUME NEW d \in a + m + 1 .. a + NameWidth + 1 PROVE f[d] = "."
  <2>1. d - a \in m + 1 .. NameWidth + 1 /\ d - a \in 1 .. L /\ a + (d - a) = d
    BY <1>1, <1>3, <1>5
  <2> QED
    BY <1>4, <1>7, <2>1
<1>10. ASSUME NEW d \in a + NameWidth + 2 .. e - 1
       PROVE  f[d] \in Digit /\ f[d] = v[d - a - NameWidth - 1]
  <2>1. /\ d - a - NameWidth - 1 \in 1 .. Width /\ d - a \in 1 .. L /\ a + (d - a) = d
        /\ NameWidth + 1 + (d - a - NameWidth - 1) = d - a
    BY <1>1, <1>3
  <2>2. f[d] = t[d - a] /\ t[d - a] = v[d - a - NameWidth - 1]
    BY <1>4, <1>7, <2>1
  <2> QED
    BY <1>6, <2>1, <2>2
<1>11. f[e] = "/"
  <2>1. L \in 1 .. L /\ a + L = e /\ L = NameWidth + 2 + Width
    BY <1>1, <1>3
  <2> QED
    BY <1>4, <1>7, <2>1
<1>12. /\ m \in Nat \ {0} /\ m <= NameWidth /\ e = a + NameWidth + Width + 2
  BY <1>1, <1>3, <1>5
<1> QED
  BY <1>1, <1>2, <1>3, <1>4, <1>8, <1>9, <1>10, <1>11, <1>12 DEF a, m, e, LineIs

\* There are as many ends of lines in the first x printed lines.
LEMMA PrefixRank ==
  ASSUME NEW f \in Seq(Char), NEW m \in Nat, NEW en, Prefix(f, m, en)
  PROVE  \A x \in 0 .. m :
           Cardinality({d \in Bright!Ends(f) : d <= x * Bright!LineWidth}) = x
<1> DEFINE L == Bright!LineWidth
           to(x) == {d \in Bright!Ends(f) : d <= x * L}
           P == {x \in 0 .. m : Cardinality(to(x)) = x}
<1>1. Bright!Ends(f) \subseteq 1 .. Len(f) /\ IsFiniteSet(Bright!Ends(f)) /\ Len(f) \in Nat
  BY EndsFinite
<1>2. L \in Nat
  BY LineWidthFacts
<1>3. 0 \in P
  <2>1. 0 * L = 0
    BY <1>2
  <2>2. to(0) = {}
    BY <1>1, <2>1
  <2> HIDE DEF to
  <2> QED
    BY <2>2, FS_EmptySet
<1>4. ASSUME NEW x \in 1 .. m, x - 1 \in P PROVE x \in P
  <2> DEFINE a == (x - 1) * L
             e == x * L
  <2>1. /\ x \in DOMAIN sub_str /\ en[x] \in Seq(Digit) /\ Len(en[x]) = Width
        /\ Bright!Shows(f, x, en[x])
    BY DEF Prefix
  <2>2. /\ \A d \in a + 1 .. a + Len(sub_str[x]) : f[d] \in Letter
        /\ \A d \in a + Len(sub_str[x]) + 1 .. a + NameWidth + 1 : f[d] = "."
        /\ \A d \in a + NameWidth + 2 .. e - 1 : f[d] \in Digit
        /\ f[e] = "/"
        /\ a \in Nat /\ Len(sub_str[x]) \in Nat /\ Len(sub_str[x]) <= NameWidth
        /\ NameWidth \in Nat /\ Width \in Nat
        /\ e = a + NameWidth + Width + 2 /\ e <= Len(f)
    <3>1. LineIs(f, x, en[x], a, e)
      BY <2>1, ShownLine
    <3> HIDE DEF a, e
    <3> QED
      BY <3>1 DEF LineIs
  <2>3. /\ to(x - 1) = {d \in Bright!Ends(f) : d <= a}
        /\ to(x) = {d \in Bright!Ends(f) : d <= e}
    OBVIOUS
  <2>4. to(x - 1) \in SUBSET Bright!Ends(f)
    OBVIOUS
  <2>5. Cardinality(to(x - 1)) = x - 1
    BY <1>4
  <2> HIDE DEF a, e, to
  <2>6. ASSUME NEW d \in a + 1 .. e - 1 PROVE d \notin Bright!Ends(f)
    <3>1. \/ d \in a + 1 .. a + Len(sub_str[x])
          \/ d \in a + Len(sub_str[x]) + 1 .. a + NameWidth + 1
          \/ d \in a + NameWidth + 2 .. e - 1
      BY <2>2
    <3>2. f[d] \in Letter \/ f[d] = "." \/ f[d] \in Digit
      BY <2>2, <3>1
    <3> QED
      BY <3>2, CharFacts DEF Bright!Ends
  <2>7. e \in Bright!Ends(f) /\ a < e
    <3>1. e \in 1 .. Len(f) /\ a < e
      BY <1>1, <2>2
    <3> QED
      BY <2>2, <3>1 DEF Bright!Ends
  <2>8. to(x) = to(x - 1) \cup {e} /\ e \notin to(x - 1)
    <3>1. ASSUME NEW d \in Bright!Ends(f), d <= e PROVE d <= a \/ d = e
      <4>1. d \in Nat /\ a \in Nat /\ e \in Nat /\ d \notin a + 1 .. e - 1
        BY <1>1, <2>2, <2>6
      <4> QED
        BY <3>1, <4>1
    <3>2. ASSUME NEW d \in Bright!Ends(f), d <= a PROVE d <= e
      BY <1>1, <2>2, <2>7, <3>2
    <3>3. e <= e /\ ~(e <= a)
      BY <2>2, <2>7
    <3> QED
      BY <2>3, <2>7, <3>1, <3>2, <3>3
  <2>9. IsFiniteSet(to(x - 1))
    BY <1>1, <2>4, FS_Subset
  <2>10. Cardinality(to(x)) = Cardinality(to(x - 1)) + 1
    BY <2>8, <2>9, FS_AddElement
  <2> QED
    BY <2>5, <2>10
<1>5. 0 .. m \subseteq P
  <2> HIDE DEF P
  <2> QED
    BY <1>3, <1>4, UpTo
<1> QED
  BY <1>5

\* They are the lines with these numbers.
LEMMA PrefixLine ==
  ASSUME NEW f \in Seq(Char), NEW m \in Nat, NEW en, Prefix(f, m, en),
         NEW k \in 1 .. m
  PROVE  /\ k \in Bright!LineNos(f)
         /\ Bright!LineEnd(f, k) = k * Bright!LineWidth
         /\ Bright!Before(f, k) = (k - 1) * Bright!LineWidth
<1>1. ASSUME NEW x \in 1 .. m
      PROVE  x \in Bright!LineNos(f) /\ Bright!LineEnd(f, x) = x * Bright!LineWidth
  <2> DEFINE a == (x - 1) * Bright!LineWidth
             e == x * Bright!LineWidth
  <2>1. /\ x \in DOMAIN sub_str /\ en[x] \in Seq(Digit) /\ Len(en[x]) = Width
        /\ Bright!Shows(f, x, en[x])
    BY DEF Prefix
  <2>2. /\ f[e] = "/" /\ e <= Len(f) /\ Len(f) \in Nat
        /\ e = a + NameWidth + Width + 2
        /\ a \in Nat /\ NameWidth \in Nat /\ Width \in Nat
    <3>1. LineIs(f, x, en[x], a, e)
      BY <2>1, ShownLine
    <3> HIDE DEF a, e
    <3> QED
      BY <3>1 DEF LineIs
  <2>3. e \in 1 .. Len(f)
    <3> HIDE DEF a, e
    <3> QED
      BY <2>2
  <2>4. e \in Bright!Ends(f)
    BY <2>2, <2>3 DEF Bright!Ends
  <2>5. Rank(f, e) = x
    BY PrefixRank DEF Rank
  <2> QED
    BY <2>4, <2>5, RankGrows, LineEndIs
<1>2. Bright!Before(f, k) = (k - 1) * Bright!LineWidth
  <2>1. CASE k = 1
    <3>1. (k - 1) * Bright!LineWidth = 0
      BY <2>1, LineWidthFacts
    <3> QED
      BY <2>1, <3>1 DEF Bright!Before
  <2>2. CASE k # 1
    <3>1. k - 1 \in 1 .. m
      BY <2>2
    <3> QED
      BY <1>1, <2>2, <3>1 DEF Bright!Before
  <2> QED
    BY <2>1, <2>2
<1> QED
  BY <1>1, <1>2

\* Such a line has two words: its name and its number.
LEMMA ShownWords ==
  ASSUME NEW f, IsText(f), NEW m \in Nat, NEW en, Prefix(f, m, en),
         NEW k \in 1 .. m
  PROVE  /\ Bright!Words(f, k) # {}
         /\ Bright!WordAt(f, Bright!First(f, k)) = sub_str[k]
         /\ Bright!WordAt(f, Bright!Second(f, k)) = en[k]
<1> DEFINE a == (k - 1) * Bright!LineWidth
           n == Len(sub_str[k])
           e == k * Bright!LineWidth
           i == a + 1
           s == a + NameWidth + 2
           W == Bright!Words(f, k)
<1>1. f \in Seq(Char)
  BY DEF IsText
<1>2. /\ k \in DOMAIN sub_str /\ en[k] \in Seq(Digit) /\ Len(en[k]) = Width
      /\ Bright!Shows(f, k, en[k])
  BY DEF Prefix
<1>3. /\ \A d \in a + 1 .. a + n : f[d] \in Letter /\ f[d] = sub_str[k][d - a]
      /\ \A d \in a + n + 1 .. a + NameWidth + 1 : f[d] = "."
      /\ \A d \in a + NameWidth + 2 .. e - 1 :
           f[d] \in Digit /\ f[d] = en[k][d - a - NameWidth - 1]
      /\ f[e] = "/"
      /\ a \in Nat /\ n \in Nat \ {0} /\ n <= NameWidth
      /\ NameWidth \in Nat /\ Width \in Nat \ {0} /\ Len(f) \in Nat
      /\ e = a + NameWidth + Width + 2 /\ e <= Len(f)
  <2>1. LineIs(f, k, en[k], a, e)
    BY <1>1, <1>2, ShownLine
  <2> HIDE DEF a, e
  <2> QED
    BY <2>1 DEF LineIs
<1>4. /\ k \in Bright!LineNos(f)
      /\ Bright!LineEnd(f, k) = e /\ Bright!Before(f, k) = a
  BY <1>1, PrefixLine
<1>5. i = a + 1 /\ s = a + NameWidth + 2
  OBVIOUS
<1>6. /\ n = Len(sub_str[k]) /\ sub_str[k] \in Seq(Char)
  BY <1>2, NameFacts
<1>7. en[k] \in Seq(Char)
  BY <1>2 DEF Char
<1> HIDE DEF a, n, e, i, s
<1>8. /\ W \subseteq 1 .. Len(f)
      /\ \A x \in W : /\ a < x /\ x < e
                      /\ x # i => x \in NumberStarts(f)
      /\ \A x \in NumberStarts(f) : a < x /\ x < e => x \in W
  BY <1>4, <1>5, WordsFacts
<1>9. i \in W
  <2>1. i \in a + 1 .. e /\ i \in a + 1 .. a + n
    BY <1>3, <1>5
  <2>2. f[i] \notin Bright!Blanks
    BY <1>3, <2>1, CharFacts
  <2>3. i = 1 \/ f[i - 1] \in Bright!Blanks
    <3>1. a \in {0} \cup Bright!Ends(f)
      BY <1>1, <1>4, LineFacts
    <3>2. CASE a = 0
      BY <1>5, <3>2
    <3>3. CASE a \in Bright!Ends(f)
      <4>1. i - 1 = a
        BY <1>3, <1>5
      <4> QED
        BY <3>3, <4>1, CharFacts DEF Bright!Ends
    <3> QED
      BY <3>1, <3>2, <3>3
  <2> QED
    BY <1>4, <2>1, <2>2, <2>3 DEF Bright!Words
<1>10. s \in W /\ s # i
  <2>1. /\ s \in 2 .. Len(f) /\ s \in a + NameWidth + 2 .. e - 1 /\ a < s /\ s < e /\ s # i
        /\ s - 1 \in a + n + 1 .. a + NameWidth + 1
    BY <1>3, <1>5
  <2>2. f[s - 1] = "." /\ f[s] \notin Bright!Blanks
    BY <1>3, <2>1, CharFacts
  <2>3. s \in NumberStarts(f)
    BY <2>1, <2>2 DEF NumberStarts
  <2> QED
    BY <1>8, <2>1, <2>3
<1>11. ASSUME NEW x \in W PROVE x = i \/ x = s
  <2> SUFFICES ASSUME x # i PROVE x = s
    OBVIOUS
  <2>1. a < x /\ x < e /\ x \in 2 .. Len(f) /\ f[x - 1] = "." /\ f[x] \notin Bright!Blanks
    BY <1>8 DEF NumberStarts
  <2>2. \/ x - 1 \in a + 1 .. a + n
        \/ x \in a + n + 1 .. a + NameWidth + 1
        \/ x = s
        \/ x - 1 \in a + NameWidth + 2 .. e - 1
    <3>1. x # a + 1 /\ x \in Nat /\ a < x /\ x < e
      BY <1>3, <1>5, <2>1
    <3>2. /\ a \in Nat /\ n \in Nat \ {0} /\ n <= NameWidth /\ NameWidth \in Nat
          /\ Width \in Nat /\ e = a + NameWidth + Width + 2 /\ s = a + NameWidth + 2
      BY <1>3, <1>5
    <3> QED
      BY <3>1, <3>2
  <2>3. x - 1 \notin a + 1 .. a + n /\ x - 1 \notin a + NameWidth + 2 .. e - 1
    BY <1>3, <2>1, CharFacts
  <2>4. x \notin a + n + 1 .. a + NameWidth + 1
    BY <1>3, <2>1, CharFacts
  <2> QED
    BY <2>2, <2>3, <2>4
<1>12. Bright!First(f, k) = i
  <2>1. Bright!First(f, k) \in W /\ Bright!First(f, k) <= i /\ Bright!First(f, k) \in Nat
    BY <1>4, <1>9, FirstFacts
  <2>2. i < s /\ i \in Nat
    BY <1>3, <1>5
  <2>3. Bright!First(f, k) = i \/ Bright!First(f, k) = s
    BY <1>11, <2>1
  <2> QED
    BY <2>1, <2>2, <2>3
<1>13. Bright!Second(f, k) = s
  <2>1. Bright!Second(f, k) \in W /\ Bright!First(f, k) < Bright!Second(f, k)
    BY <1>4, <1>10, <1>12, SecondFacts
  <2>2. i \in Nat
    BY <1>3, <1>5
  <2> QED
    BY <1>11, <1>12, <2>1, <2>2
<1>14. Bright!WordAt(f, i) = sub_str[k]
  <2> DEFINE w == Bright!WordAt(f, i)
             y == i + n
  <2>1. i \in 1 .. Len(f) /\ y \in i .. Len(f) /\ y - i = n
        /\ y \in a + n + 1 .. a + NameWidth + 1
    BY <1>3, <1>5
  <2>2. f[y] \in Bright!Blanks
    BY <1>3, <2>1, CharFacts
  <2>3. ASSUME NEW d \in i .. y - 1 PROVE f[d] \notin Bright!Blanks
    <3>1. d \in a + 1 .. a + n
      BY <1>3, <1>5
    <3> QED
      BY <1>3, <3>1, CharFacts
  <2> HIDE DEF y
  <2>4. w \in Seq(Char) /\ Len(w) = n /\ \A d \in 1 .. n : w[d] = f[i + d - 1]
    BY <1>1, <2>1, <2>2, <2>3, WordIs
  <2>5. ASSUME NEW d \in 1 .. n PROVE f[i + d - 1] = sub_str[k][d]
    <3>1. i + d - 1 \in a + 1 .. a + n /\ (i + d - 1) - a = d
      BY <1>3, <1>5
    <3> QED
      BY <1>3, <3>1
  <2> HIDE DEF w
  <2>6. w = sub_str[k]
    <3>1. Len(w) = Len(sub_str[k]) /\ \A d \in 1 .. Len(w) : w[d] = sub_str[k][d]
      BY <1>6, <2>4, <2>5
    <3> QED
      BY <1>6, <2>4, <3>1, SeqEqual
  <2> QED
    BY <2>6 DEF w
<1>15. Bright!WordAt(f, s) = en[k]
  <2> DEFINE w == Bright!WordAt(f, s)
  <2>1. s \in 1 .. Len(f) /\ e \in s .. Len(f) /\ e - s = Width
    <3>1. /\ a \in Nat /\ NameWidth \in Nat /\ Width \in Nat /\ Len(f) \in Nat
          /\ e = a + NameWidth + Width + 2 /\ e <= Len(f) /\ s = a + NameWidth + 2
      BY <1>3, <1>5
    <3> QED
      BY <3>1
  <2>2. f[e] \in Bright!Blanks
    BY <1>3, CharFacts
  <2>3. ASSUME NEW d \in s .. e - 1 PROVE f[d] \notin Bright!Blanks
    <3>1. d \in a + NameWidth + 2 .. e - 1
      BY <1>5
    <3> QED
      BY <1>3, <3>1, CharFacts
  <2>4. w \in Seq(Char) /\ Len(w) = Width /\ \A d \in 1 .. Width : w[d] = f[s + d - 1]
    <3>1. w \in Seq(Char) /\ Len(w) = e - s /\ \A d \in 1 .. e - s : w[d] = f[s + d - 1]
      BY <1>1, <2>1, <2>2, <2>3, WordIs
    <3> QED
      BY <2>1, <3>1
  <2>5. ASSUME NEW d \in 1 .. Width PROVE f[s + d - 1] = en[k][d]
    <3>1. s + d - 1 \in a + NameWidth + 2 .. e - 1 /\ (s + d - 1) - a - NameWidth - 1 = d
      BY <1>3, <1>5
    <3> QED
      BY <1>3, <3>1
  <2> HIDE DEF w
  <2>6. w = en[k]
    <3>1. Len(w) = Len(en[k]) /\ \A d \in 1 .. Len(w) : w[d] = en[k][d]
      BY <1>2, <2>4, <2>5
    <3> QED
      BY <1>7, <2>4, <3>1, SeqEqual
  <2> QED
    BY <2>6 DEF w
<1> QED
  BY <1>9, <1>12, <1>13, <1>14, <1>15

\* The light finds their numbers.
LEMMA PrefixLight ==
  ASSUME NEW f, IsText(f), NEW m \in Nat, NEW en, Prefix(f, m, en),
         NEW k \in 1 .. m
  PROVE  Bright!LightBright(f, sub_str[k]) = en[k]
<1> DEFINE lit == {x \in Bright!LineNos(f) :
                     /\ \A j \in 1 .. x : Bright!Words(f, j) # {}
                     /\ Bright!WordAt(f, Bright!First(f, x)) = sub_str[k]}
<1>1. Bright!LightBright(f, sub_str[k]) =
        IF lit = {} THEN Bright!Missing
        ELSE Bright!WordAt(f, Bright!Second(f, Bright!Min(lit)))
  BY DEF Bright!LightBright
<1>2. k \in lit
  <2>1. \A j \in 1 .. k : j \in 1 .. m
    OBVIOUS
  <2>2. k \in Bright!LineNos(f)
    BY PrefixLine DEF IsText
  <2> QED
    BY <2>1, <2>2, ShownWords
<1>3. lit \in SUBSET Nat
  BY LineNosFacts
<1>4. ASSUME NEW x \in lit PROVE k <= x
  <2> SUFFICES ASSUME x < k PROVE FALSE
    BY <1>3
  <2>1. x \in Nat \ {0}
    BY LineNosFacts
  <2>2. x \in 1 .. m /\ x # k
    BY <2>1
  <2>3. sub_str[x] = sub_str[k]
    BY <2>2, ShownWords
  <2>4. x \in DOMAIN sub_str /\ k \in DOMAIN sub_str
    BY <2>2 DEF Prefix
  <2> QED
    BY <2>2, <2>3, <2>4, FormatAssumption
<1>5. Bright!Min(lit) = k
  <2> HIDE DEF lit
  <2> QED
    BY <1>2, <1>3, <1>4, MinIs
<1> QED
  BY <1>1, <1>2, <1>5, ShownWords

\* A number of the right width, or a line behind them, leaves them alone, and
\* a wider number those before it.
LEMMA RewritePrefix ==
  ASSUME NEW f, IsText(f), NEW m \in Nat, NEW en, Prefix(f, m, en),
         DOMAIN en = DOMAIN sub_str,
         NEW k \in DOMAIN sub_str, k \in Bright!LineNos(f),
         NEW v \in Seq(Digit), NEW p \in Nat, p <= m,
         Len(v) = Width \/ p < k
  PROVE  Prefix(Rewrite(f, k, v), p, [en EXCEPT ![k] = v])
<1> DEFINE b == Bright!Before(f, k)
           to == b + NameWidth + 2 + Len(v)
           g == Rewrite(f, k, v)
           L == Bright!LineWidth
           en2 == [en EXCEPT ![k] = v]
<1>1. /\ b \in 0 .. Len(f) - 1
      /\ Len(g) = IF Len(f) >= to THEN Len(f) ELSE to
      /\ \A i \in 1 .. Len(g) : i <= b \/ to < i => i \in 1 .. Len(f) /\ g[i] = f[i]
      /\ \A i \in 1 .. NameWidth + 2 + Len(v) : g[b + i] = Bright!Printed(k, v)[i]
  BY RewriteFacts
<1>2. /\ b \in Nat /\ NameWidth \in Nat /\ Len(v) \in Nat /\ Len(f) \in Nat
      /\ Len(g) \in Nat /\ to = b + NameWidth + 2 + Len(v)
  BY RewriteKinds
<1>3. L = NameWidth + Width + 2 /\ L \in Nat \ {0} /\ Width \in Nat
  BY LineWidthFacts
<1>4. k \in Nat \ {0}
  BY LineNosFacts
<1>5. ASSUME NEW x \in 1 .. m
      PROVE  /\ x \in DOMAIN sub_str /\ en[x] \in Seq(Digit) /\ Len(en[x]) = Width
             /\ x * L <= Len(f)
             /\ \A i \in 1 .. L : f[(x - 1) * L + i] = Bright!Printed(x, en[x])[i]
  BY DEF Prefix, Bright!Shows
<1>6. ASSUME NEW x \in 1 .. m
      PROVE  Bright!LineEnd(f, x) = x * L /\ Bright!Before(f, x) = (x - 1) * L
  BY PrefixLine DEF IsText
<1>7. ASSUME NEW x \in Nat \ {0}
      PROVE  /\ (x - 1) * L \in Nat /\ x * L \in Nat /\ x * L = (x - 1) * L + L
             /\ \A i \in Nat : i < x => i * L <= (x - 1) * L
  BY <1>3, Multiples
<1>8. \A x \in 1 .. k - 1 : Bright!LineEnd(f, x) <= b
  BY LineFacts DEF IsText
<1> HIDE DEF b, to, g, L
<1>9. ASSUME NEW x \in 1 .. p
      PROVE  /\ x \in DOMAIN sub_str /\ en2[x] \in Seq(Digit) /\ Len(en2[x]) = Width
             /\ x * L <= Len(g)
             /\ \A i \in 1 .. L : g[(x - 1) * L + i] = Bright!Printed(x, en2[x])[i]
  <2> DEFINE a == (x - 1) * L
             e == x * L
  <2>1. x \in 1 .. m /\ x \in Nat \ {0}
    OBVIOUS
  <2>2. /\ x \in DOMAIN sub_str /\ en[x] \in Seq(Digit) /\ Len(en[x]) = Width /\ e <= Len(f)
        /\ \A i \in 1 .. L : f[a + i] = Bright!Printed(x, en[x])[i]
    BY <1>5, <2>1
  <2>3. Bright!LineEnd(f, x) = e /\ Bright!Before(f, x) = a
    BY <1>6, <2>1
  <2>4. a \in Nat /\ e \in Nat /\ e = a + L
    BY <1>7, <2>1
  <2>5. k < x => k * L <= a
    BY <1>4, <1>7, <2>1
  <2>6. k < x => k * L = b + L
    <3>1. ASSUME k < x PROVE k \in 1 .. m
      BY <1>4, <2>1, <3>1
    <3>2. k * L = (k - 1) * L + L
      BY <1>4, <1>7
    <3> QED
      BY <1>6, <3>1, <3>2 DEF b
  <2> HIDE DEF a, e
  <2>7. e <= Len(g)
    BY <1>1, <1>2, <2>2, <2>4
  <2>8. CASE x = k
    <3>1. Len(v) = Width /\ b = a
      BY <1>4, <2>3, <2>8 DEF b
    <3>2. en2[x] = v
      BY <2>2, <2>8
    <3>3. L = NameWidth + 2 + Len(v)
      BY <1>2, <1>3, <3>1
    <3>4. \A i \in 1 .. L : g[a + i] = Bright!Printed(x, en2[x])[i]
      BY <1>1, <2>8, <3>1, <3>2, <3>3
    <3> QED
      BY <2>2, <2>7, <3>1, <3>2, <3>4 DEF a, e
  <2>9. CASE x # k
    <3>1. en2[x] = en[x]
      BY <2>2, <2>9
    <3>2. e <= b \/ to <= a
      <4>1. CASE x < k
        <5>1. x \in 1 .. k - 1
          BY <1>4, <2>1, <4>1
        <5> QED
          BY <1>8, <2>3, <5>1
      <4>2. CASE k < x
        <5>1. ~(p < k)
          BY <1>4, <2>1, <4>2
        <5>2. Len(v) = Width
          BY <5>1
        <5>3. to = k * L
          BY <1>2, <1>3, <2>6, <4>2, <5>2
        <5> QED
          BY <2>5, <4>2, <5>3
      <4> QED
        BY <1>4, <2>1, <2>9, <4>1, <4>2
    <3>3. ASSUME NEW i \in 1 .. L PROVE g[a + i] = f[a + i]
      <4>1. a + i \in 1 .. Len(g) /\ (a + i <= b \/ to < a + i)
        BY <1>2, <1>3, <2>4, <2>7, <3>2
      <4> QED
        BY <1>1, <4>1
    <3> QED
      BY <2>2, <2>7, <3>1, <3>3 DEF a, e
  <2> QED
    BY <2>8, <2>9
<1>10. Prefix(g, p, en2)
  BY <1>9 DEF Prefix, Bright!Shows, L
<1> QED
  BY <1>10 DEF g

-----------------------------------------------------------------------------
(* The brightness file, the menu and what was entered.                     *)

\* The menu changes a line of the file that is one of the program's: a file
\* that it can list has no more lines than there are names.
MenuInv ==
  /\ pc \in {"off", "menu", "prompt"} /\ line \in 0 .. Len(sub_str)
  /\ pc = "prompt" => Bright!AllScan(file) /\ line \in Bright!LineNos(file) /\ line # 0
  /\ Bright!AllScan(file) => Cardinality(Bright!Ends(file)) <= Len(sub_str)

\* Before the first damaged line the file shows what was entered.
LedgerInv ==
  /\ spoilt \in 1 .. Len(sub_str) + 1
  /\ DOMAIN entered = DOMAIN sub_str
  /\ Prefix(file, spoilt - 1, entered)

FileInv == Legible(file) /\ MenuInv /\ LedgerInv

LEMMA NamesAre ==
  sub_str \in Seq(Seq(Letter)) /\ DOMAIN sub_str = 1 .. Len(sub_str) /\ Len(sub_str) \in Nat
  BY FormatAssumption

LEMMA InitLegible == Legible(File0)
<1>1. IsText(File0) /\ NumbersInPlace(File0) /\ NamesHaveNumbers(File0)
  BY FileAssumption DEF IsText
<1> QED
  BY <1>1, CommandAssumption DEF Legible

\* The delivered file shows what is taken to be entered.
LEMMA InitLedger == Bright!Init => LedgerInv
<1> SUFFICES ASSUME Bright!Init PROVE LedgerInv
  OBVIOUS
<1> DEFINE spoils == {k \in DOMAIN sub_str :
                        ~ \E v \in [1 .. Width -> Digit] : Bright!Shows(File0, k, v)}
           ends == {Len(sub_str) + 1} \cup spoils
           m == spoilt - 1
           en == [j \in DOMAIN sub_str |->
                    CHOOSE v \in [1 .. Width -> Digit] : Bright!Shows(File0, j, v)]
<1>1. /\ file = File0 /\ spoilt = Bright!Min(ends)
      /\ entered = [k \in DOMAIN sub_str |-> Bright!LightBright(File0, sub_str[k])]
  BY DEF Bright!Init
<1>2. DOMAIN sub_str = 1 .. Len(sub_str) /\ Len(sub_str) \in Nat /\ Width \in Nat
  BY NamesAre, FormatAssumption
<1>3. ends \in SUBSET Nat /\ Len(sub_str) + 1 \in ends /\ \A y \in ends : y >= 1
  BY <1>2
<1>4. spoils \subseteq ends
  OBVIOUS
<1> HIDE DEF ends
<1>5. spoilt \in ends /\ \A y \in ends : spoilt <= y
  BY <1>1, <1>3, MinOf
<1>6. spoilt \in 1 .. Len(sub_str) + 1 /\ m \in Nat
  BY <1>2, <1>3, <1>5
<1>7. ASSUME NEW j \in 1 .. m
      PROVE  /\ j \in DOMAIN sub_str
             /\ en[j] \in [1 .. Width -> Digit] /\ Bright!Shows(File0, j, en[j])
  <2>1. j \in DOMAIN sub_str /\ ~(spoilt <= j)
    BY <1>2, <1>6
  <2>2. j \notin spoils
    BY <1>4, <1>5, <2>1
  <2>3. \E v \in [1 .. Width -> Digit] : Bright!Shows(File0, j, v)
    BY <2>1, <2>2
  <2> QED
    BY <2>1, <2>3
<1>8. \A v \in [1 .. Width -> Digit] : v \in Seq(Digit) /\ Len(v) = Width
  BY <1>2
<1> HIDE DEF en, m
<1>9. Prefix(File0, m, en)
  BY <1>7, <1>8 DEF Prefix
<1>10. IsText(File0)
  BY InitLegible DEF Legible
<1>11. ASSUME NEW j \in 1 .. m PROVE entered[j] = en[j]
  <2>1. Bright!LightBright(File0, sub_str[j]) = en[j]
    BY <1>6, <1>9, <1>10, PrefixLight
  <2> QED
    BY <1>1, <1>7, <2>1
<1>12. Prefix(file, m, entered)
  BY <1>1, <1>9, <1>11 DEF Prefix
<1> QED
  BY <1>1, <1>6, <1>12 DEF LedgerInv, m

LEMMA InitFile == Bright!Init => FileInv
<1> SUFFICES ASSUME Bright!Init PROVE FileInv
  OBVIOUS
<1>1. file = File0 /\ pc = "off" /\ line = 0
  BY DEF Bright!Init
<1>2. MenuInv
  BY <1>1, NamesAre, FileAssumption DEF MenuInv
<1> QED
  BY <1>1, <1>2, InitLegible, InitLedger DEF FileInv

\* The numbers are digits, at least as many as the format has.
LEMMA NumberFacts ==
  ASSUME NEW v \in Numbers
  PROVE  v \in Seq(Digit) /\ Len(v) \in Nat \ {0} /\ Len(v) >= Width /\ Width \in Nat
  BY FormatAssumption

\* A line is chosen only from a file with no more lines than names.
LEMMA ChooseKeeps ==
  ASSUME FileInv, NEW num \in 0 .. Len(sub_str) + 1, Bright!Choose(num)
  PROVE  FileInv'
<1>1. UNCHANGED <<file, entered, spoilt>> /\ pc = "menu" /\ Bright!AllScan(file)
  BY DEF Bright!Choose
<1>2. Legible(file)' /\ LedgerInv'
  BY <1>1 DEF FileInv, LedgerInv
<1>3. MenuInv'
  <2>1. CASE num \in Bright!LineNos(file)
    <3>1. pc' = "prompt" /\ line' = num
      BY <2>1 DEF Bright!Choose
    <3>2. num # 0 /\ num <= Cardinality(Bright!Ends(file)) /\ Cardinality(Bright!Ends(file)) \in Nat
      BY <2>1, LineNosAre, EndsFinite DEF FileInv, Legible, IsText
    <3>3. num \in 0 .. Len(sub_str)
      BY <1>1, <3>2, NamesAre DEF FileInv, MenuInv
    <3> QED
      BY <1>1, <2>1, <3>1, <3>2, <3>3 DEF FileInv, MenuInv
  <2>2. CASE num \notin Bright!LineNos(file)
    BY <1>1, <2>2 DEF Bright!Choose, FileInv, MenuInv
  <2> QED
    BY <2>1, <2>2
<1> QED
  BY <1>2, <1>3 DEF FileInv

\* The line that is changed may run into the next one: what is before it, and
\* every number further on, stays.
LEMMA ChangeKeeps ==
  ASSUME FileInv, NEW v \in Numbers, Bright!Change(v)
  PROVE  FileInv'
<1>1. /\ pc = "prompt" /\ pc' = "menu" /\ line' = line
      /\ file' = Rewrite(file, line, v)
      /\ entered' = [entered EXCEPT ![line] = v]
      /\ spoilt' = IF Len(v) > Width THEN Bright!Min({spoilt, line}) ELSE spoilt
  BY DEF Bright!Change, Rewrite
<1>2. v \in Seq(Digit) /\ Len(v) \in Nat \ {0} /\ Len(v) >= Width /\ Width \in Nat
  BY NumberFacts
<1>3. /\ line \in Bright!LineNos(file) /\ line \in 1 .. Len(sub_str) /\ line \in DOMAIN sub_str
      /\ Bright!AllScan(file) /\ Cardinality(Bright!Ends(file)) <= Len(sub_str)
  BY <1>1, NamesAre DEF FileInv, MenuInv
<1>4. IsText(file) /\ NumbersInPlace(file) /\ Legible(file)
  BY DEF FileInv, Legible
<1>5. Legible(file)'
  BY <1>1, <1>3, <1>4, RewriteLegible
<1>6. MenuInv'
  <2>1. ASSUME Bright!AllScan(file)'
        PROVE  Cardinality(Bright!Ends(file))' <= Len(sub_str)
    <3>1. Cardinality(Bright!Ends(Rewrite(file, line, v))) <= Cardinality(Bright!Ends(file))
      BY <1>1, <1>2, <1>3, <1>4, <2>1, RewriteCount
    <3>2. /\ Cardinality(Bright!Ends(Rewrite(file, line, v))) \in Nat
          /\ Cardinality(Bright!Ends(file)) \in Nat
      BY <1>1, <1>4, <1>5, EndsFinite DEF Legible, IsText
    <3> QED
      BY <1>1, <1>3, <3>1, <3>2, NamesAre
  <2> QED
    BY <1>1, <1>3, <2>1 DEF FileInv, MenuInv
<1>7. LedgerInv'
  <2> DEFINE x == spoilt
             y == spoilt'
             m == x - 1
             p == y - 1
  <2>1. /\ spoilt \in 1 .. Len(sub_str) + 1 /\ DOMAIN entered = DOMAIN sub_str
        /\ Prefix(file, m, entered)
    BY DEF FileInv, LedgerInv
  <2>2. /\ spoilt' \in 1 .. Len(sub_str) + 1 /\ spoilt' <= spoilt
        /\ (Len(v) = Width \/ spoilt' <= line)
    <3>1. CASE Len(v) > Width
      <4>1. {spoilt, line} \in SUBSET Nat /\ {spoilt, line} # {}
        BY <1>3, <2>1, NamesAre
      <4>2. spoilt' \in {spoilt, line} /\ \A z \in {spoilt, line} : spoilt' <= z
        BY <1>1, <3>1, <4>1, MinOf
      <4> QED
        BY <1>3, <2>1, <4>2, NamesAre
    <3>2. CASE ~(Len(v) > Width)
      BY <1>1, <1>2, <2>1, <3>2, NamesAre
    <3> QED
      BY <3>1, <3>2
  <2>3. m \in Nat /\ p \in Nat /\ p <= m /\ (Len(v) = Width \/ p < line)
    <3>1. /\ Len(sub_str) \in Nat /\ spoilt \in Nat \ {0} /\ spoilt' \in Nat \ {0}
          /\ line \in Nat
      BY <1>3, <2>1, <2>2, NamesAre
    <3>2. y <= x /\ x \in Nat \ {0} /\ y \in Nat \ {0}
      BY <2>2, <3>1
    <3> HIDE DEF x, y
    <3>3. m \in Nat /\ p \in Nat /\ p <= m
      BY <3>2
    <3>4. y <= line => p < line
      BY <3>1, <3>2
    <3> QED
      BY <2>2, <3>3, <3>4 DEF x, y
  <2> HIDE DEF m, p
  <2>4. Prefix(Rewrite(file, line, v), p, [entered EXCEPT ![line] = v])
    BY <1>2, <1>3, <1>4, <2>1, <2>3, RewritePrefix
  <2>5. Prefix(file, spoilt - 1, entered)'
    BY <1>1, <2>4 DEF p
  <2>6. DOMAIN entered' = DOMAIN sub_str
    BY <1>1, <2>1
  <2> QED
    BY <2>2, <2>5, <2>6 DEF LedgerInv
<1> QED
  BY <1>5, <1>6, <1>7 DEF FileInv

LEMMA FileStep == FileInv /\ [Bright!Next]_menu => FileInv'
<1> SUFFICES ASSUME FileInv, [Bright!Next]_menu PROVE FileInv'
  OBVIOUS
<1>1. CASE Bright!Start
  BY <1>1 DEF Bright!Start, FileInv, MenuInv, LedgerInv
<1>2. CASE Bright!Kill
  BY <1>2 DEF Bright!Kill, FileInv, MenuInv, LedgerInv
<1>3. CASE Bright!ListFails
  BY <1>3 DEF Bright!ListFails, FileInv, MenuInv, LedgerInv
<1>4. CASE \E num \in 0 .. Len(sub_str) + 1 : Bright!Choose(num)
  BY <1>4, ChooseKeeps
<1>5. CASE \E v \in Numbers : Bright!Change(v)
  BY <1>5, ChangeKeeps
<1>6. CASE UNCHANGED menu
  BY <1>6 DEF menu, FileInv, MenuInv, LedgerInv
<1> QED
  BY <1>1, <1>2, <1>3, <1>4, <1>5, <1>6 DEF Bright!Next

LEMMA FileInvImplies == FileInv => FileTypeOK /\ DamageOnlyBehind
<1> SUFFICES ASSUME FileInv PROVE FileTypeOK /\ DamageOnlyBehind
  OBVIOUS
<1>1. FileTypeOK
  BY DEF FileTypeOK, Bright!TypeOK, FileInv, Legible, IsText, MenuInv, LedgerInv
<1>2. /\ spoilt - 1 \in Nat /\ IsText(file) /\ Prefix(file, spoilt - 1, entered)
  BY NamesAre DEF FileInv, LedgerInv, Legible
<1>3. DamageOnlyBehind
  BY <1>2, PrefixLight DEF DamageOnlyBehind, Bright!DamageOnlyBehind
<1> QED
  BY <1>1, <1>3

-----------------------------------------------------------------------------
(* The light and the menu together.                                        *)

\* What the light reads from a legible file is a command, so that the bulbs
\* see what BulbRegistry says of them.
LEMMA StepImplements == FileInv /\ [DimNext]_<<vars, menu>> => [Next]_vars
<1> SUFFICES ASSUME FileInv, [DimNext]_<<vars, menu>> PROVE [Next]_vars
  OBVIOUS
<1>1. CASE ReadFile
  <2>1. PICK k \in DOMAIN sub_str :
          /\ Bright!LightBright(file, sub_str[k]) # Bright!Missing
          /\ Begin("main", Bright!LightBright(file, sub_str[k]))
    BY <1>1 DEF ReadFile
  <2>2. Bright!LightBright(file, sub_str[k]) \in Command
    BY <2>1, LightLegible DEF FileInv
  <2> QED
    BY <2>1, <2>2 DEF Next, Caller
<1>2. CASE Handle
  BY <1>2, CommandAssumption DEF Handle, Next, Caller
<1>3. CASE Detection \/ Lookup
  BY <1>3 DEF Next
<1>4. CASE UNCHANGED vars
  BY <1>4
<1> QED
  BY <1>1, <1>2, <1>3, <1>4 DEF DimNext

LEMMA DimFile == DimSpec => []FileInv
<1>1. DimInit => FileInv
  BY InitFile DEF DimInit
<1>2. FileInv /\ [DimNext]_<<vars, menu>> => FileInv'
  <2>1. [DimNext]_<<vars, menu>> => [Bright!Next]_menu
    BY DEF DimNext
  <2> QED
    BY <2>1, FileStep
<1> QED
  BY <1>1, <1>2, PTL DEF DimSpec

(***************************************************************************)
(* Whatever the menu makes of the file, the light behaves as BulbRegistry  *)
(* says: what it sends is one of the commands there are                    *)
(* (esp_lightWifiBulbLanCtrl.py:214-243).                                  *)
(***************************************************************************)
THEOREM ImplementsRegistry == DimSpec => Spec
<1>1. DimInit => Init
  BY DEF DimInit
<1> QED
  BY <1>1, StepImplements, DimFile, PTL DEF DimSpec, Spec

(***************************************************************************)
(* Both tables and every command under way keep their types.               *)
(***************************************************************************)
THEOREM TypeCorrect == DimSpec => []TypeOK
<1> QED BY ImplementsRegistry, Invariant, IInvImplies, PTL

(***************************************************************************)
(* The main thread and its handler never meet an address of bulb_idx2ip    *)
(* that detected_bulbs does not know, though no lock guards the tables     *)
(* (esp_lightWifiBulbLanCtrl.py:132-133, 160-165).                         *)
(***************************************************************************)
THEOREM NoKeyError == DimSpec => []LookupsSucceed
<1> QED BY ImplementsRegistry, Invariant, IInvImplies, PTL

(***************************************************************************)
(* All commands go to one bulb, however many there are                     *)
(* (esp_lightWifiBulbLanCtrl.py:121-133, 214, 225).                        *)
(***************************************************************************)
THEOREM AlwaysTheSameBulb == DimSpec => []OneLamp
<1> QED BY ImplementsRegistry, Invariant, IInvImplies, PTL

(***************************************************************************)
(* The file always ends with a newline, and the menu waits for the new     *)
(* brightness of a line that belongs to a name: sub_str is never indexed   *)
(* beyond its end, however many lines the file has got                     *)
(* (bright_control.c:115-160).                                             *)
(***************************************************************************)
THEOREM FileTypeCorrect == DimSpec => []FileTypeOK
<1> QED BY DimFile, FileInvImplies, PTL

(***************************************************************************)
(* A number that is too wide, and a line that was delivered in another     *)
(* form, take nothing from the subjects before it, wherever the program is *)
(* killed (bright_control.c:136-160, esp_lightWifiBulbLanCtrl.py:227).     *)
(***************************************************************************)
THEOREM LinesBeforeStay == DimSpec => []DamageOnlyBehind
<1> QED BY DimFile, FileInvImplies, PTL

(***************************************************************************)
(* However the lines have run into each other, the light sends no number   *)
(* that nobody entered or delivered (bright_control.c:155-160,             *)
(* esp_lightWifiBulbLanCtrl.py:232-243).                                   *)
(***************************************************************************)
THEOREM NoStrangeNumber == DimSpec => []OnlyEntered
<1>1. IInv => OnlyEntered
  BY DEF IInv, ToTheLamp, OnlyEntered, Commands, Caller
<1> QED
  BY <1>1, ImplementsRegistry, Invariant, PTL
=============================================================================
