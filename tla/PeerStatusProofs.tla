-------------------------- MODULE PeerStatusProofs --------------------------
(***************************************************************************)
(* Proofs about PeerStatus, for any set of machines, any window, any delay *)
(* of the network and any limit of descriptors.                            *)
(***************************************************************************)
EXTENDS PeerStatus, TLAPS

-----------------------------------------------------------------------------
(***************************************************************************)
(* The strengthening.  ListedRanLately follows an entry back to its        *)
(* packet: whoever sent a packet has run since it was sent, and an entry   *)
(* that is still listed was sent at most MaxDelay before it was received.  *)
(***************************************************************************)
RunsWhileUp == \A n \in Node : /\ up[n] => away[n] = 0
                               /\ telling[n] = "runs" => up[n]

PacketsAreRecent == \A p \in net : away[p.from] <= p.age

EntriesAreRecent ==
  \A n, m \in Node :
    list[n][m].rx <= Window =>
      /\ away[m] <= list[n][m].sent
      /\ list[n][m].sent <= list[n][m].rx + MaxDelay

IInv == TypeOK /\ RunsWhileUp /\ PacketsAreRecent /\ EntriesAreRecent

-----------------------------------------------------------------------------
LEMMA InitIInv == Init => IInv
  BY TimeAssumption
     DEF Init, IInv, TypeOK, RunsWhileUp, PacketsAreRecent, EntriesAreRecent,
         Old, Gone, Never

LEMMA LesserFacts ==
  \A a, b \in Nat : /\ Lesser(a, b) \in 0 .. b
                    /\ Lesser(a, b) <= a
                    /\ a <= b => Lesser(a, b) = a
  BY DEF Lesser

(* A clock tick makes a packet and its sender's absence older alike.       *)
LEMMA TickIInv == IInv /\ Tick => IInv'
<1> SUFFICES ASSUME IInv, Tick PROVE IInv'
  OBVIOUS
<1> USE TimeAssumption
<1>t. TypeOK
  BY DEF IInv
<1>n. Old \in Nat /\ Gone \in Nat /\ Old = Window + 2 /\ Gone = Window + MaxDelay + 2
  BY DEF Old, Gone
<1>a. \A n \in Node : away'[n] = IF up[n] THEN 0 ELSE Lesser(away[n] + 1, Gone)
  BY DEF Tick
<1>l. \A n, m \in Node :
        /\ list'[n][m].rx = Lesser(list[n][m].rx + 1, Old)
        /\ list'[n][m].sent = Lesser(list[n][m].sent + 1, Gone)
  BY DEF Tick
<1>o. \A n \in Node : away[n] \in 0 .. Gone /\ away'[n] \in 0 .. Gone
                      /\ away'[n] <= away[n] + 1
  <2> SUFFICES ASSUME NEW n \in Node
               PROVE  away[n] \in 0 .. Gone /\ away'[n] \in 0 .. Gone
                      /\ away'[n] <= away[n] + 1
    OBVIOUS
  <2>1. away[n] \in 0 .. Gone
    BY <1>t DEF TypeOK
  <2>2. away[n] + 1 \in Nat /\ Gone \in Nat
    BY <2>1, <1>n
  <2>3. Lesser(away[n] + 1, Gone) \in 0 .. Gone /\ Lesser(away[n] + 1, Gone) <= away[n] + 1
    BY <2>2, LesserFacts
  <2> QED
    BY <2>1, <2>2, <2>3, <1>a
<1>1. TypeOK'
  <2>1. list' \in [Node -> [Node -> [rx : 0 .. Old, sent : 0 .. Gone]]]
    <3>1. \A n, m \in Node : list[n][m].rx \in Nat /\ list[n][m].sent \in Nat
      BY <1>t, <1>n DEF TypeOK
    <3>2. \A n, m \in Node :
            /\ Lesser(list[n][m].rx + 1, Old) \in 0 .. Old
            /\ Lesser(list[n][m].sent + 1, Gone) \in 0 .. Gone
      <4> SUFFICES ASSUME NEW n \in Node, NEW m \in Node
                   PROVE  /\ Lesser(list[n][m].rx + 1, Old) \in 0 .. Old
                          /\ Lesser(list[n][m].sent + 1, Gone) \in 0 .. Gone
        OBVIOUS
      <4>1. list[n][m].rx + 1 \in Nat /\ list[n][m].sent + 1 \in Nat
        BY <3>1
      <4> QED
        BY <4>1, <1>n, LesserFacts
    <3> QED
      BY <3>2 DEF Tick
  <2>2. net' \subseteq [from : Node, to : Node, age : 0 .. MaxDelay]
    <3> SUFFICES ASSUME NEW p \in net'
                 PROVE  p \in [from : Node, to : Node, age : 0 .. MaxDelay]
      OBVIOUS
    <3>1. PICK q \in net : q.age < MaxDelay /\ p = [q EXCEPT !.age = @ + 1]
      BY DEF Tick
    <3>2. q \in [from : Node, to : Node, age : 0 .. MaxDelay]
      BY <1>t DEF TypeOK
    <3> QED
      BY <3>1, <3>2
  <2>3. away' \in [Node -> 0 .. Gone]
    BY <1>o DEF Tick
  <2> QED
    BY <2>1, <2>2, <2>3, <1>t DEF Tick, TypeOK
<1>2. RunsWhileUp'
  BY <1>a DEF IInv, RunsWhileUp, Tick
<1>3. PacketsAreRecent'
  <2> SUFFICES ASSUME NEW p \in net' PROVE away'[p.from] <= p.age
    BY DEF PacketsAreRecent
  <2>1. PICK q \in net : q.age < MaxDelay /\ p = [q EXCEPT !.age = @ + 1]
    BY DEF Tick
  <2>2. q \in [from : Node, to : Node, age : 0 .. MaxDelay]
    BY <1>t DEF TypeOK
  <2>3. p.from = q.from /\ p.age = q.age + 1
    BY <2>1, <2>2
  <2>4. away[q.from] <= q.age
    BY DEF IInv, PacketsAreRecent
  <2> QED
    BY <2>2, <2>3, <2>4, <1>o
<1>4. EntriesAreRecent'
  <2> SUFFICES ASSUME NEW n \in Node, NEW m \in Node, list'[n][m].rx <= Window
               PROVE  /\ away'[m] <= list'[n][m].sent
                      /\ list'[n][m].sent <= list'[n][m].rx + MaxDelay
    BY DEF EntriesAreRecent
  <2>1. list[n][m].rx \in 0 .. Old /\ list[n][m].sent \in 0 .. Gone
    BY <1>t DEF TypeOK
  <2>2. list'[n][m].rx = list[n][m].rx + 1 /\ list[n][m].rx <= Window
    BY <1>l, <1>n, <2>1 DEF Lesser
  <2>3. away[m] <= list[n][m].sent /\ list[n][m].sent <= list[n][m].rx + MaxDelay
    BY <2>2 DEF IInv, EntriesAreRecent
  <2>4. list'[n][m].sent = list[n][m].sent + 1
    BY <1>l, <1>n, <2>1, <2>2, <2>3 DEF Lesser
  <2> QED
    BY <2>1, <2>2, <2>3, <2>4, <1>o
<1> QED
  BY <1>1, <1>2, <1>3, <1>4 DEF IInv

LEMMA NextIInv == IInv /\ [Next]_vars => IInv'
<1> SUFFICES ASSUME IInv, [Next]_vars PROVE IInv'
  OBVIOUS
<1> USE TimeAssumption
<1>n. Old \in Nat /\ Gone \in Nat /\ Old = Window + 2 /\ Gone = Window + MaxDelay + 2
  BY DEF Old, Gone
<1>t. TypeOK
  BY DEF IInv
<1>1. ASSUME NEW n \in Node, Start(n) PROVE IInv'
  <2>1. TypeOK'
    BY <1>1, <1>t, <1>n DEF Start, TypeOK, Never
  <2>2. RunsWhileUp'
    BY <1>1, <1>t DEF Start, TypeOK, IInv, RunsWhileUp
  <2>3. \A m \in Node : away'[m] <= away[m] /\ away[m] \in Nat
    BY <1>1, <1>t, <1>n DEF Start, TypeOK
  <2>4. PacketsAreRecent'
    BY <1>1, <1>t, <2>3 DEF Start, TypeOK, IInv, PacketsAreRecent
  <2>5. EntriesAreRecent'
    <3> SUFFICES ASSUME NEW k \in Node, NEW m \in Node, list'[k][m].rx <= Window
                 PROVE  /\ away'[m] <= list'[k][m].sent
                        /\ list'[k][m].sent <= list'[k][m].rx + MaxDelay
      BY DEF EntriesAreRecent
    <3>1. k # n
      BY <1>1, <1>t, <1>n DEF Start, TypeOK, Never
    <3>2. list'[k][m] = list[k][m]
      BY <1>1, <1>t, <3>1 DEF Start, TypeOK
    <3>3. list[k][m].sent \in Nat /\ away'[m] \in Nat
      BY <1>1, <1>t, <1>n DEF Start, TypeOK
    <3> QED
      BY <3>2, <3>3, <2>3 DEF IInv, EntriesAreRecent
  <2> QED
    BY <2>1, <2>2, <2>4, <2>5 DEF IInv
<1>2. ASSUME NEW n \in Node, Kill(n) PROVE IInv'
  <2>1. TypeOK'
    BY <1>2, <1>t, <1>n DEF Kill, TypeOK, Never
  <2>2. RunsWhileUp'
    BY <1>2, <1>t DEF Kill, TypeOK, IInv, RunsWhileUp
  <2>3. PacketsAreRecent'
    BY <1>2 DEF Kill, IInv, PacketsAreRecent
  <2>4. EntriesAreRecent'
    BY <1>2, <1>t, <1>n DEF Kill, TypeOK, IInv, EntriesAreRecent, Never
  <2> QED
    BY <2>1, <2>2, <2>3, <2>4 DEF IInv
<1>3. ASSUME NEW n \in Node, PipeFails(n) PROVE IInv'
  BY <1>3, <1>t DEF PipeFails, IInv, TypeOK, RunsWhileUp, PacketsAreRecent, EntriesAreRecent
<1>4. ASSUME NEW n \in Node, UnknownNeighbour(n) PROVE IInv'
  BY <1>4, <1>t DEF UnknownNeighbour, IInv, TypeOK, RunsWhileUp, PacketsAreRecent, EntriesAreRecent
<1>5. ASSUME NEW n \in Node, NEW s \in SUBSET (Node \ {n}), Tell(n, s) PROVE IInv'
  <2>1. TypeOK'
    BY <1>5, <1>t DEF Tell, TypeOK
  <2>2. away[n] = 0
    BY <1>5 DEF Tell, IInv, RunsWhileUp
  <2>3. PacketsAreRecent'
    BY <1>5, <2>2 DEF Tell, IInv, PacketsAreRecent
  <2> QED
    BY <1>5, <2>1, <2>3 DEF Tell, IInv, RunsWhileUp, EntriesAreRecent
<1>6. ASSUME NEW p \in net, Receive(p) PROVE IInv'
  <2>1. p \in [from : Node, to : Node, age : 0 .. MaxDelay]
    BY <1>t DEF TypeOK
  <2>2. net' \subseteq net
    BY <1>6 DEF Receive
  <2>3. away[p.from] <= p.age
    BY DEF IInv, PacketsAreRecent
  <2>4. TypeOK'
    BY <1>6, <1>t, <1>n, <2>1, <2>2 DEF Receive, TypeOK
  <2>5. EntriesAreRecent'
    <3> SUFFICES ASSUME NEW k \in Node, NEW m \in Node, list'[k][m].rx <= Window
                 PROVE  /\ away'[m] <= list'[k][m].sent
                        /\ list'[k][m].sent <= list'[k][m].rx + MaxDelay
      BY DEF EntriesAreRecent
    <3>1. away' = away
      BY <1>6 DEF Receive
    <3>2. CASE k = p.to /\ m = p.from
      <4>1. list'[k][m] = [rx |-> 0, sent |-> p.age]
        BY <1>6, <1>t, <3>2 DEF Receive, TypeOK
      <4> QED
        BY <4>1, <2>1, <2>3, <3>1, <3>2
    <3>3. CASE ~(k = p.to /\ m = p.from)
      <4>1. list'[k][m] = list[k][m]
        BY <1>6, <1>t, <3>3 DEF Receive, TypeOK
      <4> QED
        BY <4>1, <3>1 DEF IInv, EntriesAreRecent
    <3> QED
      BY <3>2, <3>3
  <2> QED
    BY <1>6, <2>2, <2>4, <2>5 DEF Receive, IInv, RunsWhileUp, PacketsAreRecent
<1>7. ASSUME NEW p \in net, Lose(p) PROVE IInv'
  BY <1>7, <1>t DEF Lose, IInv, TypeOK, RunsWhileUp, PacketsAreRecent, EntriesAreRecent
<1>8. CASE Tick
  BY <1>8, TickIInv
<1>9. CASE UNCHANGED vars
  BY <1>9, <1>t DEF vars, IInv, TypeOK, RunsWhileUp, PacketsAreRecent, EntriesAreRecent
<1>10. ASSUME NEW n \in Node, ReceiverEnds(n) PROVE IInv'
  BY <1>10, <1>t DEF ReceiverEnds, IInv, TypeOK, RunsWhileUp, PacketsAreRecent, EntriesAreRecent
<1> QED
  BY <1>1, <1>2, <1>3, <1>4, <1>5, <1>6, <1>7, <1>8, <1>9, <1>10 DEF Next

LEMMA Invariance == Spec => []IInv
  BY InitIInv, NextIInv, PTL DEF Spec

(* Every variable keeps its type; no more descriptors are left open than   *)
(* the process may have.                                                   *)
THEOREM TypeCorrect == Spec => []TypeOK
<1>1. IInv => TypeOK
  BY DEF IInv
<1> QED
  BY <1>1, Invariance, PTL

(* A machine that is listed has run its study program lately, whatever is  *)
(* lost, doubled, late or out of order, and whoever restarts.              *)
THEOREM ListsOnlyTheLiving == Spec => []ListedRanLately
<1>1. IInv => ListedRanLately
  <2> SUFFICES ASSUME IInv, NEW n \in Node, NEW m \in Listed(n)
               PROVE  away[m] <= Window + MaxDelay
    BY DEF ListedRanLately
  <2>1. m \in Node /\ list[n][m].rx <= Window
    BY DEF Listed
  <2>2. away[m] <= list[n][m].sent /\ list[n][m].sent <= list[n][m].rx + MaxDelay
    BY <2>1 DEF IInv, EntriesAreRecent
  <2>3. list[n][m].rx \in 0 .. Old /\ list[n][m].sent \in 0 .. Gone /\ away[m] \in 0 .. Gone
    BY <2>1 DEF IInv, TypeOK
  <2> QED
    BY <2>1, <2>2, <2>3, TimeAssumption DEF Old, Gone
<1> QED
  BY <1>1, Invariance, PTL

(* What is listed of a machine was its status Window + MaxDelay seconds    *)
(* ago at most, although a late packet can overwrite a newer one.          *)
THEOREM ListsNothingStale == Spec => []ListedIsRecent
<1>1. IInv => ListedIsRecent
  <2> SUFFICES ASSUME IInv, NEW n \in Node, NEW m \in Listed(n)
               PROVE  list[n][m].sent <= Window + MaxDelay
    BY DEF ListedIsRecent
  <2>1. m \in Node /\ list[n][m].rx <= Window
    BY DEF Listed
  <2>2. list[n][m].sent <= list[n][m].rx + MaxDelay
    BY <2>1 DEF IInv, EntriesAreRecent
  <2>3. list[n][m].rx \in 0 .. Old /\ list[n][m].sent \in 0 .. Gone
    BY <2>1 DEF IInv, TypeOK
  <2> QED
    BY <2>1, <2>2, <2>3, TimeAssumption DEF Old, Gone
<1> QED
  BY <1>1, Invariance, PTL
=============================================================================
