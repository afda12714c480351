----------------------------- MODULE PeerStatus -----------------------------
(***************************************************************************)
(* The study status that the machines of the mesh tell each other: the     *)
(* recognizer thread sends its own once a second to the neighbours batctl  *)
(* lists (recognizer.c, devinfo.c), the receiver thread stores what comes  *)
(* under the sender's index (receiver.c, comm.c), and the menu lists what  *)
(* came in the last seconds (print_other_infos, schedule.c).               *)
(*                                                                         *)
(* UDP loses, doubles, delays and reorders.  Times are kept as ages, which *)
(* a tick of the clock makes one second older, so that nothing bounds the  *)
(* length of a behaviour.                                                  *)
(***************************************************************************)
EXTENDS Naturals, FiniteSets

CONSTANTS
  Node,
  Window,     \* seconds an entry is listed (10)
  MaxDelay,   \* seconds a packet can spend in the network
  FdLimit     \* descriptors the process may still open when it starts

ASSUME NodeAssumption == IsFiniteSet(Node)
ASSUME TimeAssumption == Window \in Nat /\ MaxDelay \in Nat /\ FdLimit \in Nat

VARIABLES
  up,         \* the study program runs
  receiving,  \* its receiver thread runs
  telling,    \* its recognizer thread runs, or why it has ended
  told,       \* the recognizer has been round in this second
  fds,        \* read ends of pipes it has left open
  list,       \* information_list of each node: ages since receipt and sending
  net,        \* packets under way: [from, to, age]
  away        \* ghost: seconds since the program last ran
vars == <<up, receiving, telling, told, fds, list, net, away>>

\* Bounds: ages that have long ceased to matter are not told apart.
Old == Window + 2
Gone == Window + MaxDelay + 2
Never == [rx |-> Old, sent |-> Gone]

Init ==
  /\ up = [n \in Node |-> FALSE]
  /\ receiving = [n \in Node |-> FALSE] /\ telling = [n \in Node |-> "down"]
  /\ told = [n \in Node |-> FALSE]
  /\ fds = [n \in Node |-> 0]
  /\ list = [n \in Node |-> [m \in Node |-> Never]]
  /\ net = {}
  /\ away = [n \in Node |-> Gone]
-----------------------------------------------------------------------------
Lesser(a, b) == IF a < b THEN a ELSE b

\* comm_init starts both threads.  Nobody notices a thread that could not be
\* created, nor a receiver that could not bind.
Start(n) ==
  /\ ~up[n]
  /\ up' = [up EXCEPT ![n] = TRUE]
  /\ \E bound \in BOOLEAN : receiving' = [receiving EXCEPT ![n] = bound]
  /\ \E made \in {"runs", "noThread"} : telling' = [telling EXCEPT ![n] = made]
  /\ told' = [told EXCEPT ![n] = FALSE]
  /\ fds' = [fds EXCEPT ![n] = 0]
  /\ list' = [list EXCEPT ![n] = [m \in Node |-> Never]]
  /\ away' = [away EXCEPT ![n] = 0]
  /\ UNCHANGED net

\* The sensor's SIGUSR1.
Kill(n) ==
  /\ up[n]
  /\ up' = [up EXCEPT ![n] = FALSE]
  /\ receiving' = [receiving EXCEPT ![n] = FALSE]
  /\ telling' = [telling EXCEPT ![n] = "down"]
  /\ told' = [told EXCEPT ![n] = FALSE]
  /\ fds' = [fds EXCEPT ![n] = 0]
  /\ list' = [list EXCEPT ![n] = [m \in Node |-> Never]]
  /\ UNCHANGED <<net, away>>

\* Mutant: a round goes on with no descriptor left.
TellWithoutPipe(n, neighbours) ==
  /\ telling[n] = "runs" /\ ~told[n]
  /\ told' = [told EXCEPT ![n] = TRUE]
  /\ fds' = [fds EXCEPT ![n] = @ + 1]
  /\ net' = net \cup {[from |-> n, to |-> m, age |-> 0] : m \in neighbours}
  /\ UNCHANGED <<up, receiving, telling, list, away>>

(***************************************************************************)
(* One round of the recognizer: getdevinfo opens a pipe, whose read end it *)
(* never closes, and the status goes to each neighbour.                    *)
(***************************************************************************)
Tell(n, neighbours) ==
  /\ telling[n] = "runs" /\ ~told[n]
  /\ fds[n] < FdLimit
  /\ told' = [told EXCEPT ![n] = TRUE]
  /\ fds' = [fds EXCEPT ![n] = @ + 1]
  /\ net' = net \cup {[from |-> n, to |-> m, age |-> 0] : m \in neighbours}
  /\ UNCHANGED <<up, receiving, telling, list, away>>

\* No descriptor for the pipe: the thread ends, the program does not.
PipeFails(n) ==
  /\ telling[n] = "runs" /\ ~told[n]
  /\ fds[n] = FdLimit
  /\ telling' = [telling EXCEPT ![n] = "noPipe"]
  /\ UNCHANGED <<up, receiving, told, fds, list, net, away>>

\* batctl's output cannot be parsed, or names a machine that is not in
\* arptbl; the descriptor stays open here too.
UnknownNeighbour(n) ==
  /\ telling[n] = "runs" /\ ~told[n]
  /\ fds[n] < FdLimit
  /\ telling' = [telling EXCEPT ![n] = "noNeighbour"]
  /\ fds' = [fds EXCEPT ![n] = @ + 1]
  /\ UNCHANGED <<up, receiving, told, list, net, away>>

\* select fails: the receiver ends, the program and its list do not.
ReceiverEnds(n) ==
  /\ receiving[n]
  /\ receiving' = [receiving EXCEPT ![n] = FALSE]
  /\ UNCHANGED <<up, telling, told, fds, list, net, away>>

\* Mutant: only the time of receipt is entered.
ReceiveTimeOnly(p) ==
  /\ receiving[p.to]
  /\ list' = [list EXCEPT ![p.to][p.from] = [rx |-> 0, sent |-> @.sent]]
  /\ \E again \in BOOLEAN : net' = IF again THEN net ELSE net \ {p}
  /\ UNCHANGED <<up, receiving, telling, told, fds, away>>

\* One packet of the socket: recvfrom, unpack_packet, update_infolist.
Receive(p) ==
  /\ receiving[p.to]
  /\ list' = [list EXCEPT ![p.to][p.from] = [rx |-> 0, sent |-> p.age]]
  /\ \E again \in BOOLEAN : net' = IF again THEN net ELSE net \ {p}
  /\ UNCHANGED <<up, receiving, telling, told, fds, away>>

Lose(p) ==
  /\ net' = net \ {p}
  /\ UNCHANGED <<up, receiving, telling, told, fds, list, away>>

Tick ==
  /\ told' = [n \in Node |-> FALSE]
  /\ list' = [n \in Node |-> [m \in Node |->
                [rx |-> Lesser(list[n][m].rx + 1, Old),
                 sent |-> Lesser(list[n][m].sent + 1, Gone)]]]
  /\ net' = {[p EXCEPT !.age = @ + 1] : p \in {q \in net : q.age < MaxDelay}}
  /\ away' = [n \in Node |-> IF up[n] THEN 0 ELSE Lesser(away[n] + 1, Gone)]
  /\ UNCHANGED <<up, receiving, telling, fds>>

Next ==
  \/ \E n \in Node : Start(n) \/ Kill(n) \/ PipeFails(n) \/ UnknownNeighbour(n) \/ ReceiverEnds(n)
  \/ \E n \in Node : \E neighbours \in SUBSET (Node \ {n}) : Tell(n, neighbours)
  \/ \E p \in net : Receive(p) \/ Lose(p)
  \/ Tick

Spec == Init /\ [][Next]_vars
-----------------------------------------------------------------------------
\* Mutant: an entry is let through a second too long.
ListedLonger(n) == {m \in Node : list[n][m].rx <= Window + 1}

\* What print_other_infos prints at node n.
Listed(n) == {m \in Node : list[n][m].rx <= Window}

TypeOK ==
  /\ up \in [Node -> BOOLEAN] /\ receiving \in [Node -> BOOLEAN]
  /\ telling \in [Node -> {"down", "runs", "noThread", "noPipe", "noNeighbour"}]
  /\ told \in [Node -> BOOLEAN]
  /\ fds \in [Node -> 0 .. FdLimit]
  /\ list \in [Node -> [Node -> [rx : 0 .. Old, sent : 0 .. Gone]]]
  /\ net \subseteq [from : Node, to : Node, age : 0 .. MaxDelay]
  /\ away \in [Node -> 0 .. Gone]

(***************************************************************************)
(* Whoever is listed has run its study program within the last Window +    *)
(* MaxDelay seconds, although entries are stamped on receipt, packets can  *)
(* arrive twice or late, and programs come and go on both sides; and a     *)
(* list shows no program that was never started (schedule.c:59-86,         *)
(* receiver.c:56-65).                                                      *)
(***************************************************************************)
ListedRanLately ==
  \A n \in Node : \A m \in Listed(n) : away[m] <= Window + MaxDelay

(***************************************************************************)
(* What is listed of a machine, its subject and minutes, was so at most    *)
(* Window + MaxDelay seconds ago: a packet that comes late or again can    *)
(* put an older status over a newer one, but none that is older than that  *)
(* (recognizer.c:59-70, receiver.c:56-65).                                 *)
(***************************************************************************)
ListedIsRecent ==
  \A n \in Node : \A m \in Listed(n) : list[n][m].sent <= Window + MaxDelay

\* What test/getdevinfo_test.c does with getdevinfo, and the recognizer with
\* it: calling it once a second, for as long as the program runs.
CanGoOnForever == \A n \in Node : telling[n] # "noPipe"
=============================================================================
