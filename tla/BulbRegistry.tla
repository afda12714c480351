---------------------------- MODULE BulbRegistry ----------------------------
(***************************************************************************)
(* The light's two tables of bulbs (esp_lightWifiBulbLanCtrl.py): the      *)
(* detection thread enters every bulb that answers or announces itself,    *)
(* first in detected_bulbs and then in bulb_idx2ip, with no lock, while    *)
(* the main thread, and a signal handler on top of it, look bulb 1 up and  *)
(* send it a command.                                                      *)
(***************************************************************************)
EXTENDS Naturals, FiniteSets

CONSTANTS
  IP,       \* the addresses of bulbs
  Command   \* what is sent to them: a toggle or a brightness

ASSUME IPAssumption == IsFiniteSet(IP)

VARIABLES
  detected_bulbs,  \* address -> id (model, power and port left out)
  bulb_idx2ip,     \* id -> address
  entering,        \* the address and id between the two tables, or None; Dead
                   \* once a socket error has ended the detection thread
  cmd,             \* operate_on_bulb in each caller: [at, text, ip]
  obeyed           \* ghost: the addresses of the bulbs that have obeyed

vars == <<detected_bulbs, bulb_idx2ip, entering, cmd, obeyed>>
tables == <<detected_bulbs, bulb_idx2ip, entering>>

Caller == {"main", "handler"}
None == [ip |-> "none"]
Dead == [ip |-> "dead"]
Idle == [at |-> "idle"]
Lamp == 1   \* the only index the program uses

Init ==
  /\ detected_bulbs = << >> /\ bulb_idx2ip = << >> /\ entering = None
  /\ cmd = [c \in Caller |-> Idle] /\ obeyed = {}

\* A dictionary with an entry added or replaced.
With(d, k, v) == [i \in DOMAIN d \cup {k} |-> IF i = k THEN v ELSE d[i]]
-----------------------------------------------------------------------------
\* Mutant: a new bulb's id is the number of bulbs before it, from 1 on.
IdForAnswer(ip) ==
  IF ip \in DOMAIN detected_bulbs THEN detected_bulbs[ip]
  ELSE IF detected_bulbs = << >> THEN 1 ELSE Cardinality(DOMAIN detected_bulbs)

\* handle_search_response: a known bulb keeps its id, a new one gets the next.
IdFor(ip) ==
  IF ip \in DOMAIN detected_bulbs THEN detected_bulbs[ip]
  ELSE Cardinality(DOMAIN detected_bulbs) + 1

\* Mutant: bulb_idx2ip is filled first.
IndexFirst(ip) ==
  /\ entering = None /\ entering' = [ip |-> ip, id |-> IdFor(ip)]
  /\ bulb_idx2ip' = With(bulb_idx2ip, IdFor(ip), ip)
  /\ UNCHANGED <<detected_bulbs, cmd, obeyed>>

\* A valid answer of a bulb, up to the first table.
Detect(ip) ==
  /\ entering = None /\ entering' = [ip |-> ip, id |-> IdFor(ip)]
  /\ detected_bulbs' = With(detected_bulbs, ip, IdFor(ip))
  /\ UNCHANGED <<bulb_idx2ip, cmd, obeyed>>

\* Mutant: the bulb's id is entered in place of its address.
IndexById ==
  /\ entering \notin {None, Dead} /\ entering' = None
  /\ bulb_idx2ip' = With(bulb_idx2ip, entering.id, entering.id)
  /\ UNCHANGED <<detected_bulbs, cmd, obeyed>>

\* The second table.
Index ==
  /\ entering \notin {None, Dead} /\ entering' = None
  /\ bulb_idx2ip' = With(bulb_idx2ip, entering.id, entering.ip)
  /\ UNCHANGED <<detected_bulbs, cmd, obeyed>>

\* bulbs_detection_loop: an error of a socket, and of sys, which is not imported.
DetectionDies ==
  /\ entering = None /\ entering' = Dead
  /\ UNCHANGED <<detected_bulbs, bulb_idx2ip, cmd, obeyed>>
-----------------------------------------------------------------------------
\* Python runs a handler to its end before the main thread goes on.
Turn(c) == c = "main" => cmd["handler"] = Idle

Begin(c, text) ==
  /\ Turn(c) /\ cmd[c] = Idle
  /\ cmd' = [cmd EXCEPT ![c] = [at |-> "begun", text |-> text]]
  /\ UNCHANGED <<tables, obeyed>>

\* Without bulb 1 the command is given up; else its address is looked up.
FindIP(c) ==
  /\ Turn(c) /\ cmd[c].at = "begun"
  /\ cmd' = [cmd EXCEPT ![c] =
       IF Lamp \in DOMAIN bulb_idx2ip
       THEN [at |-> "found", text |-> @.text, ip |-> bulb_idx2ip[Lamp]]
       ELSE Idle]
  /\ UNCHANGED <<tables, obeyed>>

\* The bulb is looked up, and told; an exception of the connection is caught.
Tell(c) ==
  /\ Turn(c) /\ cmd[c].at = "found" /\ cmd[c].ip \in DOMAIN detected_bulbs
  /\ \E arrives \in BOOLEAN :
       obeyed' = IF arrives THEN obeyed \cup {cmd[c].ip} ELSE obeyed
  /\ cmd' = [cmd EXCEPT ![c] = Idle]
  /\ UNCHANGED tables

Detection == Index \/ DetectionDies \/ \E ip \in IP : Detect(ip)
Lookup == \E c \in Caller : FindIP(c) \/ Tell(c)

Next == Detection \/ Lookup \/ \E c \in Caller, text \in Command : Begin(c, text)

Spec == Init /\ [][Next]_vars
-----------------------------------------------------------------------------
TypeOK ==
  /\ DOMAIN detected_bulbs \subseteq IP
  /\ \A ip \in DOMAIN detected_bulbs : detected_bulbs[ip] \in Nat
  /\ DOMAIN bulb_idx2ip \subseteq Nat
  /\ \A i \in DOMAIN bulb_idx2ip : bulb_idx2ip[i] \in IP
  /\ entering \in [ip : IP, id : Nat] \cup {None, Dead}
  /\ obeyed \subseteq IP
  /\ \A c \in Caller : cmd[c].at \in {"idle", "begun", "found"}

(***************************************************************************)
(* An address that bulb_idx2ip gives is in detected_bulbs, wherever the    *)
(* lookups come between the two tables: the KeyError that nothing catches  *)
(* does not happen (py:132-133, 160-165).                                  *)
(***************************************************************************)
LookupsSucceed ==
  \A c \in Caller : cmd[c].at = "found" => cmd[c].ip \in DOMAIN detected_bulbs

(***************************************************************************)
(* All commands go to one bulb, the first that was ever heard, however     *)
(* many bulbs answer, in whatever order and again (py:121-133, 214, 225).  *)
(***************************************************************************)
OneLamp == \A a, b \in obeyed : a = b
=============================================================================
