---------------------------- MODULE SensorWindow ----------------------------
(***************************************************************************)
(* The main loop of ultrasonic_wave.c: one distance reading a second into  *)
(* studying_arr, a vote when the array is full, and on a change of the     *)
(* vote the message to the light and the start or the end of the study     *)
(* program.  cnt is used as the code uses it: index of the next reading    *)
(* while measuring, sum of the readings while the vote is acted on.        *)
(*                                                                         *)
(* The voting iteration stores its reading at studying_arr[STUDYING_NUM],  *)
(* which the array does not have.  What the write hits is decided by the   *)
(* compiler: beyond is any of the objects of main whose value matters.     *)
(***************************************************************************)
EXTENDS Integers, FiniteSets

CONSTANTS Num,       \* STUDYING_NUM
          MaxProcs   \* children the process table holds; none is ever waited for

ASSUME NumAssumption == Num \in Nat \ {0}
ASSUME ProcsAssumption == MaxProcs \in Nat

VARIABLES
  someone,       \* environment: somebody is closer than 80 cm
  beyond,        \* what lies behind studying_arr: "unused", "cnt" or "is_studying"
  studying_arr,  \* the readings
  cnt,
  is_studying,
  pc,            \* where the loop stands
  told,          \* last text written to the light's FIFO
  child_pid,     \* 0 until the first fork
  spawned,       \* forks so far; pids are 1 .. spawned
  running        \* pids of the study programs alive

vars == <<someone, beyond, studying_arr, cnt, is_studying, pc, told, child_pid, spawned, running>>
window == <<beyond, studying_arr, cnt, is_studying>>
children == <<child_pid, spawned, running>>

Bit == {0, 1}
Slots == 0 .. Num - 1
PCs == {"measure", "announce", "spawn", "stop", "hung", "exited"}

NearAmong(n) == {i \in 0 .. n - 1 : studying_arr[i] = 1}
Sum == Cardinality(NearAmong(Num))

Reading == IF someone THEN 1 ELSE 0

\* What the write past the array leaves of the index and of the flag.
CntThen == IF beyond = "cnt" THEN Reading ELSE cnt
FlagThen == IF beyond = "is_studying" THEN Reading ELSE is_studying

Init ==
  /\ someone \in BOOLEAN
  /\ beyond \in {"unused", "cnt", "is_studying"}
  /\ studying_arr = [i \in Slots |-> 0]
  /\ cnt = 0
  /\ is_studying = 0
  /\ pc = "measure"
  /\ told = "nothing"
  /\ child_pid = 0
  /\ spawned = 0
  /\ running = {}
-----------------------------------------------------------------------------
\* External: the person comes or goes.
Move ==
  /\ someone' = ~someone
  /\ UNCHANGED <<window, pc, told, children>>

\* Mutant: the window is taken as full one reading too late.
MeasureTooLong ==
  /\ pc = "measure"
  /\ cnt <= Num
  /\ studying_arr' = [studying_arr EXCEPT ![cnt] = Reading]
  /\ cnt' = cnt + 1
  /\ UNCHANGED <<someone, beyond, is_studying, pc, told, children>>

\* Mutant: only readings that saw somebody are stored.
MeasureOnlyNear ==
  /\ pc = "measure"
  /\ cnt < Num
  /\ studying_arr' = IF someone THEN [studying_arr EXCEPT ![cnt] = 1] ELSE studying_arr
  /\ cnt' = cnt + 1
  /\ UNCHANGED <<someone, beyond, is_studying, pc, told, children>>

\* An iteration that only stores a reading, and delays.
Measure ==
  /\ pc = "measure"
  /\ cnt < Num
  /\ studying_arr' = [studying_arr EXCEPT ![cnt] = Reading]
  /\ cnt' = cnt + 1
  /\ UNCHANGED <<someone, beyond, is_studying, pc, told, children>>

\* Mutant: cnt is reset only when the vote has changed something.
VoteKeepsCnt ==
  /\ pc = "measure"
  /\ cnt >= Num /\ CntThen >= Num
  /\ is_studying' = FlagThen
  /\ LET present == Sum >= Num \div 2
         flips == present # (FlagThen = 1)
     IN IF flips
        THEN pc' = "announce" /\ cnt' = Sum
        ELSE UNCHANGED <<cnt, pc>>
  /\ UNCHANGED <<someone, beyond, studying_arr, told, children>>

(***************************************************************************)
(* The iteration that finds the window full.  Its reading has already gone *)
(* past the end of the array, where the sum does not see it.               *)
(***************************************************************************)
Vote ==
  /\ pc = "measure"
  /\ cnt >= Num /\ CntThen >= Num
  /\ is_studying' = FlagThen
  /\ LET present == Sum >= Num \div 2
         flips == present # (FlagThen = 1)
     IN IF flips
        THEN pc' = "announce" /\ cnt' = Sum
        ELSE cnt' = 0 /\ UNCHANGED pc
  /\ UNCHANGED <<someone, beyond, studying_arr, told, children>>

\* The write has hit cnt: the window does not look full any more.
VoteMissed ==
  /\ pc = "measure"
  /\ cnt >= Num /\ CntThen < Num
  /\ cnt' = CntThen + 1
  /\ UNCHANGED <<someone, beyond, studying_arr, is_studying, pc, told, children>>

\* Mutant: a failing fopen is ignored.
AnnounceLost ==
  /\ pc = "announce"
  /\ told' \in {told, IF is_studying = 0 THEN "ON" ELSE "OFF"}
  /\ pc' = IF is_studying = 0 THEN "spawn" ELSE "stop"
  /\ UNCHANGED <<someone, window, children>>

\* send_sigusr1_and_fifo(light_pid, "ON" or "OFF"); a failing fopen exits.
Announce ==
  /\ pc = "announce"
  /\ \/ /\ told' = IF is_studying = 0 THEN "ON" ELSE "OFF"
        /\ pc' = IF is_studying = 0 THEN "spawn" ELSE "stop"
     \/ pc' = "exited" /\ UNCHANGED told
  /\ UNCHANGED <<someone, window, children>>

\* Mutant: the pid is only stored for the first child.
SpawnKeepsFirstPid ==
  /\ pc = "spawn"
  /\ spawned < MaxProcs
  /\ spawned' = spawned + 1
  /\ child_pid' = IF child_pid = 0 THEN spawned + 1 ELSE child_pid
  /\ running' \in {running, running \cup {spawned + 1}}
  /\ is_studying' = 1
  /\ cnt' = 0
  /\ pc' = "measure"
  /\ UNCHANGED <<someone, beyond, studying_arr, told>>

\* fork, and execl of ./study_system in the child, which exits if it cannot.
Spawn ==
  /\ pc = "spawn"
  /\ spawned < MaxProcs
  /\ spawned' = spawned + 1
  /\ child_pid' = spawned + 1
  /\ running' \in {running, running \cup {spawned + 1}}
  /\ is_studying' = 1
  /\ cnt' = 0
  /\ pc' = "measure"
  /\ UNCHANGED <<someone, beyond, studying_arr, told>>

\* fork fails: at the limit, or before it because of other processes.
SpawnFails ==
  /\ pc = "spawn"
  /\ pc' = "exited"
  /\ UNCHANGED <<someone, window, told, children>>

\* Mutant: the study program is not signalled.
StopWithoutKill ==
  /\ pc = "stop"
  /\ is_studying' = 0
  /\ cnt' = 0
  /\ pc' = "measure"
  /\ UNCHANGED <<someone, beyond, studying_arr, told, children>>

\* kill(child_pid, SIGUSR1): the study program has no handler and dies.
\* A child that has ended is still a zombie, so its pid is not another's.
Stop ==
  /\ pc = "stop" /\ child_pid # 0
  /\ running' = running \ {child_pid}
  /\ is_studying' = 0
  /\ cnt' = 0
  /\ pc' = "measure"
  /\ UNCHANGED <<someone, beyond, studying_arr, told, child_pid, spawned>>

\* kill(0, SIGUSR1): the sensor signals its whole process group, and waits in
\* its own handler for a study program that will never read.
StopGroup ==
  /\ pc = "stop" /\ child_pid = 0
  /\ running' = {} /\ pc' = "hung"
  /\ UNCHANGED <<someone, window, told, child_pid, spawned>>

\* A study program ends by itself: its menu never does, but an error in it
\* exits, and Ctrl-C ends it.
StudyExits(p) ==
  /\ running' = running \ {p}
  /\ UNCHANGED <<someone, window, pc, told, child_pid, spawned>>

SensorStep ==
  Measure \/ Vote \/ VoteMissed \/ Announce \/ Spawn \/ SpawnFails \/ Stop \/ StopGroup

Next == Move \/ SensorStep \/ (\E p \in running : StudyExits(p))

Spec == Init /\ [][Next]_vars

\* The loop is the process's only thread: it is scheduled again and again.
FairSpec == Spec /\ WF_vars(SensorStep)
-----------------------------------------------------------------------------
\* The write past the array has hit nothing that is used.
Spared == beyond = "unused"

\* cnt may be Num while it is the index of the next reading, which is no slot.
TypeOK ==
  /\ someone \in BOOLEAN
  /\ beyond \in {"unused", "cnt", "is_studying"}
  /\ studying_arr \in [Slots -> Bit]
  /\ cnt \in 0 .. Num
  /\ is_studying \in Bit
  /\ pc \in PCs
  /\ told \in {"nothing", "ON", "OFF"}
  /\ spawned \in 0 .. MaxProcs
  /\ child_pid \in 0 .. spawned
  /\ running \in SUBSET (1 .. spawned)

(***************************************************************************)
(* The study program and the sensor's flag, child_pid and message agree    *)
(* although they change in different steps: at most the last child runs,   *)
(* it runs only while the sensor counts somebody as present, and the light *)
(* has been told ON before it starts (ultrasonic_wave.c:117-149).  As all  *)
(* that follows, it is said of a build that spares cnt and is_studying.    *)
(***************************************************************************)
NoStrayStudy ==
  Spared =>
    /\ running \subseteq {child_pid}
    /\ running # {} => is_studying = 1 /\ told = IF pc = "stop" THEN "OFF" ELSE "ON"

\* A sensor that stops a session signals the process it forked last, never
\* pid 0, which would be its own process group (ultrasonic_wave.c:142).
StopHitsTheChild == Spared /\ pc = "stop" => child_pid = spawned /\ child_pid > 0

(***************************************************************************)
(* The window decides what RoundVote decides, round after round: no        *)
(* reading of an earlier round and not the extra reading of the voting     *)
(* iteration reaches the sum, although the array is never cleared and cnt  *)
(* doubles as the sum (ultrasonic_wave.c:97-151).  A build that does not   *)
(* spare cnt and is_studying is taken to be at rest.                       *)
(***************************************************************************)
Taken == IF ~Spared THEN 0 ELSE IF pc = "measure" THEN cnt ELSE Num

Rounds == INSTANCE RoundVote WITH
           taken <- Taken,
           near <- Cardinality(NearAmong(Taken)),
           present <- Spared /\ is_studying = 1

VotesByRound == Rounds!Spec

\* Somebody who stays is noticed, whatever the array held before, unless the
\* sensor process ends (ultrasonic_wave.c:107-134).
Noticed == Spared /\ <>[]someone => <>[](is_studying = 1 \/ pc = "exited")

\* Somebody who leaves for good ends the session (ultrasonic_wave.c:136-150).
SessionEnds == Spared /\ <>[](~someone) => <>[](running = {} \/ pc = "exited")
=============================================================================
