----------------------------- MODULE StudyTime -----------------------------
(***************************************************************************)
(* The minutes studied.  The sensor (ultrasonic_wave.c) adds up the        *)
(* seconds of its sessions in total_sec.  The study program asks for them  *)
(* with SIGUSR1 and opens a FIFO (get_total_min, bright_control.c); the    *)
(* sensor's handler opens it too, adds what has passed since tv_start,     *)
(* moves tv_start on and writes the minutes.                               *)
(*                                                                         *)
(* The handler interrupts the sensor's main loop, which waits while the    *)
(* handler waits in open().  comm.c:127 compiles the request only with     *)
(* CONFIG_ULTRASONIC; the module is about that build.                      *)
(***************************************************************************)
EXTENDS Integers

CONSTANTS
  Minute,    \* seconds of a minute (60)
  Begin,     \* the clock when the sensor starts, in seconds since the epoch
  MaxClock   \* bound of the clock

ASSUME MinuteAssumption == Minute \in Nat \ {0}
ASSUME ClockAssumption == Begin \in Nat /\ MaxClock \in Nat /\ Begin <= MaxClock

VARIABLES
  clock,
  pc,         \* the main loop: "idle", "forked", "session", "killed", "noted"; or "ended"
  tv_start, tv_end, total_sec,
  pending,    \* a SIGUSR1 has been sent to the sensor
  handler,    \* its handler: "none", "opening", "opened", "added" or "restarted"
  prog,       \* the recognizer of the study program: "off", "running",
              \* "opening" (signal sent), "reading"
  killed,     \* the sensor's SIGUSR1 is on its way to the study program
  fifo,       \* the minutes in the FIFO, or Nothing
  info_time,  \* what get_total_min returned last
  begun, past, \* ghosts: when this session began, seconds of those before it
  lost,       \* ghost: seconds of a session between the handler's clock readings
  early,      \* ghost: a request was answered before tv_start was set
  asked       \* ghost: minutes counted when the last request was made

sensor == <<pc, tv_start, tv_end, total_sec, handler>>
program == <<prog, killed>>
ghosts == <<begun, past, lost, early, asked>>
vars == <<clock, sensor, pending, program, fifo, info_time, ghosts>>

Nothing == -1
InSession == pc \in {"session", "killed"}

\* The seconds really studied, up to now, and those of them that are counted.
Studied == past + IF InSession THEN clock - begun ELSE 0
Counted == Studied - lost

Init ==
  /\ clock = Begin /\ pc = "idle" /\ tv_start = 0 /\ tv_end = 0 /\ total_sec = 0
  /\ pending = FALSE /\ handler = "none"
  /\ prog = "off" /\ killed = FALSE /\ fifo = Nothing /\ info_time = 0
  /\ begun = 0 /\ past = 0 /\ lost = 0 /\ early = FALSE /\ asked = 0
-----------------------------------------------------------------------------
\* The main loop is held up by a handler and by a signal about to be delivered.
Main == pc # "ended" /\ handler = "none" /\ ~pending

\* The vote finds somebody: fork and execl.  The program of the last session
\* has long ended: there is a vote only every STUDYING_NUM seconds.
Spawn ==
  /\ Main /\ pc = "idle" /\ prog = "off"
  /\ pc' = "forked" /\ prog' = "running"
  /\ UNCHANGED <<clock, tv_start, tv_end, total_sec, handler, pending, killed, fifo, info_time, ghosts>>

\* The sensor notes when the session began.
SetStart ==
  /\ Main /\ pc = "forked"
  /\ pc' = "session" /\ tv_start' = clock /\ begun' = clock
  /\ UNCHANGED <<clock, tv_end, total_sec, handler, pending, program, fifo, info_time, past, lost, early, asked>>

\* The vote finds nobody: kill(child_pid, SIGUSR1).  A signal to the sensor that
\* comes during kill() is delivered when it returns.
StopKill ==
  /\ handler = "none" /\ pc = "session"
  /\ pc' = "killed" /\ killed' = (prog # "off")
  /\ UNCHANGED <<clock, tv_start, tv_end, total_sec, handler, pending, prog, fifo, info_time, ghosts>>

\* gettimeofday(&tv_end): the session is over.
StopRead ==
  /\ Main /\ pc = "killed"
  /\ pc' = "noted" /\ tv_end' = clock /\ past' = Studied
  /\ UNCHANGED <<clock, tv_start, total_sec, handler, pending, program, fifo, info_time, begun, lost, early, asked>>

\* Mutant: the difference is taken the wrong way round.
StopSubtracts ==
  /\ Main /\ pc = "noted"
  /\ pc' = "idle" /\ total_sec' = total_sec + (tv_start - tv_end)
  /\ UNCHANGED <<clock, tv_start, tv_end, handler, pending, program, fifo, info_time, ghosts>>

\* The session is added to the total.
StopAdd ==
  /\ Main /\ pc = "noted"
  /\ pc' = "idle" /\ total_sec' = total_sec + (tv_end - tv_start)
  /\ UNCHANGED <<clock, tv_start, tv_end, handler, pending, program, fifo, info_time, ghosts>>

\* The sensor ends, with its handler and the signals it has not seen.
SensorGone ==
  /\ pc' = "ended" /\ handler' = "none" /\ pending' = FALSE /\ past' = Studied
  /\ UNCHANGED <<clock, tv_start, tv_end, total_sec, program, fifo, info_time, begun, lost, early, asked>>

\* The sensor exits on an error, or somebody stops it.
SensorEnds == pc # "ended" /\ SensorGone
-----------------------------------------------------------------------------
\* sigusr1_handler begins, and waits in open() for somebody who reads.
Deliver ==
  /\ pending /\ handler = "none"
  /\ pending' = FALSE /\ handler' = "opening"
  /\ UNCHANGED <<clock, pc, tv_start, tv_end, total_sec, program, fifo, info_time, ghosts>>

\* Each of the two open() calls returns, because of the other; so may that of
\* a program which is about to die.
Meet ==
  /\ handler = "opening" /\ prog = "opening"
  /\ handler' = "opened" /\ prog' = "reading"
  /\ UNCHANGED <<clock, pc, tv_start, tv_end, total_sec, pending, killed, fifo, info_time, ghosts>>

\* The first reading of the clock, and the sum.
Add ==
  /\ handler = "opened" /\ handler' = "added"
  /\ tv_end' = clock /\ total_sec' = total_sec + (clock - tv_start)
  /\ early' = (early \/ pc = "forked")
  /\ UNCHANGED <<clock, pc, tv_start, pending, program, fifo, info_time, begun, past, lost, asked>>

\* Mutant: the time is added, and added again with the next request.
RestartForgotten ==
  /\ handler = "added" /\ handler' = "restarted"
  /\ UNCHANGED <<clock, pc, tv_start, tv_end, total_sec, pending, program, fifo, info_time, ghosts>>

\* The second reading of the clock.
Restart ==
  /\ handler = "added" /\ handler' = "restarted"
  /\ tv_start' = clock
  /\ UNCHANGED <<clock, pc, tv_end, total_sec, pending, program, fifo, info_time, ghosts>>

\* Mutant: the seconds are written, not the minutes.
WriteSeconds ==
  /\ handler = "restarted" /\ prog = "reading"
  /\ handler' = "none" /\ fifo' = total_sec
  /\ UNCHANGED <<clock, pc, tv_start, tv_end, total_sec, pending, program, info_time, ghosts>>

\* The minutes are written, and the FIFO is closed.
Write ==
  /\ handler = "restarted" /\ prog = "reading"
  /\ handler' = "none" /\ fifo' = total_sec \div Minute
  /\ UNCHANGED <<clock, pc, tv_start, tv_end, total_sec, pending, program, info_time, ghosts>>

\* Nobody has the FIFO open to read any more: write() raises SIGPIPE.
BrokenPipe == handler = "restarted" /\ prog # "reading" /\ SensorGone
-----------------------------------------------------------------------------
\* The study program executes its own instructions.
Alive(state) == prog = state /\ ~killed

\* Mutant: the program opens the FIFO without telling the sensor.
AskUnsignalled ==
  /\ Alive("running") /\ pc # "ended"
  /\ prog' = "opening" /\ asked' = Counted \div Minute
  /\ UNCHANGED <<clock, sensor, pending, killed, fifo, info_time, begun, past, lost, early>>

\* Mutant: the program does not wait for the answer.
AskDoesNotWait ==
  /\ Alive("running") /\ pc # "ended"
  /\ pending' = TRUE /\ asked' = Counted \div Minute
  /\ UNCHANGED <<clock, sensor, program, fifo, info_time, begun, past, lost, early>>

\* get_total_min: the sensor is found and signalled.
Ask ==
  /\ Alive("running") /\ pc # "ended"
  /\ prog' = "opening" /\ pending' = TRUE /\ asked' = Counted \div Minute
  /\ UNCHANGED <<clock, sensor, killed, fifo, info_time, begun, past, lost, early>>

\* get_total_min: there is no sensor.
AskNobody ==
  /\ Alive("running") /\ pc = "ended"
  /\ info_time' = -1
  /\ UNCHANGED <<clock, sensor, pending, program, fifo, ghosts>>

\* read() returns the minutes, or the end of a FIFO that was closed unwritten.
Read ==
  /\ Alive("reading") /\ (fifo # Nothing \/ handler = "none")
  /\ info_time' = IF fifo = Nothing THEN 0 ELSE fifo
  /\ prog' = "running" /\ fifo' = Nothing
  /\ UNCHANGED <<clock, sensor, pending, killed, ghosts>>

\* The program ends; what is in the FIFO is lost with its descriptor.
ProgramEnds == prog # "off" /\ prog' = "off" /\ killed' = FALSE /\ fifo' = Nothing

\* The study program exits by itself, in whatever its recognizer is.
Exit ==
  /\ ~killed /\ ProgramEnds
  /\ UNCHANGED <<clock, sensor, pending, info_time, ghosts>>

\* The sensor's signal ends it, maybe inside its own kill(), whose signal to
\* the sensor has then been sent.
Dies ==
  /\ killed /\ ProgramEnds
  /\ pending' = pending \/ (prog = "running" /\ pc # "ended" /\ pending' = TRUE)
  /\ UNCHANGED <<clock, sensor, info_time, ghosts>>

Tick ==
  /\ clock < MaxClock /\ clock' = clock + 1
  /\ lost' = IF handler = "added" /\ InSession THEN lost + 1 ELSE lost
  /\ UNCHANGED <<sensor, pending, program, fifo, info_time, begun, past, early, asked>>

HandlerStep == Deliver \/ Meet \/ Add \/ Restart \/ Write \/ BrokenPipe

Next ==
  \/ Spawn \/ SetStart \/ StopKill \/ StopRead \/ StopAdd \/ SensorEnds \/ HandlerStep
  \/ Ask \/ AskNobody \/ Read \/ Exit \/ Dies \/ Tick

\* A signal is delivered, to whichever process, and a handler that can run
\* does; so does a reader.
Spec == Init /\ [][Next]_vars /\ WF_vars(HandlerStep) /\ WF_vars(Read) /\ WF_vars(Dies)
-----------------------------------------------------------------------------
TypeOK ==
  /\ clock \in Begin .. MaxClock
  /\ pc \in {"idle", "forked", "session", "killed", "noted", "ended"}
  /\ tv_start \in 0 .. clock /\ tv_end \in 0 .. clock /\ total_sec \in Nat
  /\ pending \in BOOLEAN
  /\ handler \in {"none", "opening", "opened", "added", "restarted"}
  /\ prog \in {"off", "running", "opening", "reading"} /\ killed \in BOOLEAN
  /\ fifo \in Nat \cup {Nothing} /\ info_time \in Nat \cup {-1}
  /\ begun \in 0 .. clock /\ past \in Nat /\ lost \in Nat
  /\ early \in BOOLEAN /\ asked \in Nat

(***************************************************************************)
(* However the requests cut a session into pieces, and wherever a signal   *)
(* interrupts the main loop, no second is counted twice, and none is       *)
(* missed but those that pass between the two readings of the clock in one *)
(* answer (ultrasonic_wave.c:194, 196); unless a request was answered      *)
(* before the sensor had noted the beginning: fork comes before            *)
(* gettimeofday, and total_sec then counts from an old tv_start (122-132). *)
(***************************************************************************)
CountedOnce ==
  ~early /\ pc # "ended" =>
    CASE pc = "noted" -> total_sec + (tv_end - tv_start) = Counted
      [] InSession /\ handler # "added" -> total_sec + (clock - tv_start) = Counted
      [] OTHER -> total_sec = Counted

(***************************************************************************)
(* What get_total_min reads are at least the minutes counted when it asked *)
(* and at most those studied when it returns: no answer to an earlier      *)
(* request, nor to a program that has been killed, is left in the FIFO;    *)
(* it reads 0 if the sensor has ended (bright_control.c:303-323).  The     *)
(* exception is that of CountedOnce.                                       *)
(***************************************************************************)
AnswerIsCurrent ==
  [][~early /\ prog = "reading" /\ prog' = "running" =>
       \/ info_time' \in asked .. Studied \div Minute
       \/ pc = "ended" /\ info_time' = 0]_vars

\* A request is served, as long as the sensor goes on (bright_control.c:303-321).
Served == prog \in {"opening", "reading"} /\ pc # "ended" ~> prog \notin {"opening", "reading"} \/ pc = "ended"

(***************************************************************************)
(* The sensor's handler returns, unless the program that signalled has     *)
(* ended before its open(): the sensor then waits for a reader that only   *)
(* it could start (ultrasonic_wave.c:188).                                 *)
(***************************************************************************)
HandlerReturns ==
  handler # "none" ~> handler = "none" \/ (handler = "opening" /\ prog = "off")
=============================================================================
