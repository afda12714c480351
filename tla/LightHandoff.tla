---------------------------- MODULE LightHandoff ----------------------------
(***************************************************************************)
(* How the sensor (ultrasonic_wave.c) and the study program                *)
(* (bright_control.c) hand a message to the light controller               *)
(* (esp_lightWifiBulbLanCtrl.py): a SIGUSR1 that only says "read the FIFO",*)
(* then a text in /tmp/fifo_light.  A number is a brightness; any other    *)
(* text, ON and OFF alike, toggles.                                        *)
(*                                                                         *)
(* The light is Python 2: its handler runs in the main thread between two  *)
(* bytecodes, pending signals coalesce, a handler can interrupt a handler, *)
(* and an interrupted open() raises IOError once the nested handler ends.  *)
(* A FIFO opened for reading waits for a writer and the other way round;   *)
(* the sensor's "w+" is O_RDWR, which is both and waits for nobody.  What  *)
(* was written is lost when the last descriptor closes.                    *)
(***************************************************************************)
EXTENDS Naturals, Sequences

CONSTANT MaxFrames   \* bound: handler activations nested in the main thread

ASSUME FramesAssumption == MaxFrames \in Nat \ {0}

VARIABLES
  s_pc, is_studying,         \* the sensor's loop
  light_pid,                 \* its pid of the light: looked up once, at start
  st_pc,                     \* the study program
  data,                      \* contents of the FIFO
  l_state,                   \* the light process
  sigpend, frames,           \* its pending SIGUSR1 and its active handlers
  is_person_here, lamp,      \* its flag, and whether the bulb is lit
  is_cur_bright_changed, m_pc, overrides,  \* brightness: manual or scheduled
  disturbed, crossed, alone  \* ghosts: see Disturbs

sensor == <<s_pc, is_studying, light_pid>>
flags == <<is_person_here, lamp>>
dimmer == <<is_cur_bright_changed, m_pc, overrides>>
ghosts == <<disturbed, crossed, alone>>
vars == <<sensor, st_pc, data, l_state, sigpend, frames, flags, dimmer, ghosts>>

Texts == {"none", "number", "word"}
\* Mutant: the pieces read are kept apart.
JoinPieces(a, b) == <<a, b>>
\* What int() makes of two texts read one after the other.
Join(a, b) == IF a = "none" THEN b ELSE IF b = "none" THEN a
              ELSE IF a = "word" \/ b = "word" THEN "word" ELSE "number"

Frame == [at : {"entered", "opening", "reading", "acting", "broken"}, buf : Texts]

Init ==
  /\ s_pc = "sampling" /\ is_studying = FALSE
  /\ l_state \in {"gone", "up"}
  /\ light_pid = IF l_state = "gone" THEN "none" ELSE "live"
  /\ st_pc = "down"
  /\ data = "none"
  /\ sigpend = FALSE /\ frames = <<>>
  /\ is_person_here = FALSE /\ lamp \in BOOLEAN
  /\ is_cur_bright_changed = FALSE /\ m_pc = "idle" /\ overrides = 0
  /\ disturbed = lamp /\ crossed = FALSE /\ alone = FALSE
-----------------------------------------------------------------------------
(* The FIFO. *)

Top == frames[Len(frames)]
SetTop(f) == [frames EXCEPT ![Len(frames)] = f]
Pop == SubSeq(frames, 1, Len(frames) - 1)

ReaderFrames(fs) == {i \in DOMAIN fs : fs[i].at \in {"opening", "reading"}}
LightReads == ReaderFrames(frames) # {}
SensorHolds == s_pc = "opened"
SensorCalls == s_pc \in {"asleep", "opened"}   \* its message is under way
StudyHolds == st_pc \in {"waiting", "opened"}

\* A writer that opens releases the handler blocked in open().
Released == [i \in DOMAIN frames |->
               IF frames[i].at = "opening" THEN [frames[i] EXCEPT !.at = "reading"]
               ELSE frames[i]]
\* The text that is left once descriptors are closed and `held' says whether
\* another one is open.
Kept(text, held) == IF held THEN text ELSE "none"
-----------------------------------------------------------------------------
(* The light process. *)

LightIdle == l_state = "up" /\ ~sigpend /\ frames = <<>>

\* kill() on the light: it dies of it before the handlers are installed, and
\* does not notice once its main thread has died.
Signalled ==
  /\ l_state' = IF l_state = "starting" THEN "gone" ELSE l_state
  /\ sigpend' = IF l_state = "up" THEN TRUE ELSE sigpend

(***************************************************************************)
(* Ghosts.  A signal that does not find the light idle, a text sent before *)
(* the light waits for it, a sender that ends between its signal and its   *)
(* text, a word typed at the study program's menu, a lamp that is lit when *)
(* the light starts, and a command that misses the bulb disturb the        *)
(* hand-off, for good.  crossed records that a second signal came while    *)
(* the first was pending or being handled.  alone is about the study       *)
(* program's current request: its signal found the light idle and the      *)
(* sensor without a message under way, and neither another signal nor the  *)
(* end of the light has come since.                                        *)
(***************************************************************************)
Disturbs(b) == disturbed' = (disturbed \/ b)
Crosses(b) == crossed' = (crossed \/ b)

\* sigusr1_handler starts, in the middle of the one that is active, if any.
Enter ==
  /\ l_state = "up" /\ sigpend
  /\ Len(frames) < MaxFrames
  /\ sigpend' = FALSE
  /\ LET fresh == [at |-> "entered", buf |-> "none"]
     IN frames' = IF frames # <<>> /\ Top.at = "opening"
                  THEN Append(SetTop([Top EXCEPT !.at = "broken"]), fresh)
                  ELSE Append(frames, fresh)
  /\ UNCHANGED <<sensor, st_pc, data, l_state, flags, dimmer, ghosts>>

\* open("/tmp/fifo_light"): waits, unless a writer is there.
Open ==
  /\ frames # <<>> /\ Top.at = "entered"
  /\ frames' = SetTop([Top EXCEPT !.at = IF SensorHolds \/ StudyHolds
                                         THEN "reading" ELSE "opening"])
  /\ st_pc' = IF st_pc = "waiting" THEN "opened" ELSE st_pc
  /\ UNCHANGED <<sensor, data, l_state, sigpend, flags, dimmer, ghosts>>

\* f.read() returns only at the end of file: no text and no writer left.
Read ==
  /\ frames # <<>> /\ Top.at = "reading"
  /\ IF data # "none"
     THEN /\ frames' = SetTop([Top EXCEPT !.buf = Join(@, data)])
          /\ data' = "none"
     ELSE /\ ~SensorHolds /\ ~StudyHolds
          /\ frames' = SetTop([Top EXCEPT !.at = "acting"])
          /\ UNCHANGED data
  /\ UNCHANGED <<sensor, st_pc, l_state, sigpend, flags, dimmer, ghosts>>

\* Mutant: a number also takes the branch that toggles.
ActTogglesToo ==
  /\ frames # <<>> /\ Top.at = "acting"
  /\ frames' = Pop
  /\ is_cur_bright_changed' = (is_cur_bright_changed \/ Top.buf = "number")
  /\ is_person_here' = ~is_person_here
  /\ lamp' = ~lamp
  /\ UNCHANGED <<sensor, st_pc, data, l_state, sigpend, m_pc, overrides, ghosts>>

\* A number sets the brightness; all else, the empty text too, toggles.  A
\* command that does not reach the bulb is only printed.
Act ==
  /\ frames # <<>> /\ Top.at = "acting"
  /\ frames' = Pop
  /\ \E reached \in BOOLEAN :
       IF Top.buf = "number"
       THEN /\ is_cur_bright_changed' = TRUE
            /\ UNCHANGED <<flags, disturbed>>
       ELSE /\ is_person_here' = ~is_person_here
            /\ lamp' = IF reached THEN ~lamp ELSE lamp
            /\ Disturbs(~reached)
            /\ UNCHANGED is_cur_bright_changed
  /\ UNCHANGED <<sensor, st_pc, data, l_state, sigpend, m_pc, overrides,
                 crossed, alone>>

(***************************************************************************)
(* The IOError of the interrupted open().  It ends the main thread, or is  *)
(* swallowed by operate_on_bulb's "except Exception" if that is what the   *)
(* handler had interrupted: in the main loop or in a handler below.  With  *)
(* the main thread dead the process lives on in the detection thread.      *)
(***************************************************************************)
Raise ==
  /\ frames # <<>> /\ Top.at = "broken"
  /\ \/ l_state' = "deaf" /\ frames' = <<>> /\ sigpend' = FALSE
     \/ /\ \E i \in {0} \cup {j \in DOMAIN frames : frames[j].at = "acting"} :
             frames' = SubSeq(frames, 1, i)
        /\ UNCHANGED <<l_state, sigpend>>
  /\ data' = Kept(data, SensorHolds \/ StudyHolds \/ ReaderFrames(frames') # {})
  /\ UNCHANGED <<sensor, st_pc, flags, dimmer, ghosts>>

\* A step of the main loop: no handler is active.
MainLoop ==
  /\ l_state = "up" /\ frames = <<>>
  /\ UNCHANGED <<sensor, st_pc, data, frames, flags, is_cur_bright_changed>>

\* handle_user_input sees somebody and opens the schedule; it does not look
\* at the flag again.
Search ==
  /\ MainLoop
  /\ m_pc = "idle" /\ is_person_here
  /\ m_pc' = "searching"
  /\ UNCHANGED <<l_state, sigpend, overrides, ghosts>>

\* Mutant: a brightness set by hand is not looked at.
ChooseAlways ==
  /\ MainLoop
  /\ m_pc = "searching"
  /\ m_pc' = "chosen"
  /\ UNCHANGED <<l_state, sigpend, overrides, ghosts>>

\* It finds the subject and sees that no brightness was set by hand ...
ChooseBright ==
  /\ MainLoop
  /\ m_pc = "searching" /\ ~is_cur_bright_changed
  /\ m_pc' = "chosen"
  /\ UNCHANGED <<l_state, sigpend, overrides, ghosts>>

\* ... or one was, or no subject is found.
SearchEnds ==
  /\ MainLoop
  /\ m_pc = "searching" /\ m_pc' = "idle"
  /\ UNCHANGED <<l_state, sigpend, overrides, ghosts>>

\* A file is missing, a line of it is short or its brightness is no number:
\* nobody catches that, and it ends the main thread as Raise does.
MainDies ==
  /\ MainLoop
  /\ m_pc = "searching" /\ m_pc' = "idle"
  /\ l_state' = "deaf" /\ sigpend' = FALSE
  /\ Disturbs(TRUE)
  /\ UNCHANGED <<overrides, crossed, alone>>

\* A choice made is carried out; a handler may have run in between.
SetScheduled ==
  /\ MainLoop
  /\ m_pc = "chosen"
  /\ m_pc' = "idle"
  /\ overrides' = IF is_cur_bright_changed THEN overrides + 1 ELSE overrides
  /\ UNCHANGED <<l_state, sigpend, ghosts>>

\* Ctrl-C: SIGINT has the same handler and nobody has written anything.  It
\* and a SIGUSR1 that is pending already are taken as one.
Interrupt ==
  /\ l_state = "up" /\ sigpend' = TRUE
  /\ Disturbs(TRUE) /\ Crosses(sigpend \/ frames # <<>>)
  /\ alone' = FALSE
  /\ UNCHANGED <<sensor, st_pc, data, l_state, frames, flags, dimmer>>

\* The light is killed, or started, by hand.
LightStops ==
  /\ l_state # "gone" /\ l_state' = "gone"
  /\ frames' = <<>> /\ sigpend' = FALSE
  /\ data' = Kept(data, SensorHolds \/ StudyHolds)
  /\ light_pid' = IF light_pid = "live" THEN "stale" ELSE light_pid
  /\ Disturbs(TRUE) /\ alone' = FALSE
  /\ UNCHANGED <<s_pc, is_studying, st_pc, flags, dimmer, crossed>>

LightStarts ==
  /\ l_state = "gone" /\ l_state' = "starting"
  /\ is_person_here' = FALSE
  /\ is_cur_bright_changed' = FALSE /\ m_pc' = "idle" /\ overrides' = 0
  /\ crossed' = FALSE
  /\ Disturbs(is_studying \/ s_pc # "sampling" \/ lamp)
  /\ UNCHANGED <<sensor, st_pc, data, sigpend, frames, lamp, alone>>

LightReady ==
  /\ l_state = "starting" /\ l_state' = "up"
  /\ UNCHANGED <<sensor, st_pc, data, sigpend, frames, flags, dimmer, ghosts>>
-----------------------------------------------------------------------------
(* The sensor. *)

\* The vote changes: kill(light_pid, SIGUSR1), which fails unnoticed if the
\* pid is gone, and reaches every process if the lookup had returned -1.
SensorSignal ==
  /\ s_pc = "sampling" /\ s_pc' = "asleep"
  /\ IF light_pid = "stale" THEN UNCHANGED <<l_state, sigpend>> ELSE Signalled
  /\ st_pc' = IF light_pid = "none" THEN "down" ELSE st_pc
  /\ data' = IF light_pid = "none" THEN Kept(data, LightReads) ELSE data
  /\ Disturbs(light_pid = "stale" \/ ~LightIdle)
  /\ Crosses(light_pid # "stale" /\ (sigpend \/ frames # <<>>))
  /\ alone' = FALSE
  /\ UNCHANGED <<is_studying, light_pid, frames, flags, dimmer>>

\* Mutant: the signal is sent again before the text.
SensorOpenSignals ==
  /\ s_pc = "asleep" /\ s_pc' = "opened"
  /\ sigpend' = (l_state = "up")
  /\ Disturbs(~LightReads)
  /\ UNCHANGED <<is_studying, light_pid, data, l_state, st_pc, frames, flags,
                 dimmer, crossed, alone>>

\* Mutant: the FIFO is opened "w", write-only.
SensorOpenWaits ==
  /\ s_pc = "asleep" /\ s_pc' = "opened"
  /\ LightReads
  /\ frames' = Released
  /\ UNCHANGED <<is_studying, light_pid, st_pc, data, l_state, sigpend, flags, dimmer, ghosts>>

\* After sleep(1): fopen(FIFO_LIGHT, "w+"), which releases all that wait.
SensorOpen ==
  /\ s_pc = "asleep" /\ s_pc' = "opened"
  /\ frames' = Released
  /\ st_pc' = IF st_pc = "waiting" THEN "opened" ELSE st_pc
  /\ Disturbs(~LightReads)
  /\ UNCHANGED <<is_studying, light_pid, data, l_state, sigpend, flags,
                 dimmer, crossed, alone>>

\* fclose writes ON or OFF and closes.
SensorWrite ==
  /\ s_pc = "opened" /\ s_pc' = "sent"
  /\ data' = Kept(Join(data, "word"), LightReads \/ StudyHolds)
  /\ UNCHANGED <<is_studying, light_pid, st_pc, l_state, sigpend, frames, flags,
                 dimmer, ghosts>>

\* fork and execl of the study program, which may fail to start, or
\* kill(child_pid, SIGUSR1), which ends it wherever it is.
SensorSession ==
  /\ s_pc = "sent" /\ s_pc' = "sampling"
  /\ is_studying' = ~is_studying
  /\ IF is_studying
     THEN st_pc' = "down" /\ data' = Kept(data, LightReads)
     ELSE st_pc' \in {"menu", "down"} /\ UNCHANGED data
  /\ Disturbs(is_studying /\ st_pc \in {"signalled", "waiting", "opened"})
  /\ UNCHANGED <<light_pid, l_state, sigpend, frames, flags, dimmer, crossed, alone>>

\* exit(1): fopen fails, or fork fails.
SensorExits ==
  /\ s_pc = "asleep" \/ (s_pc = "sent" /\ ~is_studying)
  /\ s_pc' = "exited"
  /\ Disturbs(TRUE)
  /\ UNCHANGED <<is_studying, light_pid, st_pc, data, l_state, sigpend, frames,
                 flags, dimmer, crossed, alone>>
-----------------------------------------------------------------------------
(* The study program: set_current_light_bright. *)


\* get_process_id and kill; without a light it exits.
StudySignal ==
  /\ st_pc = "menu"
  /\ IF l_state = "gone"
     THEN st_pc' = "down" /\ UNCHANGED <<l_state, sigpend, ghosts>>
     ELSE /\ st_pc' = "signalled"
          /\ Signalled
          /\ Disturbs(~LightIdle)
          /\ Crosses(sigpend \/ frames # <<>>)
          /\ alone' = (LightIdle /\ ~SensorCalls)
  /\ UNCHANGED <<sensor, data, frames, flags, dimmer>>

\* fopen(FIFO_FILE, "w") waits for a reader, which the sensor can be.
StudyOpen ==
  /\ st_pc = "signalled"
  /\ st_pc' = IF LightReads \/ SensorHolds THEN "opened" ELSE "waiting"
  /\ frames' = Released
  /\ UNCHANGED <<sensor, data, l_state, sigpend, flags, dimmer, ghosts>>

\* fclose writes what was typed; SIGPIPE ends the program if the reader has
\* gone.
StudyWrite ==
  /\ st_pc = "opened"
  /\ IF LightReads \/ SensorHolds
     THEN /\ st_pc' = "menu"
          /\ \E typed \in {"number", "word"} :
               data' = Join(data, typed) /\ Disturbs(typed = "word")
     ELSE st_pc' = "down" /\ data' = Kept(data, FALSE) /\ UNCHANGED disturbed
  /\ UNCHANGED <<sensor, l_state, sigpend, frames, flags, dimmer, crossed, alone>>

\* An error ends it, or Ctrl-C.
StudyExits ==
  /\ st_pc = "menu" /\ st_pc' = "down"
  /\ UNCHANGED <<sensor, data, l_state, sigpend, frames, flags, dimmer, ghosts>>
-----------------------------------------------------------------------------
HandlerStep == Enter \/ Open \/ Read \/ Act \/ Raise
MainStep == Search \/ ChooseBright \/ SearchEnds \/ MainDies \/ SetScheduled
LightStep == HandlerStep \/ MainStep \/ LightReady
SendStep == SensorOpen \/ SensorWrite \/ SensorSession
StudyStep == StudyOpen \/ StudyWrite
Outside == Interrupt \/ LightStops \/ LightStarts \/ SensorSignal \/ SensorExits
             \/ StudySignal \/ StudyExits

Next == LightStep \/ SendStep \/ StudyStep \/ Outside

Spec == Init /\ [][Next]_vars

(***************************************************************************)
(* Each process runs whenever it is not blocked, and Python runs a pending *)
(* handler before it goes on with the main loop.  Nobody has to come or    *)
(* go, use the menu, or start the light.                                   *)
(***************************************************************************)
FairSpec == Spec /\ WF_vars(HandlerStep) /\ WF_vars(SendStep) /\ WF_vars(StudyStep)
-----------------------------------------------------------------------------
TypeOK ==
  /\ s_pc \in {"sampling", "asleep", "opened", "sent", "exited"}
  /\ is_studying \in BOOLEAN
  /\ light_pid \in {"live", "stale", "none"}
  /\ st_pc \in {"down", "menu", "signalled", "waiting", "opened"}
  /\ data \in Texts
  /\ l_state \in {"gone", "starting", "up", "deaf"}
  /\ sigpend \in BOOLEAN
  /\ frames \in Seq(Frame) /\ Len(frames) <= MaxFrames
  /\ is_person_here \in BOOLEAN /\ lamp \in BOOLEAN
  /\ is_cur_bright_changed \in BOOLEAN
  /\ m_pc \in {"idle", "searching", "chosen"}
  /\ overrides \in Nat
  /\ disturbed \in BOOLEAN /\ crossed \in BOOLEAN /\ alone \in BOOLEAN

(***************************************************************************)
(* The light's flag and the lamp follow the sensor although every message  *)
(* only toggles them: as long as nothing that Disturbs lists has happened, *)
(* they agree with is_studying whenever both sides are between messages    *)
(* (ultrasonic_wave.c:119,140, esp_lightWifiBulbLanCtrl.py:192-225).       *)
(***************************************************************************)
LampFollows ==
  ~disturbed /\ s_pc = "sampling" /\ LightIdle =>
    is_person_here = is_studying /\ lamp = is_studying

(***************************************************************************)
(* A handler ends the light's main thread only if a signal has come while  *)
(* another was pending or being handled: never one exchange alone, however *)
(* its steps, a dying study program or a failing sensor interleave with it *)
(* (esp_lightWifiBulbLanCtrl.py:197).  What the main loop dies of outside  *)
(* a handler is its own files (MainDies).                                  *)
(***************************************************************************)
DeafOnlyIfCrossed ==
  [][frames # <<>> /\ l_state' = "deaf" => crossed]_vars

\* A brightness set by hand loses to the schedule once at most, to a choice
\* made before it (esp_lightWifiBulbLanCtrl.py:211-212,240-243).
OverriddenOnce == overrides <= 1

(***************************************************************************)
(* Whatever state the light is in, the sensor comes back to sampling: it   *)
(* never waits for a reader of the FIFO (ultrasonic_wave.c:160-182).       *)
(***************************************************************************)
SensorReturns == s_pc # "sampling" ~> s_pc \in {"sampling", "exited"}

=============================================================================
