------------------------- MODULE LightHandoffProofs -------------------------
(***************************************************************************)
(* Proofs about LightHandoff, for every depth of nested handlers: the type *)
(* invariant, what it takes for a handler to end the light's main thread,  *)
(* that the lamp follows the sensor as long as nothing disturbs a          *)
(* hand-off, and how often a brightness set by hand is lost.               *)
(***************************************************************************)
EXTENDS LightHandoff, SequenceTheorems, TLAPS

-----------------------------------------------------------------------------
(* A handler interrupts another only if a second signal came in between;   *)
(* only the light that is up has handlers or a pending signal.             *)
Nesting ==
  /\ l_state # "up" => frames = <<>> /\ ~sigpend
  /\ frames # <<>> /\ sigpend => crossed
  /\ Len(frames) > 1 => crossed
  /\ (\E i \in DOMAIN frames : frames[i].at = "broken") => crossed

-----------------------------------------------------------------------------
(* A sender that has signalled and not opened the FIFO yet, and one that   *)
(* holds it open.                                                          *)
Calls == s_pc = "asleep" \/ st_pc \in {"signalled", "waiting"}
Holds == s_pc = "opened" \/ st_pc = "opened"

\* The one handler that is active, if any.
Handler == frames[1]
Handles(phases) == ~sigpend /\ Len(frames) = 1 /\ Handler.at \in phases

(***************************************************************************)
(* An undisturbed exchange, step by step: the light answers the one sender *)
(* that calls; while the FIFO is open for writing and empty it waits in    *)
(* read(); and once the sender has closed it the text is in the FIFO or    *)
(* with the handler, never in both and never lost.                         *)
(***************************************************************************)
Exchange ==
  /\ ~(s_pc \in {"asleep", "opened"} /\ st_pc \in {"signalled", "waiting", "opened"})
  /\ Calls =>
       /\ data = "none"
       /\ \/ sigpend /\ frames = <<>>
          \/ /\ Handles({"entered", "opening"}) /\ Handler.buf = "none"
             /\ st_pc = "waiting" => Handler.at = "entered"
  /\ Holds => data = "none" /\ Handles({"reading"}) /\ Handler.buf = "none"
  /\ ~Calls /\ ~Holds =>
       \/ ~sigpend /\ frames = <<>> /\ data = "none"
       \/ /\ Handles({"reading"})
          /\ (data = "none") # (Handler.buf = "none")
       \/ Handles({"acting"}) /\ data = "none" /\ Handler.buf # "none"

\* What the sensor has told the light, or is about to.
Desired == IF s_pc = "sent" THEN ~is_studying ELSE is_studying
ToggleUnderWay == data = "word" \/ (frames # <<>> /\ Handler.buf = "word")

\* The light is up, and once what is under way has toggled it, it agrees with
\* the sensor.
Serving ==
  /\ l_state = "up"
  /\ Exchange
  /\ lamp <=> is_person_here
  /\ is_person_here <=> ~(Desired <=> ToggleUnderWay)

\* The light is away, and so is the person.
Away ==
  /\ l_state \in {"gone", "starting"}
  /\ s_pc = "sampling" /\ ~is_studying /\ data = "none"
  /\ ~is_person_here /\ ~lamp

Undisturbed ==
  /\ ~disturbed => Serving \/ Away
  /\ st_pc # "down" => is_studying
  /\ crossed => disturbed

IInv == TypeOK /\ Nesting /\ Undisturbed

-----------------------------------------------------------------------------
(* What the operators on the stack of handlers return.                     *)

LEMMA FramesFacts ==
  ASSUME frames \in Seq(Frame)
  PROVE  /\ Len(frames) \in Nat
         /\ DOMAIN frames = 1 .. Len(frames)
         /\ \A i \in 1 .. Len(frames) : frames[i] \in Frame
         /\ frames = <<>> <=> Len(frames) = 0
         /\ frames # <<>> => Top \in Frame
<1>1. /\ Len(frames) \in Nat
      /\ frames \in [1 .. Len(frames) -> Frame]
      /\ DOMAIN frames = 1 .. Len(frames)
  BY LenProperties
<1>2. frames = <<>> <=> Len(frames) = 0
  BY EmptySeq, <1>1
<1> QED
  BY <1>1, <1>2 DEF Top

LEMMA SetTopFacts ==
  ASSUME frames \in Seq(Frame), frames # <<>>, NEW f \in Frame
  PROVE  /\ SetTop(f) \in Seq(Frame)
         /\ Len(SetTop(f)) = Len(frames)
         /\ \A j \in 1 .. Len(frames) :
              SetTop(f)[j] = IF j = Len(frames) THEN f ELSE frames[j]
<1>1. Len(frames) \in 1 .. Len(frames)
  BY FramesFacts
<1> QED
  BY <1>1, ExceptSeq DEF SetTop

LEMMA CutFacts ==
  ASSUME frames \in Seq(Frame), NEW n \in 0 .. Len(frames)
  PROVE  /\ SubSeq(frames, 1, n) \in Seq(Frame)
         /\ Len(SubSeq(frames, 1, n)) = n
         /\ \A j \in 1 .. n : SubSeq(frames, 1, n)[j] = frames[j]
<1>1. Len(frames) \in Nat
  BY FramesFacts
<1>2. \A j \in 1 .. n : frames[j] \in Frame
  BY FramesFacts, <1>1
<1>4. /\ SubSeq(frames, 1, n) \in Seq(Frame)
      /\ Len(SubSeq(frames, 1, n)) = IF 1 <= n THEN n - 1 + 1 ELSE 0
      /\ \A i \in 1 .. n - 1 + 1 : SubSeq(frames, 1, n)[i] = frames[1 + i - 1]
  BY <1>1, <1>2, SubSeqProperties
<1> QED
  BY <1>1, <1>4

LEMMA PopFacts ==
  ASSUME frames \in Seq(Frame), frames # <<>>
  PROVE  /\ Pop \in Seq(Frame)
         /\ Len(Pop) = Len(frames) - 1
         /\ \A j \in 1 .. Len(frames) - 1 : Pop[j] = frames[j]
<1>1. Len(frames) - 1 \in 0 .. Len(frames)
  BY FramesFacts
<1> QED
  BY <1>1, CutFacts DEF Pop

LEMMA ReleasedFacts ==
  ASSUME frames \in Seq(Frame)
  PROVE  /\ Released \in Seq(Frame)
         /\ Len(Released) = Len(frames)
         /\ \A j \in 1 .. Len(frames) :
              /\ Released[j].buf = frames[j].buf
              /\ Released[j].at = IF frames[j].at = "opening" THEN "reading"
                                  ELSE frames[j].at
<1> DEFINE R(i) == IF frames[i].at = "opening"
                   THEN [frames[i] EXCEPT !.at = "reading"] ELSE frames[i]
<1>1. Len(frames) \in Nat /\ DOMAIN frames = 1 .. Len(frames)
  BY FramesFacts
<1>2. \A i \in 1 .. Len(frames) : frames[i] \in Frame
  BY FramesFacts
<1>3. \A i \in 1 .. Len(frames) :
        /\ R(i) \in Frame
        /\ R(i).buf = frames[i].buf
        /\ R(i).at = IF frames[i].at = "opening" THEN "reading" ELSE frames[i].at
  BY <1>2 DEF Frame
<1>4. Released = [i \in 1 .. Len(frames) |-> R(i)]
  BY <1>1 DEF Released
<1> HIDE DEF R
<1>5. Released \in [1 .. Len(frames) -> Frame]
  BY <1>3, <1>4
<1>6. Released \in Seq(Frame)
  BY <1>1, <1>5, SeqDef
<1>7. Len(Released) = Len(frames)
  BY <1>1, <1>5, <1>6, LenProperties
<1> QED
  BY <1>3, <1>4, <1>6, <1>7

LEMMA AppendFacts ==
  ASSUME NEW s \in Seq(Frame), NEW f \in Frame
  PROVE  /\ Append(s, f) \in Seq(Frame)
         /\ Len(Append(s, f)) = Len(s) + 1
         /\ \A j \in 1 .. Len(s) : Append(s, f)[j] = s[j]
         /\ Append(s, f)[Len(s) + 1] = f
  BY AppendProperties

-----------------------------------------------------------------------------
(* Each step leaves a stack of handlers that is none too deep.             *)
Stack == frames \in Seq(Frame) /\ Len(frames) <= MaxFrames

LEMMA EnterStack ==
  ASSUME TypeOK, Enter
  PROVE  /\ Stack'
         /\ Len(frames') = Len(frames) + 1
         /\ frames'[Len(frames) + 1] = [at |-> "entered", buf |-> "none"]
<1> DEFINE fresh == [at |-> "entered", buf |-> "none"]
<1>1. frames \in Seq(Frame) /\ Len(frames) \in Nat /\ Len(frames) < MaxFrames
  BY FramesFacts DEF TypeOK, Enter
<1>2. fresh \in Frame
  BY DEF Frame, Texts
<1>3. MaxFrames \in Nat
  BY FramesAssumption
<1>4. CASE frames # <<>> /\ Top.at = "opening"
  <2>1. [Top EXCEPT !.at = "broken"] \in Frame
    BY <1>1, <1>4, FramesFacts DEF Frame
  <2>2. /\ SetTop([Top EXCEPT !.at = "broken"]) \in Seq(Frame)
        /\ Len(SetTop([Top EXCEPT !.at = "broken"])) = Len(frames)
    BY <1>1, <1>4, <2>1, SetTopFacts
  <2>3. frames' = Append(SetTop([Top EXCEPT !.at = "broken"]), fresh)
    BY <1>4 DEF Enter
  <2> HIDE DEF fresh
  <2>4. /\ frames' \in Seq(Frame)
        /\ Len(frames') = Len(frames) + 1
        /\ frames'[Len(frames) + 1] = fresh
    BY <1>2, <2>2, <2>3, AppendFacts
  <2> QED
    BY <1>1, <1>3, <2>4 DEF Stack, fresh
<1>5. CASE ~(frames # <<>> /\ Top.at = "opening")
  <2>1. frames' = Append(frames, fresh)
    BY <1>5 DEF Enter
  <2> HIDE DEF fresh
  <2>2. /\ frames' \in Seq(Frame)
        /\ Len(frames') = Len(frames) + 1
        /\ frames'[Len(frames) + 1] = fresh
    BY <1>1, <1>2, <2>1, AppendFacts
  <2> QED
    BY <1>1, <1>3, <2>2 DEF Stack, fresh
<1> QED
  BY <1>4, <1>5

LEMMA OpenStack ==
  ASSUME TypeOK, Open
  PROVE  /\ Stack' /\ frames # <<>> /\ Len(frames') = Len(frames)
         /\ \A j \in 1 .. Len(frames) - 1 : frames'[j] = frames[j]
         /\ frames'[Len(frames)].at = IF SensorHolds \/ StudyHolds
                                      THEN "reading" ELSE "opening"
         /\ frames'[Len(frames)].buf = Top.buf
<1> DEFINE g == [Top EXCEPT !.at = IF SensorHolds \/ StudyHolds
                                   THEN "reading" ELSE "opening"]
<1>1. frames \in Seq(Frame) /\ frames # <<>> /\ Top.at = "entered" /\ frames' = SetTop(g)
  BY DEF TypeOK, Open
<1>2. Top \in Frame /\ Len(frames) \in Nat \ {0}
  BY <1>1, FramesFacts
<1>3. g \in Frame /\ g.buf = Top.buf
      /\ g.at = IF SensorHolds \/ StudyHolds THEN "reading" ELSE "opening"
  BY <1>2 DEF Frame
<1> HIDE DEF g
<1>4. /\ SetTop(g) \in Seq(Frame) /\ Len(SetTop(g)) = Len(frames)
      /\ \A j \in 1 .. Len(frames) :
           SetTop(g)[j] = IF j = Len(frames) THEN g ELSE frames[j]
  BY <1>1, <1>3, SetTopFacts
<1> QED
  BY <1>1, <1>2, <1>3, <1>4 DEF Stack, TypeOK

LEMMA ReadStack ==
  ASSUME TypeOK, Read
  PROVE  /\ Stack' /\ frames # <<>> /\ Len(frames') = Len(frames)
         /\ \A j \in 1 .. Len(frames) - 1 : frames'[j] = frames[j]
         /\ data # "none" => /\ frames'[Len(frames)].at = Top.at
                             /\ frames'[Len(frames)].buf = Join(Top.buf, data)
         /\ data = "none" => /\ frames'[Len(frames)].at = "acting"
                             /\ frames'[Len(frames)].buf = Top.buf
<1> DEFINE g == IF data # "none" THEN [Top EXCEPT !.buf = Join(@, data)]
                ELSE [Top EXCEPT !.at = "acting"]
<1>1. frames \in Seq(Frame) /\ frames # <<>> /\ frames' = SetTop(g)
  BY DEF TypeOK, Read
<1>2. Top \in Frame /\ Len(frames) \in Nat \ {0}
  BY <1>1, FramesFacts
<1>3. Join(Top.buf, data) \in Texts
  BY <1>2 DEF TypeOK, Frame, Texts, Join
<1>4. /\ g \in Frame
      /\ data # "none" => g.at = Top.at /\ g.buf = Join(Top.buf, data)
      /\ data = "none" => g.at = "acting" /\ g.buf = Top.buf
  BY <1>2, <1>3 DEF Frame
<1> HIDE DEF g
<1>5. /\ SetTop(g) \in Seq(Frame) /\ Len(SetTop(g)) = Len(frames)
      /\ \A j \in 1 .. Len(frames) :
           SetTop(g)[j] = IF j = Len(frames) THEN g ELSE frames[j]
  BY <1>1, <1>4, SetTopFacts
<1> QED
  BY <1>1, <1>2, <1>4, <1>5 DEF Stack, TypeOK

LEMMA ActStack ==
  ASSUME TypeOK, Act
  PROVE  /\ Stack' /\ frames # <<>> /\ Len(frames') = Len(frames) - 1
         /\ \A j \in 1 .. Len(frames) - 1 : frames'[j] = frames[j]
<1>1. frames \in Seq(Frame) /\ frames # <<>> /\ frames' = Pop
  BY DEF TypeOK, Act
<1>2. Len(frames) \in Nat /\ Len(frames) <= MaxFrames /\ MaxFrames \in Nat
  BY <1>1, FramesFacts, FramesAssumption DEF TypeOK
<1> QED
  BY <1>1, <1>2, PopFacts DEF Stack

LEMMA RaiseStack ==
  ASSUME TypeOK, Raise
  PROVE  Stack'
<1>1. frames \in Seq(Frame) /\ Len(frames) <= MaxFrames
  BY DEF TypeOK
<1>2. /\ Len(frames) \in Nat /\ DOMAIN frames = 1 .. Len(frames)
      /\ MaxFrames \in Nat
  BY <1>1, FramesFacts, FramesAssumption
<1>3. CASE frames' = <<>>
  BY <1>2, <1>3 DEF Stack
<1>4. CASE \E i \in {0} \cup {j \in DOMAIN frames : frames[j].at = "acting"} :
             frames' = SubSeq(frames, 1, i)
  <2>1. PICK i \in 0 .. Len(frames) : frames' = SubSeq(frames, 1, i)
    BY <1>2, <1>4
  <2>2. frames' \in Seq(Frame) /\ Len(frames') = i
    BY <1>1, <2>1, CutFacts
  <2> QED
    BY <1>1, <1>2, <2>2 DEF Stack
<1> QED
  BY <1>3, <1>4 DEF Raise

LEMMA ReleasedStack ==
  ASSUME TypeOK, frames' = Released
  PROVE  /\ Stack' /\ Len(frames') = Len(frames)
         /\ \A j \in 1 .. Len(frames) :
              /\ frames'[j].buf = frames[j].buf
              /\ frames'[j].at = IF frames[j].at = "opening" THEN "reading"
                                 ELSE frames[j].at
  BY ReleasedFacts DEF TypeOK, Stack

LEMMA SameStack ==
  ASSUME TypeOK, frames' = frames
  PROVE  Stack'
  BY DEF TypeOK, Stack

LEMMA NoStack ==
  ASSUME frames' = <<>>
  PROVE  Stack'
  BY FramesAssumption DEF Stack
-----------------------------------------------------------------------------
(* The type invariant.                                                     *)

LEMMA TypeInit ==
  ASSUME Init
  PROVE  TypeOK
<1>1. frames = <<>> /\ frames \in Seq(Frame) /\ Len(frames) = 0
  BY DEF Init
<1>2. Len(frames) <= MaxFrames
  BY <1>1, FramesAssumption
<1>3. disturbed \in BOOLEAN /\ crossed \in BOOLEAN /\ alone \in BOOLEAN
  BY DEF Init
<1> QED
  BY <1>1, <1>2, <1>3 DEF Init, TypeOK, Texts

LEMMA TextFacts ==
  ASSUME NEW a \in Texts, NEW b \in Texts, NEW held \in BOOLEAN
  PROVE  /\ Kept(a, held) \in {a, "none"} /\ Kept(a, held) \in Texts
         /\ Join(a, b) \in Texts
         /\ Join(a, b) = "none" <=> a = "none" /\ b = "none"
         /\ Join("none", b) = b
         /\ Join(a, "none") = a
         /\ Join(a, b) = "word" <=> a = "word" \/ b = "word"
  BY DEF Kept, Join, Texts

LEMMA LightKeepsType ==
  ASSUME TypeOK, LightStep
  PROVE  TypeOK'
<1> USE DEF TypeOK, sensor, flags, dimmer, ghosts
<1>1. CASE Enter
  <2>1. Stack'
    BY <1>1, EnterStack
  <2>2. /\ sigpend' \in BOOLEAN
        /\ UNCHANGED <<sensor, st_pc, data, l_state, flags, dimmer, ghosts>>
    BY <1>1 DEF Enter
  <2> QED
    BY <2>1, <2>2 DEF Stack
<1>2. CASE Open
  BY <1>2, OpenStack DEF Open, Stack
<1>3. CASE Read
  BY <1>3, ReadStack DEF Read, Stack, Texts
<1>4. CASE Act
  <2>1. Stack'
    BY <1>4, ActStack
  <2>2. /\ is_person_here' \in BOOLEAN /\ lamp' \in BOOLEAN
        /\ disturbed' \in BOOLEAN /\ is_cur_bright_changed' \in BOOLEAN
    <3>1. PICK reached \in BOOLEAN :
            IF Top.buf = "number"
            THEN /\ is_cur_bright_changed' = TRUE
                 /\ UNCHANGED <<flags, disturbed>>
            ELSE /\ is_person_here' = ~is_person_here
                 /\ lamp' = IF reached THEN ~lamp ELSE lamp
                 /\ Disturbs(~reached)
                 /\ UNCHANGED is_cur_bright_changed
      BY <1>4, Zenon DEF Act
    <3>2. lamp' \in {lamp, ~lamp} /\ is_person_here' \in {is_person_here, ~is_person_here}
      BY <3>1
    <3> QED
      BY <3>1, <3>2, Zenon DEF Disturbs
  <2>3. UNCHANGED <<sensor, st_pc, data, l_state, sigpend, m_pc, overrides, crossed, alone>>
    BY <1>4 DEF Act
  <2> QED
    BY <2>1, <2>2, <2>3 DEF Stack
<1>5. CASE Raise
  <2>1. Stack'
    BY <1>5, RaiseStack
  <2>2. /\ l_state' \in {"deaf", l_state} /\ sigpend' \in BOOLEAN
        /\ data' \in {data, "none"}
        /\ UNCHANGED <<sensor, st_pc, flags, dimmer, ghosts>>
    BY <1>5 DEF Raise, Kept
  <2> QED
    BY <2>1, <2>2 DEF Stack, Texts
<1>6. CASE Search \/ ChooseBright \/ SearchEnds
  BY <1>6 DEF Search, ChooseBright, SearchEnds, MainLoop
<1>7. CASE MainDies
  <2>1. disturbed' \in BOOLEAN
    BY <1>7 DEF MainDies, Disturbs
  <2> QED
    BY <1>7, <2>1 DEF MainDies, MainLoop
<1>8. CASE SetScheduled
  BY <1>8 DEF SetScheduled, MainLoop
<1>9. CASE LightReady
  BY <1>9 DEF LightReady
<1> QED
  BY <1>1, <1>2, <1>3, <1>4, <1>5, <1>6, <1>7, <1>8, <1>9
     DEF LightStep, HandlerStep, MainStep

LEMMA OthersKeepType ==
  ASSUME TypeOK, SendStep \/ StudyStep \/ Outside
  PROVE  TypeOK'
<1> USE DEF TypeOK, sensor, flags, dimmer, ghosts, Disturbs, Crosses
<1>1. CASE SensorOpen
  BY <1>1, ReleasedStack DEF SensorOpen, Stack
<1>2. CASE SensorWrite
  BY <1>2 DEF SensorWrite, Join, Kept, Texts
<1>3. CASE SensorSession
  BY <1>3 DEF SensorSession, Kept, Texts
<1>4. CASE StudyOpen
  BY <1>4, ReleasedStack DEF StudyOpen, Stack
<1>5. CASE StudyWrite
  <2>1. data' \in Texts
    BY <1>5 DEF StudyWrite, Join, Kept, Texts
  <2>2. disturbed' \in BOOLEAN
    BY <1>5, Zenon DEF StudyWrite
  <2>3. /\ st_pc' \in {"menu", "down"}
        /\ UNCHANGED <<sensor, l_state, sigpend, frames, flags, dimmer, crossed, alone>>
    BY <1>5 DEF StudyWrite
  <2> QED
    BY <2>1, <2>2, <2>3
<1>6. CASE Interrupt
  BY <1>6 DEF Interrupt
<1>7. CASE LightStops
  <2>1. Stack'
    BY <1>7, NoStack DEF LightStops
  <2>2. /\ l_state' = "gone" /\ sigpend' \in BOOLEAN /\ disturbed' \in BOOLEAN
        /\ alone' \in BOOLEAN
        /\ data' \in {data, "none"} /\ light_pid' \in {light_pid, "stale"}
        /\ UNCHANGED <<s_pc, is_studying, st_pc, flags, dimmer, crossed>>
    BY <1>7 DEF LightStops, Kept
  <2> QED
    BY <2>1, <2>2 DEF Stack, Texts
<1>8. CASE LightStarts
  BY <1>8 DEF LightStarts
<1>9. CASE SensorSignal
  BY <1>9 DEF SensorSignal, Signalled, Kept, Texts, LightIdle
<1>10. CASE SensorExits
  BY <1>10 DEF SensorExits
<1>11. CASE StudySignal
  <2>1. /\ st_pc' \in {"down", "signalled"} /\ l_state' \in {"gone", l_state}
        /\ UNCHANGED <<sensor, data, frames, flags, dimmer>>
    BY <1>11 DEF StudySignal, Signalled
  <2>2. sigpend' \in BOOLEAN
    BY <1>11, Zenon DEF StudySignal, Signalled
  <2>3. disturbed' \in BOOLEAN /\ crossed' \in BOOLEAN /\ alone' \in BOOLEAN
    BY <1>11 DEF StudySignal
  <2> QED
    BY <2>1, <2>2, <2>3
<1>12. CASE StudyExits
  BY <1>12 DEF StudyExits
<1> QED
  BY <1>1, <1>2, <1>3, <1>4, <1>5, <1>6, <1>7, <1>8, <1>9, <1>10, <1>11, <1>12
     DEF SendStep, StudyStep, Outside

LEMMA TypeStep ==
  ASSUME TypeOK, [Next]_vars
  PROVE  TypeOK'
<1>1. CASE UNCHANGED vars
  BY <1>1 DEF TypeOK, vars, sensor, flags, dimmer, ghosts
<1> QED
  BY <1>1, LightKeepsType, OthersKeepType DEF Next

\* Every variable keeps its type, and the nested handlers stay within the
\* bound (esp_lightWifiBulbLanCtrl.py:192-225).
THEOREM TypeCorrect == Spec => []TypeOK
<1>1. Init => TypeOK
  BY TypeInit
<1>2. TypeOK /\ [Next]_vars => TypeOK'
  BY TypeStep
<1> QED
  BY <1>1, <1>2, PTL DEF Spec

-----------------------------------------------------------------------------
(* Nesting is kept.                                                        *)

LEMMA NestingInit ==
  ASSUME Init
  PROVE  Nesting
  BY FramesFacts, TypeInit DEF Init, Nesting, TypeOK

\* Where a step only changes handlers that are not broken into others that
\* are not broken.
LEMMA NestingKept ==
  ASSUME TypeOK, Nesting, frames' \in Seq(Frame), Len(frames') <= Len(frames),
         \A j \in 1 .. Len(frames') :
           frames'[j].at = "broken" => frames[j].at = "broken",
         l_state' = l_state, sigpend' = sigpend, crossed' = crossed
  PROVE  Nesting'
<1>1. /\ Len(frames) \in Nat /\ DOMAIN frames = 1 .. Len(frames)
      /\ frames = <<>> <=> Len(frames) = 0
  BY FramesFacts DEF TypeOK
<1>2. /\ Len(frames') \in Nat /\ DOMAIN frames' = 1 .. Len(frames')
      /\ frames' = <<>> <=> Len(frames') = 0
  BY LenProperties, EmptySeq
<1>3. ASSUME NEW i \in DOMAIN frames', frames'[i].at = "broken"
      PROVE  crossed'
  BY <1>1, <1>2, <1>3 DEF Nesting
<1> QED
  BY <1>1, <1>2, <1>3 DEF Nesting

LEMMA LightKeepsNesting ==
  ASSUME TypeOK, Nesting, LightStep
  PROVE  Nesting'
<1>0. /\ Len(frames) \in Nat /\ DOMAIN frames = 1 .. Len(frames)
      /\ frames = <<>> <=> Len(frames) = 0
      /\ frames # <<>> => Top = frames[Len(frames)]
  BY FramesFacts DEF TypeOK, Top
<1>1. CASE Enter
  <2>1. /\ Stack' /\ Len(frames') = Len(frames) + 1
        /\ frames'[Len(frames) + 1] = [at |-> "entered", buf |-> "none"]
    BY <1>1, EnterStack
  <2>2. /\ l_state' = "up" /\ ~sigpend' /\ crossed' = crossed
        /\ frames # <<>> => crossed
    BY <1>1 DEF Enter, Nesting, ghosts
  <2>3. DOMAIN frames' = 1 .. Len(frames) + 1
    BY <2>1, LenProperties DEF Stack
  <2>4. CASE frames = <<>>
    BY <1>0, <2>1, <2>2, <2>3, <2>4 DEF Nesting
  <2>5. CASE frames # <<>>
    BY <2>2, <2>5 DEF Nesting
  <2> QED
    BY <2>4, <2>5
<1>2. CASE Open
  BY <1>0, <1>2, OpenStack, NestingKept DEF Open, Stack, ghosts
<1>3. CASE Read
  <2>1. \A j \in 1 .. Len(frames') : frames'[j].at = "broken" => frames[j].at = "broken"
    BY <1>0, <1>3, ReadStack DEF Read
  <2> QED
    BY <1>0, <1>3, <2>1, ReadStack, NestingKept DEF Read, Stack, ghosts
<1>4. CASE Act
  <2>1. /\ frames' \in Seq(Frame) /\ Len(frames') = Len(frames) - 1
        /\ \A j \in 1 .. Len(frames) - 1 : frames'[j] = frames[j]
    BY <1>4, ActStack DEF Stack
  <2>2. l_state' = l_state /\ sigpend' = sigpend /\ crossed' = crossed
    BY <1>4 DEF Act
  <2> QED
    BY <1>0, <2>1, <2>2, NestingKept
<1>5. CASE Raise
  <2>1. crossed
    BY <1>0, <1>5 DEF Raise, Nesting
  <2>2. /\ crossed' = crossed
        /\ l_state' = "deaf" => frames' = <<>> /\ ~sigpend'
        /\ l_state' # "deaf" => l_state' = "up"
    BY <1>0, <1>5 DEF Raise, Nesting, ghosts
  <2> QED
    BY <2>1, <2>2 DEF Nesting
<1>6. CASE MainStep
  BY <1>0, <1>6 DEF MainStep, MainLoop, Search, ChooseBright, SearchEnds, MainDies,
                    SetScheduled, Nesting, ghosts
<1>7. CASE LightReady
  BY <1>7 DEF LightReady, Nesting, ghosts
<1> QED
  BY <1>1, <1>2, <1>3, <1>4, <1>5, <1>6, <1>7 DEF LightStep, HandlerStep

LEMMA OthersKeepNesting ==
  ASSUME TypeOK, Nesting, SendStep \/ StudyStep \/ Outside
  PROVE  Nesting'
<1>1. CASE SensorOpen \/ StudyOpen
  <2>1. /\ frames' = Released /\ l_state' = l_state /\ sigpend' = sigpend
        /\ crossed' = crossed
    BY <1>1 DEF SensorOpen, StudyOpen, ghosts
  <2>2. Len(frames) \in Nat
    BY FramesFacts DEF TypeOK
  <2> QED
    BY <2>1, <2>2, ReleasedStack, NestingKept DEF Stack
<1>2. CASE SensorWrite \/ SensorSession \/ StudyWrite \/ SensorExits \/ StudyExits
  <2>1. UNCHANGED <<l_state, sigpend, frames, crossed>>
    BY <1>2 DEF SensorWrite, SensorSession, StudyWrite, SensorExits, StudyExits,
                ghosts
  <2> QED
    BY <2>1 DEF Nesting
<1>3. CASE Interrupt
  BY <1>3 DEF Interrupt, Nesting, Crosses
<1>4. CASE LightStops
  BY <1>4 DEF LightStops, Nesting
<1>5. CASE LightStarts
  BY <1>5, FramesFacts DEF LightStarts, Nesting, TypeOK
<1>6. CASE SensorSignal
  BY <1>6 DEF SensorSignal, Signalled, Crosses, Nesting, TypeOK
<1>7. CASE StudySignal
  BY <1>7 DEF StudySignal, Signalled, Crosses, Nesting, TypeOK, ghosts
<1> QED
  BY <1>1, <1>2, <1>3, <1>4, <1>5, <1>6, <1>7 DEF SendStep, StudyStep, Outside

LEMMA NestingStep ==
  ASSUME TypeOK, Nesting, [Next]_vars
  PROVE  Nesting'
<1>1. CASE UNCHANGED vars
  BY <1>1 DEF Nesting, vars, ghosts
<1> QED
  BY <1>1, LightKeepsNesting, OthersKeepNesting DEF Next

LEMMA DeathNeedsCrossing ==
  ASSUME TypeOK, Nesting, Next, frames # <<>>, l_state' = "deaf"
  PROVE  crossed
<1>1. l_state = "up"
  BY DEF Nesting
<1>2. CASE Raise
  <2>1. Len(frames) \in DOMAIN frames
    BY FramesFacts DEF TypeOK
  <2> QED
    BY <1>2, <2>1 DEF Raise, Top, Nesting
<1>3. CASE Enter \/ Open \/ Read \/ Act \/ LightReady
  BY <1>1, <1>3, Zenon DEF Enter, Open, Read, Act, LightReady
<1>4. CASE MainStep
  BY <1>4 DEF MainStep, MainLoop, Search, ChooseBright, SearchEnds, MainDies,
              SetScheduled
<1>5. CASE SendStep \/ StudyStep
  BY <1>1, <1>5 DEF SendStep, SensorOpen, SensorWrite, SensorSession, StudyStep,
                    StudyOpen, StudyWrite
<1>6. CASE Outside
  BY <1>1, <1>6 DEF Outside, Interrupt, LightStops, LightStarts, SensorSignal,
                    SensorExits, StudySignal, StudyExits, Signalled
<1> QED
  BY <1>2, <1>3, <1>4, <1>5, <1>6 DEF Next, LightStep, HandlerStep

(***************************************************************************)
(* A handler ends the light's main thread only if a signal has come while  *)
(* another was pending or being handled, whatever the sensor and the study *)
(* program do in between (esp_lightWifiBulbLanCtrl.py:197).                *)
(***************************************************************************)
THEOREM DeafNeedsTwoSignals == Spec => DeafOnlyIfCrossed
<1>1. Init => TypeOK /\ Nesting
  BY TypeInit, NestingInit
<1>2. TypeOK /\ Nesting /\ [Next]_vars => (TypeOK /\ Nesting)'
  BY TypeStep, NestingStep
<1>3. TypeOK /\ Nesting /\ [Next]_vars =>
        [frames # <<>> /\ l_state' = "deaf" => crossed]_vars
  BY DeathNeedsCrossing
<1> QED
  BY <1>1, <1>2, <1>3, PTL DEF Spec, DeafOnlyIfCrossed
-----------------------------------------------------------------------------
(* Undisturbed is kept.                                                    *)

LEMMA HandlerFacts ==
  ASSUME frames \in Seq(Frame)
  PROVE  /\ Len(frames) \in Nat
         /\ frames = <<>> <=> Len(frames) = 0
         /\ frames = <<>> => ~LightReads
         /\ Len(frames) = 1 =>
              /\ Top = Handler
              /\ Handler.at \in {"entered", "opening", "reading", "acting", "broken"}
              /\ Handler.buf \in Texts
              /\ LightReads <=> Handler.at \in {"opening", "reading"}
<1>1. /\ Len(frames) \in Nat /\ DOMAIN frames = 1 .. Len(frames)
      /\ frames = <<>> <=> Len(frames) = 0
      /\ frames # <<>> => Top \in Frame
  BY FramesFacts
<1>2. LightReads <=> \E i \in 1 .. Len(frames) : frames[i].at \in {"opening", "reading"}
  BY <1>1 DEF LightReads, ReaderFrames
<1>3. Len(frames) = 0 => ~LightReads
  BY <1>2
<1>4. Len(frames) = 1 => /\ Top = Handler
                         /\ LightReads <=> Handler.at \in {"opening", "reading"}
  BY <1>2 DEF Top, Handler
<1> QED
  BY <1>1, <1>3, <1>4 DEF Frame

LEMMA UndisturbedInit ==
  ASSUME Init
  PROVE  Undisturbed
  BY DEF Init, Undisturbed, Serving, Away, Exchange, Calls, Holds, Desired,
         ToggleUnderWay

\* Only a light that is started anew forgets that signals crossed, and only a
\* session has a study program.
LEMMA MarksStep ==
  ASSUME TypeOK, Undisturbed, Next
  PROVE  /\ crossed' => disturbed'
         /\ st_pc' # "down" => is_studying'
         /\ ~disturbed' => ~disturbed
<1>1. disturbed => disturbed'
  <2>1. LightStep => (disturbed => disturbed')
    BY Zenon DEF LightStep, HandlerStep, Enter, Open, Read, Act, Raise, MainStep,
              MainLoop, Search, ChooseBright, SearchEnds, MainDies, SetScheduled,
              LightReady, Disturbs, ghosts
  <2>2. SendStep \/ StudyStep => (disturbed => disturbed')
    BY Zenon DEF SendStep, SensorOpen, SensorWrite, SensorSession, StudyStep,
              StudyOpen, StudyWrite, Disturbs, ghosts
  <2>3. Outside => (disturbed => disturbed')
    BY Zenon DEF Outside, Interrupt, LightStops, LightStarts, SensorSignal,
              SensorExits, StudySignal, StudyExits, Disturbs, ghosts
  <2> QED
    BY <2>1, <2>2, <2>3 DEF Next
<1>2. crossed' => crossed \/ disturbed'
  <2>1. LightStep => (crossed' => crossed)
    BY Zenon DEF LightStep, HandlerStep, Enter, Open, Read, Act, Raise, MainStep,
              MainLoop, Search, ChooseBright, SearchEnds, MainDies, SetScheduled,
              LightReady, ghosts
  <2>2. SendStep \/ StudyStep => (crossed' => crossed)
    BY Zenon DEF SendStep, SensorOpen, SensorWrite, SensorSession, StudyStep,
              StudyOpen, StudyWrite, ghosts
  <2>3. Outside => (crossed' => crossed \/ disturbed')
    BY Zenon DEF Outside, Interrupt, LightStops, LightStarts, SensorSignal,
              SensorExits, StudySignal, StudyExits, Disturbs, Crosses, LightIdle, ghosts
  <2> QED
    BY <2>1, <2>2, <2>3 DEF Next
<1>3. st_pc' # "down" => is_studying'
  <2>1. LightStep => is_studying' = is_studying /\ (st_pc' = "down" <=> st_pc = "down")
    BY DEF LightStep, HandlerStep, Enter, Open, Read, Act, Raise, MainStep,
           MainLoop, Search, ChooseBright, SearchEnds, MainDies, SetScheduled,
           LightReady, sensor
  <2>2. SensorSession => (st_pc' # "down" => is_studying')
    BY Zenon DEF SensorSession, TypeOK
  <2>3. SensorOpen \/ SensorWrite \/ StudyStep \/ Outside =>
          is_studying' = is_studying /\ (st_pc = "down" => st_pc' = "down")
    BY DEF SensorOpen, SensorWrite, StudyStep, StudyOpen, StudyWrite, Outside,
           Interrupt, LightStops, LightStarts, SensorSignal, SensorExits,
           StudySignal, StudyExits, sensor
  <2> QED
    BY <2>1, <2>2, <2>3 DEF Next, SendStep, Undisturbed
<1> QED
  BY <1>1, <1>2, <1>3 DEF Undisturbed

LEMMA LightServes ==
  ASSUME TypeOK, Nesting, Undisturbed, LightStep, ~disturbed'
  PROVE  (Serving \/ Away)'
<1>1. ~disturbed /\ (st_pc # "down" => is_studying) /\ (Serving \/ Away) /\ ~crossed
  BY MarksStep DEF Next, Undisturbed
<1>2. /\ Len(frames) \in Nat
      /\ frames = <<>> <=> Len(frames) = 0
      /\ frames = <<>> => ~LightReads
      /\ Len(frames) = 1 =>
           /\ Top = Handler
           /\ Handler.at \in {"entered", "opening", "reading", "acting", "broken"}
           /\ Handler.buf \in Texts
           /\ LightReads <=> Handler.at \in {"opening", "reading"}
  BY HandlerFacts DEF TypeOK
<1>3. (frames = <<>> <=> Len(frames) = 0)'
  <2>1. Stack'
    BY TypeStep DEF Next, TypeOK, Stack
  <2> QED
    BY <2>1, EmptySeq, LenProperties DEF Stack
<1>4. frames # <<>> \/ sigpend => l_state = "up" /\ Serving
  BY <1>1 DEF Nesting, Away
<1> USE DEF Serving, Exchange, Calls, Holds, Handles, Desired, ToggleUnderWay
<1>5. CASE Enter
  <2>1. /\ Len(frames') = Len(frames) + 1
        /\ frames'[Len(frames) + 1] = [at |-> "entered", buf |-> "none"]
    BY <1>5, EnterStack
  <2>2. /\ sigpend /\ ~sigpend'
        /\ UNCHANGED <<sensor, st_pc, data, l_state, flags, dimmer, ghosts>>
    BY <1>5 DEF Enter
  <2>3. Calls /\ frames = <<>>
    BY <1>1, <1>4, <2>2
  <2>4. Len(frames') = 1 /\ frames'[1] = [at |-> "entered", buf |-> "none"]
    BY <1>2, <2>1, <2>3
  <2> QED
    BY <1>1, <1>2, <1>3, <1>4, <2>2, <2>3, <2>4 DEF sensor, flags, ghosts, Handler
<1>6. CASE Open
  <2>1. /\ frames # <<>> /\ Len(frames') = Len(frames)
        /\ frames'[Len(frames)].at = IF SensorHolds \/ StudyHolds
                                     THEN "reading" ELSE "opening"
        /\ frames'[Len(frames)].buf = Top.buf
    BY <1>6, OpenStack
  <2>2. /\ Top.at = "entered"
        /\ st_pc' = IF st_pc = "waiting" THEN "opened" ELSE st_pc
        /\ UNCHANGED <<sensor, data, l_state, sigpend, flags, dimmer, ghosts>>
    BY <1>6 DEF Open
  <2>3. Calls /\ ~Holds /\ Len(frames) = 1 /\ ~sigpend
    BY <1>1, <1>2, <1>4, <2>1, <2>2
  <2> QED
    BY <1>1, <1>2, <1>3, <1>4, <2>1, <2>2, <2>3
    DEF sensor, flags, ghosts, Handler, SensorHolds, StudyHolds
<1>7. CASE Read
  <2>1. /\ frames # <<>> /\ Len(frames') = Len(frames)
        /\ data # "none" => /\ frames'[Len(frames)].at = Top.at
                            /\ frames'[Len(frames)].buf = Join(Top.buf, data)
        /\ data = "none" => /\ frames'[Len(frames)].at = "acting"
                            /\ frames'[Len(frames)].buf = Top.buf
    BY <1>7, ReadStack
  <2>2. /\ Top.at = "reading" /\ data' = "none"
        /\ data = "none" => ~SensorHolds /\ ~StudyHolds
        /\ UNCHANGED <<sensor, st_pc, l_state, sigpend, flags, dimmer, ghosts>>
    BY <1>7 DEF Read
  <2>3. ~Calls /\ ~Holds /\ Len(frames) = 1 /\ ~sigpend
    BY <1>1, <1>2, <1>4, <2>1, <2>2 DEF SensorHolds, StudyHolds
  <2>4. data # "none" => Join(Top.buf, data) = data
    BY <1>1, <1>2, <1>4, <2>1, <2>2, <2>3 DEF Join
  <2> QED
    BY <1>1, <1>2, <1>3, <1>4, <2>1, <2>2, <2>3, <2>4 DEF sensor, flags, ghosts, Handler
<1>8. CASE Act
  <2>1. /\ frames # <<>> /\ Len(frames') = Len(frames) - 1
    BY <1>8, ActStack
  <2>2. /\ Top.at = "acting"
        /\ UNCHANGED <<sensor, st_pc, data, l_state, sigpend, m_pc, overrides, crossed, alone>>
    BY <1>8 DEF Act
  <2>3. /\ ~Calls /\ ~Holds /\ Len(frames) = 1 /\ ~sigpend
        /\ data = "none" /\ Handler.buf # "none"
    BY <1>1, <1>2, <1>4, <2>1, <2>2
  <2>4. IF Handler.buf = "number"
        THEN (is_person_here' <=> is_person_here) /\ (lamp' <=> lamp)
        ELSE (is_person_here' <=> ~is_person_here) /\ (lamp' <=> ~lamp)
    <3>1. PICK reached \in BOOLEAN :
            IF Top.buf = "number"
            THEN /\ is_cur_bright_changed' = TRUE
                 /\ UNCHANGED <<flags, disturbed>>
            ELSE /\ is_person_here' = ~is_person_here
                 /\ lamp' = IF reached THEN ~lamp ELSE lamp
                 /\ Disturbs(~reached)
                 /\ UNCHANGED is_cur_bright_changed
      BY <1>8, Zenon DEF Act
    <3>2. Top = Handler
      BY <1>2, <2>3
    <3>3. Handler.buf # "number" => reached
      BY <3>1, <3>2, Zenon DEF Disturbs
    <3>4. Handler.buf = "number" => (is_person_here' <=> is_person_here) /\ (lamp' <=> lamp)
      BY <3>1, <3>2 DEF flags
    <3>5. Handler.buf # "number" => (is_person_here' <=> ~is_person_here) /\ (lamp' <=> ~lamp)
      BY <3>1, <3>2, <3>3
    <3> QED
      BY <3>4, <3>5
  <2>5. frames' = <<>>
    BY <1>3, <2>1, <2>3
  <2> QED
    BY <1>1, <1>2, <1>4, <2>2, <2>3, <2>4, <2>5 DEF sensor, Texts
<1>9. CASE Raise
  BY <1>1, <1>2, <1>4, <1>9 DEF Raise
<1>10. CASE MainStep
  <2>1. ~MainDies
    BY DEF MainDies, Disturbs
  <2> QED
    BY <1>1, <1>10, <2>1 DEF MainStep, MainLoop, Search, ChooseBright, SearchEnds,
                             SetScheduled, sensor, flags, Away
<1>11. CASE LightReady
  BY <1>1, <1>4, <1>11 DEF LightReady, Nesting, Away, sensor, flags
<1> QED
  BY <1>5, <1>6, <1>7, <1>8, <1>9, <1>10, <1>11 DEF LightStep, HandlerStep
LEMMA SendersServed ==
  ASSUME TypeOK, Nesting, Undisturbed, SendStep \/ StudyStep, ~disturbed'
  PROVE  (Serving \/ Away)'
<1>1. ~disturbed /\ (st_pc # "down" => is_studying) /\ (Serving \/ Away)
  BY MarksStep DEF Next, Undisturbed
<1>2. /\ Len(frames) \in Nat
      /\ frames = <<>> <=> Len(frames) = 0
      /\ frames = <<>> => ~LightReads
      /\ Len(frames) = 1 =>
           /\ Top = Handler
           /\ Handler.at \in {"entered", "opening", "reading", "acting", "broken"}
           /\ Handler.buf \in Texts
           /\ LightReads <=> Handler.at \in {"opening", "reading"}
  BY HandlerFacts DEF TypeOK
<1>3. s_pc # "sampling" \/ st_pc # "down" => Serving
  BY <1>1 DEF Away
<1> USE DEF Serving, Exchange, Calls, Holds, Handles, Desired, ToggleUnderWay,
            flags, sensor, ghosts
<1>4. CASE SensorOpen
  <2>1. /\ s_pc = "asleep" /\ s_pc' = "opened" /\ frames' = Released
        /\ st_pc' = IF st_pc = "waiting" THEN "opened" ELSE st_pc
        /\ LightReads
        /\ UNCHANGED <<is_studying, light_pid, data, l_state, sigpend, flags>>
    BY <1>4 DEF SensorOpen, Disturbs
  <2>2. /\ Len(frames) = 1 /\ Handler.at = "opening" /\ data = "none"
        /\ Handler.buf = "none" /\ ~sigpend
        /\ st_pc \notin {"signalled", "waiting", "opened"}
    BY <1>1, <1>2, <1>3, <2>1
  <2>3. Len(frames') = 1 /\ frames'[1].at = "reading" /\ frames'[1].buf = "none"
    BY <2>1, <2>2, ReleasedStack DEF Handler
  <2> QED
    BY <1>2, <1>3, <2>1, <2>2, <2>3 DEF Handler
<1>5. CASE SensorWrite
  <2>1. /\ s_pc = "opened" /\ s_pc' = "sent"
        /\ data' = Kept(Join(data, "word"), LightReads \/ StudyHolds)
        /\ UNCHANGED <<is_studying, light_pid, st_pc, l_state, sigpend, frames, flags>>
    BY <1>5 DEF SensorWrite
  <2>2. /\ Handles({"reading"}) /\ data = "none" /\ Handler.buf = "none"
        /\ st_pc \notin {"signalled", "waiting", "opened"} /\ Serving
    BY <1>3, <2>1
  <2>3. data' = "word"
    BY <1>2, <2>1, <2>2 DEF Kept, Join
  <2>4. frames # <<>> /\ Handler' = Handler
    BY <1>2, <2>1, <2>2 DEF Handler
  <2> QED
    BY <1>2, <2>1, <2>2, <2>3, <2>4
<1>6. CASE SensorSession
  <2>1. /\ s_pc = "sent" /\ s_pc' = "sampling" /\ (is_studying' <=> ~is_studying)
        /\ st_pc' \in {"menu", "down"}
        /\ data' \in {data, Kept(data, LightReads)}
        /\ is_studying => st_pc \notin {"signalled", "waiting", "opened"}
        /\ UNCHANGED <<light_pid, l_state, sigpend, frames, flags>>
    BY <1>6 DEF SensorSession, Disturbs
  <2>2. ~Calls /\ ~Holds /\ Serving
    BY <1>1, <1>3, <2>1
  <2>3. data # "none" => LightReads
    BY <1>2, <2>2
  <2>4. data' = data
    BY <2>1, <2>3 DEF Kept
  <2>5. Handler' = Handler
    BY <2>1 DEF Handler
  <2> QED
    BY <2>1, <2>2, <2>4, <2>5
<1>7. CASE StudyOpen
  <2>1. /\ st_pc = "signalled" /\ frames' = Released
        /\ st_pc' = IF LightReads \/ SensorHolds THEN "opened" ELSE "waiting"
        /\ UNCHANGED <<sensor, data, l_state, sigpend, flags>>
    BY <1>7 DEF StudyOpen
  <2>2. Calls /\ ~SensorHolds /\ s_pc # "asleep" /\ Serving
    BY <1>3, <2>1 DEF SensorHolds
  <2>3. /\ Len(frames') = Len(frames)
        /\ Len(frames) = 1 => /\ frames'[1].buf = Handler.buf
                              /\ frames'[1].at = IF Handler.at = "opening" THEN "reading"
                                                 ELSE Handler.at
    BY <2>1, ReleasedStack DEF Handler
  <2>4. frames = <<>> => frames' = <<>>
    <3>1. frames' \in Seq(Frame)
      BY <2>1, ReleasedStack DEF Stack
    <3> QED
      BY <1>2, <2>3, <3>1, EmptySeq
  <2>5. frames' # <<>> => frames # <<>>
    BY <2>4
  <2> QED
    BY <1>2, <2>1, <2>2, <2>3, <2>4, <2>5 DEF Handler
<1>8. CASE StudyWrite
  <2>1. st_pc = "opened" /\ Serving /\ Handles({"reading"}) /\ LightReads
    BY <1>2, <1>3, <1>8 DEF StudyWrite
  <2>2. /\ st_pc' = "menu" /\ data' = Join(data, "number")
        /\ UNCHANGED <<sensor, l_state, sigpend, frames, flags>>
    BY <1>8, <2>1, Zenon DEF StudyWrite, Disturbs
  <2>3. data' = "number" /\ Handler' = Handler /\ frames # <<>>
    BY <1>2, <2>1, <2>2 DEF Join, Handler
  <2> QED
    BY <2>1, <2>2, <2>3
<1> QED
  BY <1>4, <1>5, <1>6, <1>7, <1>8 DEF SendStep, StudyStep

LEMMA OutsideServed ==
  ASSUME TypeOK, Nesting, Undisturbed, Outside, ~disturbed'
  PROVE  (Serving \/ Away)'
<1>1. ~disturbed /\ (st_pc # "down" => is_studying) /\ (Serving \/ Away)
  BY MarksStep DEF Next, Undisturbed
<1>2. frames = <<>> <=> Len(frames) = 0
  BY FramesFacts DEF TypeOK
<1> USE DEF Serving, Exchange, Calls, Holds, Handles, Desired, ToggleUnderWay,
            flags, sensor, ghosts
<1>3. ~(Interrupt \/ LightStops \/ SensorExits)
  BY DEF Interrupt, LightStops, SensorExits, Disturbs
<1>4. CASE LightStarts
  BY <1>1, <1>4 DEF LightStarts, Away, Disturbs
<1>5. CASE SensorSignal
  <2>1. /\ s_pc = "sampling" /\ s_pc' = "asleep" /\ light_pid # "stale" /\ LightIdle
        /\ UNCHANGED <<is_studying, light_pid, frames, flags>>
    BY <1>5 DEF SensorSignal, Disturbs
  <2>2. /\ Serving /\ ~Calls /\ ~Holds /\ data = "none"
    BY <1>1, <2>1 DEF Away, LightIdle
  <2>3. l_state' = "up" /\ sigpend' /\ st_pc' \in {st_pc, "down"} /\ data' = "none"
    BY <1>5, <2>1, <2>2 DEF SensorSignal, Signalled, LightIdle, Kept
  <2> QED
    BY <2>1, <2>2, <2>3 DEF LightIdle
<1>6. CASE StudySignal
  <2>1. Serving /\ st_pc = "menu"
    BY <1>1, <1>6 DEF StudySignal, Away
  <2>2. /\ st_pc' = "signalled" /\ LightIdle /\ Signalled
        /\ UNCHANGED <<sensor, data, frames, flags, dimmer>>
    BY <1>6, <2>1 DEF StudySignal, Disturbs
  <2>3. ~Calls /\ ~Holds /\ data = "none"
    BY <2>1, <2>2 DEF LightIdle
  <2>4. l_state' = "up" /\ sigpend'
    BY <2>2 DEF Signalled, LightIdle
  <2> QED
    BY <2>1, <2>2, <2>3, <2>4 DEF LightIdle
<1>7. CASE StudyExits
  <2>1. /\ st_pc = "menu" /\ st_pc' = "down" /\ Handler' = Handler
        /\ UNCHANGED <<sensor, data, l_state, sigpend, frames, flags>>
    BY <1>7 DEF StudyExits, Handler
  <2> QED
    BY <1>1, <2>1 DEF Away
<1> QED
  BY <1>3, <1>4, <1>5, <1>6, <1>7 DEF Outside

LEMMA UndisturbedStep ==
  ASSUME TypeOK, Nesting, Undisturbed, [Next]_vars
  PROVE  Undisturbed'
<1>1. CASE UNCHANGED vars
  BY <1>1 DEF Undisturbed, Serving, Away, Exchange, Calls, Holds, Handles, Handler,
              Desired, ToggleUnderWay, vars, sensor, flags, ghosts
<1>2. CASE Next
  <2>1. ~disturbed' => (Serving \/ Away)'
    BY <1>2, LightServes, SendersServed, OutsideServed DEF Next
  <2> QED
    BY <1>2, <2>1, MarksStep DEF Undisturbed
<1> QED
  BY <1>1, <1>2

-----------------------------------------------------------------------------
(* The theorem about the lamp.                                             *)

LEMMA Invariance == Spec => []IInv
<1>1. Init => IInv
  BY TypeInit, NestingInit, UndisturbedInit DEF IInv
<1>2. IInv /\ [Next]_vars => IInv'
  BY TypeStep, NestingStep, UndisturbedStep DEF IInv
<1> QED
  BY <1>1, <1>2, PTL DEF Spec

(***************************************************************************)
(* The light's flag and the lamp follow the sensor although every message  *)
(* only toggles them, as long as nothing disturbs a hand-off: no text is   *)
(* lost, none is read twice and none reaches the wrong handler             *)
(* (ultrasonic_wave.c:119,140, esp_lightWifiBulbLanCtrl.py:192-225).       *)
(***************************************************************************)
THEOREM LampFollowsSensor == Spec => []LampFollows
<1>1. IInv => LampFollows
  <2> SUFFICES ASSUME TypeOK, Undisturbed, ~disturbed, s_pc = "sampling", LightIdle
               PROVE  is_person_here = is_studying /\ lamp = is_studying
    BY DEF IInv, LampFollows
  <2>1. Serving /\ ~sigpend /\ frames = <<>>
    BY DEF Undisturbed, Away, LightIdle
  <2>2. Len(frames) = 0
    BY <2>1
  <2>3. ~ToggleUnderWay
    BY <2>1, <2>2 DEF Serving, Exchange, ToggleUnderWay, Handles
  <2>4. (is_person_here <=> is_studying) /\ (lamp <=> is_studying)
    BY <2>1, <2>3 DEF Serving, Desired
  <2> QED
    BY <2>4, Zenon DEF TypeOK
<1> QED
  BY <1>1, Invariance, PTL

-----------------------------------------------------------------------------
(* After an override the flag is set and nothing is chosen: no second one. *)
NoChoiceLeft ==
  /\ overrides \in {0, 1}
  /\ overrides = 1 => is_cur_bright_changed /\ m_pc # "chosen"

LEMMA ChoiceKept ==
  ASSUME NoChoiceLeft, UNCHANGED dimmer
  PROVE  NoChoiceLeft'
  BY DEF NoChoiceLeft, dimmer

LEMMA NoChoiceStep == NoChoiceLeft /\ [Next]_vars => NoChoiceLeft'
<1> SUFFICES ASSUME NoChoiceLeft, [Next]_vars PROVE NoChoiceLeft'
  OBVIOUS
<1>1. CASE Act
  <2>1. UNCHANGED <<m_pc, overrides>>
    BY <1>1 DEF Act
  <2>2. is_cur_bright_changed => is_cur_bright_changed'
    <3>1. CASE Top.buf = "number"
      BY <1>1, <3>1, Zenon DEF Act
    <3>2. CASE Top.buf # "number"
      BY <1>1, <3>2, Zenon DEF Act
    <3> QED BY <3>1, <3>2
  <2> QED BY <2>1, <2>2 DEF NoChoiceLeft
<1>2. CASE Search \/ ChooseBright \/ SearchEnds \/ MainDies
  BY <1>2 DEF Search, ChooseBright, SearchEnds, MainDies, MainLoop, NoChoiceLeft
<1>3. CASE SetScheduled
  BY <1>3 DEF SetScheduled, MainLoop, NoChoiceLeft
<1>4. CASE LightStarts
  BY <1>4 DEF LightStarts, NoChoiceLeft
<1>5. CASE Enter \/ Open \/ Read \/ Raise \/ LightReady
  <2>1. UNCHANGED dimmer
    BY <1>5 DEF Enter, Open, Read, Raise, LightReady
  <2> QED BY <2>1, ChoiceKept
<1>6. CASE SendStep \/ StudyStep
  <2>1. UNCHANGED dimmer
    BY <1>6 DEF SendStep, SensorOpen, SensorWrite, SensorSession, StudyStep, StudyOpen, StudyWrite
  <2> QED BY <2>1, ChoiceKept
<1>7. CASE Interrupt \/ LightStops \/ SensorSignal \/ SensorExits \/ StudySignal \/ StudyExits
  <2>1. UNCHANGED dimmer
    BY <1>7 DEF Interrupt, LightStops, SensorSignal, SensorExits, StudySignal, StudyExits
  <2> QED BY <2>1, ChoiceKept
<1>8. CASE UNCHANGED vars
  BY <1>8, ChoiceKept DEF vars
<1> QED
  BY <1>1, <1>2, <1>3, <1>4, <1>5, <1>6, <1>7, <1>8
     DEF Next, LightStep, HandlerStep, MainStep, Outside

(***************************************************************************)
(* A brightness set by hand loses at most to the one choice that the main  *)
(* loop had made before it, however often handlers run and whatever they   *)
(* set.                                                                    *)
(***************************************************************************)
THEOREM ManualBrightnessLosesOnce == Spec => []OverriddenOnce
<1>1. Init => NoChoiceLeft
  BY DEF Init, NoChoiceLeft
<1>2. NoChoiceLeft => OverriddenOnce
  BY DEF NoChoiceLeft, OverriddenOnce
<1> QED
  BY <1>1, <1>2, NoChoiceStep, PTL DEF Spec
=============================================================================
