-------------------------- MODULE StudyTimeProofs --------------------------
(***************************************************************************)
(* Proofs about StudyTime, for every length of a minute and every clock.   *)
(***************************************************************************)
EXTENDS StudyTime, TLAPS

\* The handler has the FIFO open.
Working == handler \in {"opened", "added", "restarted"}

\* The handler and the main loop exclude one another at the sum of a session:
\* whoever can still be answered keeps the main loop from going on.
Exclusion ==
  /\ pc = "ended" => handler = "none" /\ ~pending
  /\ pc \in {"killed", "noted", "idle"} => killed \/ prog = "off"
  /\ pc \in {"noted", "idle"} => prog # "opening" /\ ~Working
  /\ pc # "ended" /\ prog = "opening" => pending \/ handler = "opening"
  /\ pc = "noted" => tv_start <= tv_end

\* Writer and reader take turns.
Turns ==
  /\ Working => prog \in {"reading", "off"}
  /\ fifo # Nothing => prog = "reading" /\ ~Working
  /\ prog = "reading" /\ fifo = Nothing => Working \/ pc = "ended"

\* What is in the FIFO was added up after the last request.
Fresh ==
  /\ asked <= Counted \div Minute
  /\ ~early /\ handler \in {"added", "restarted"} => asked <= total_sec \div Minute
  /\ ~early /\ fifo # Nothing => fifo \in asked .. Studied \div Minute

IInv == TypeOK /\ CountedOnce /\ Exclusion /\ Turns /\ lost <= Studied /\ Fresh

\* More seconds are not fewer minutes.
LEMMA DivMonotone ==
  ASSUME NEW a \in Nat, NEW b \in Nat, a <= b
  PROVE  /\ a \div Minute \in Nat /\ b \div Minute \in Nat
         /\ a \div Minute <= b \div Minute
  BY MinuteAssumption

LEMMA Numbers ==
  ASSUME TypeOK
  PROVE  /\ clock \in Nat /\ tv_start \in Nat /\ tv_end \in Nat /\ total_sec \in Nat
         /\ begun \in Nat /\ past \in Nat /\ lost \in Nat /\ asked \in Nat
         /\ tv_start <= clock /\ tv_end <= clock /\ begun <= clock
         /\ Studied \in Nat /\ Counted \in Int
<1>1. clock \in Nat
  BY ClockAssumption DEF TypeOK
<1>2. /\ tv_start \in Nat /\ tv_end \in Nat /\ begun \in Nat
      /\ tv_start <= clock /\ tv_end <= clock /\ begun <= clock
  BY <1>1 DEF TypeOK
<1> QED BY <1>1, <1>2 DEF TypeOK, Studied, Counted

\* Seconds studied are never lost, and those counted stay counted.
LEMMA StudiedGrows ==
  ASSUME TypeOK, [Next]_vars
  PROVE  /\ Studied' \in Nat /\ lost' \in Nat
         /\ Studied <= Studied' /\ Studied - lost <= Studied' - lost'
<1>0. clock \in Nat /\ begun \in Nat /\ begun <= clock /\ past \in Nat /\ lost \in Nat
  BY Numbers
<1>1. CASE Tick
  <2>1. /\ clock' = clock + 1 /\ pc' = pc /\ past' = past /\ begun' = begun
        /\ lost' = IF handler = "added" /\ InSession THEN lost + 1 ELSE lost
    BY <1>1 DEF Tick, sensor
  <2>2. CASE InSession
    BY <1>0, <2>1, <2>2 DEF Studied, InSession
  <2>3. CASE ~InSession
    BY <1>0, <2>1, <2>3 DEF Studied, InSession
  <2> QED BY <2>2, <2>3
<1>2. CASE SensorEnds \/ BrokenPipe \/ StopRead
  <2>1. pc' \in {"ended", "noted"} /\ past' = Studied /\ lost' = lost
    BY <1>2 DEF SensorEnds, BrokenPipe, SensorGone, StopRead
  <2> QED BY <1>0, <2>1 DEF Studied, InSession
<1>3. CASE SetStart
  BY <1>0, <1>3 DEF SetStart, Studied, InSession
<1>4. CASE StopAdd \/ Spawn \/ StopKill
  BY <1>0, <1>4 DEF StopAdd, Spawn, StopKill, ghosts, Studied, InSession
<1>5. CASE \/ Deliver \/ Meet \/ Add \/ Restart \/ Write \/ Ask \/ AskNobody \/ Read \/ Exit
           \/ Dies \/ UNCHANGED vars
  <2>1. UNCHANGED <<clock, pc, begun, past, lost>>
    BY <1>5 DEF Deliver, Meet, Add, Restart, Write, Ask, AskNobody, Read, Exit, Dies, vars,
       sensor, ghosts
  <2> QED BY <1>0, <2>1 DEF Studied, InSession
<1> QED BY <1>1, <1>2, <1>3, <1>4, <1>5 DEF Next, HandlerStep

LEMMA GapStays ==
  ASSUME NEW a \in Nat, NEW b \in Nat, NEW l \in Nat, NEW m \in Nat, l <= a, a - l <= b - m
  PROVE  m <= b /\ b - m \in Nat
  OBVIOUS

LEMMA LostInv == IInv /\ [Next]_vars => lost' <= Studied'
<1> SUFFICES ASSUME IInv, [Next]_vars PROVE lost' <= Studied'
  OBVIOUS
<1>1. /\ Studied \in Nat /\ lost \in Nat /\ lost <= Studied /\ Studied' \in Nat /\ lost' \in Nat
      /\ Studied - lost <= Studied' - lost'
  BY Numbers, StudiedGrows DEF IInv
<1> QED BY <1>1, GapStays

LEMMA CountedIsNat == IInv => Counted \in Nat /\ Counted <= Studied /\ Counted \div Minute \in Nat
<1> SUFFICES ASSUME IInv
             PROVE  Counted \in Nat /\ Counted <= Studied /\ Counted \div Minute \in Nat
  OBVIOUS
<1>1. Studied \in Nat /\ lost \in Nat /\ lost <= Studied
  BY Numbers DEF IInv
<1>2. Counted \in Nat /\ Counted <= Studied
  BY <1>1 DEF Counted
<1> QED BY <1>2, DivMonotone

LEMMA InitInv == Init => IInv
<1> SUFFICES ASSUME Init PROVE IInv
  OBVIOUS
<1>1. TypeOK
  <2>1. /\ clock \in Begin .. MaxClock /\ tv_start \in 0 .. clock /\ tv_end \in 0 .. clock
        /\ begun \in 0 .. clock
    BY ClockAssumption DEF Init
  <2>2. pending \in BOOLEAN /\ early \in BOOLEAN /\ killed \in BOOLEAN
    BY DEF Init
  <2>3. /\ total_sec \in Nat /\ past \in Nat /\ asked \in Nat /\ lost \in Nat
        /\ fifo \in Nat \cup {Nothing} /\ info_time \in Nat \cup {-1}
    BY DEF Init
  <2> QED BY <2>1, <2>2, <2>3 DEF Init, TypeOK
<1>2. Studied = 0 /\ Counted = 0 /\ lost <= Studied
  BY DEF Init, Studied, Counted, InSession
<1>3. CountedOnce
  BY <1>2 DEF Init, CountedOnce, InSession
<1>4. Exclusion /\ Turns
  BY DEF Init, Exclusion, Turns, Working, Nothing
<1>5. 0 \div Minute = 0
  BY MinuteAssumption
<1>6. Fresh
  BY <1>2, <1>5 DEF Init, Fresh, Nothing
<1> QED BY <1>1, <1>2, <1>3, <1>4, <1>6 DEF IInv

LEMMA TypeInv == IInv /\ [Next]_vars => TypeOK'
<1> SUFFICES ASSUME IInv, [Next]_vars PROVE TypeOK'
  OBVIOUS
<1>0. TypeOK /\ clock \in Nat /\ Begin \in Nat /\ MaxClock \in Nat
  BY ClockAssumption, Numbers DEF IInv
<1>s. Studied \in Nat /\ total_sec \div Minute \in Nat
  BY <1>0, Numbers, DivMonotone
<1> USE <1>0 DEF TypeOK
<1>1. CASE Tick
  BY <1>1 DEF Tick, sensor, program
<1>2. CASE SensorEnds \/ BrokenPipe
  BY <1>2, <1>s DEF SensorEnds, BrokenPipe, SensorGone, program
<1>3. CASE StopRead
  BY <1>3, <1>s DEF StopRead, program
<1>4. CASE StopAdd
  <2>1. tv_start <= tv_end /\ tv_start \in Nat /\ tv_end \in Nat /\ total_sec \in Nat
    BY <1>4, Numbers DEF StopAdd, IInv, Exclusion
  <2>2. total_sec + (tv_end - tv_start) \in Nat
    BY <2>1
  <2> QED BY <1>4, <2>2 DEF StopAdd, program, ghosts
<1>5. CASE SetStart \/ Spawn
  BY <1>5 DEF SetStart, Spawn, program, ghosts
<1>k. CASE StopKill
  <2>1. killed' \in BOOLEAN
    BY <1>k DEF StopKill
  <2> QED BY <1>k, <2>1 DEF StopKill, ghosts
<1>6. CASE Deliver \/ Meet
  BY <1>6 DEF Deliver, Meet, program, ghosts
<1>r. CASE Restart
  <2>1. tv_start' \in 0 .. clock'
    BY <1>r DEF Restart
  <2> QED BY <1>r, <2>1 DEF Restart, program, ghosts
<1>7. CASE Add
  <2>1. tv_start \in Nat /\ tv_start <= clock /\ total_sec \in Nat
    BY Numbers
  <2>2. total_sec + (clock - tv_start) \in Nat
    BY <2>1
  <2>3. total_sec' \in Nat /\ tv_end' \in 0 .. clock' /\ tv_start' \in 0 .. clock'
    BY <1>7, <2>2 DEF Add
  <2>4. early' \in BOOLEAN
    BY <1>7 DEF Add
  <2> QED BY <1>7, <2>3, <2>4 DEF Add, program
<1>8. CASE Write
  BY <1>8, <1>s DEF Write, program, ghosts
<1>9. CASE Ask
  BY <1>9, CountedIsNat DEF Ask, sensor
<1>10. CASE AskNobody \/ Read
  BY <1>10 DEF AskNobody, Read, sensor, program, ghosts, Nothing
<1>e. CASE Exit
  BY <1>e DEF Exit, ProgramEnds, sensor, ghosts
<1>11. CASE Dies
  <2>1. pending' \in BOOLEAN
    BY <1>11 DEF Dies
  <2> QED BY <1>11, <2>1 DEF Dies, ProgramEnds, sensor, ghosts
<1>12. CASE UNCHANGED vars
  BY <1>12 DEF vars, sensor, program, ghosts
<1> QED BY <1>1, <1>2, <1>3, <1>4, <1>5, <1>6, <1>7, <1>8, <1>9, <1>10, <1>11, <1>12, <1>k, <1>r, <1>e
    DEF Next, HandlerStep

LEMMA CountInv == IInv /\ [Next]_vars => CountedOnce'
<1> SUFFICES ASSUME IInv, [Next]_vars PROVE CountedOnce'
  OBVIOUS
<1>0. /\ clock \in Nat /\ begun \in Nat /\ past \in Nat /\ tv_start \in Nat /\ tv_end \in Nat
      /\ total_sec \in Nat /\ lost \in Nat /\ early \in BOOLEAN /\ CountedOnce
  BY Numbers DEF IInv, TypeOK
<1> USE <1>0 DEF CountedOnce, Counted, Studied, InSession
<1>1. CASE Tick
  <2>1. /\ clock' = clock + 1 /\ UNCHANGED <<pc, tv_start, tv_end, total_sec, handler, past, begun, early>>
        /\ lost' = IF handler = "added" /\ InSession THEN lost + 1 ELSE lost
    BY <1>1 DEF Tick, sensor
  <2>2. CASE InSession /\ handler = "added"
    BY <2>1, <2>2
  <2>3. CASE InSession /\ handler # "added"
    BY <2>1, <2>3
  <2>4. CASE ~InSession
    BY <2>1, <2>4
  <2> QED BY <2>2, <2>3, <2>4
<1>2. CASE SensorEnds \/ BrokenPipe
  BY <1>2 DEF SensorEnds, BrokenPipe, SensorGone
<1>3. CASE StopRead
  BY <1>3 DEF StopRead, Main
<1>4. CASE StopAdd
  BY <1>4 DEF StopAdd, ghosts
<1>5. CASE SetStart
  BY <1>5 DEF SetStart, Main
<1>6. CASE Spawn \/ StopKill
  BY <1>6 DEF Spawn, StopKill, ghosts
<1>7. CASE Add
  <2>1. /\ UNCHANGED <<clock, pc, begun, past, lost>> /\ handler = "opened" /\ handler' = "added"
        /\ total_sec' = total_sec + (clock - tv_start)
        /\ early' = (early \/ pc = "forked")
    BY <1>7 DEF Add
  <2>2. pc \in {"forked", "session", "killed"}
    BY <2>1 DEF IInv, TypeOK, Exclusion, Working
  <2>3. CASE pc = "forked"
    BY <2>1, <2>3
  <2>4. CASE InSession
    BY <2>1, <2>4
  <2> QED BY <2>2, <2>3, <2>4
<1>8. CASE Restart
  <2>1. /\ UNCHANGED <<clock, pc, tv_end, begun, past, lost, total_sec, early>>
        /\ handler = "added" /\ handler' = "restarted" /\ tv_start' = clock
    BY <1>8 DEF Restart, ghosts
  <2>2. pc # "noted"
    BY <2>1 DEF IInv, Exclusion, Working
  <2>3. CASE InSession
    BY <2>1, <2>2, <2>3
  <2>4. CASE ~InSession
    BY <2>1, <2>2, <2>4
  <2> QED BY <2>3, <2>4
<1>9. CASE \/ Deliver \/ Meet \/ Write \/ Ask \/ AskNobody \/ Read \/ Exit \/ Dies \/ UNCHANGED vars
  <2>1. /\ UNCHANGED <<clock, pc, begun, past, lost, tv_start, tv_end, total_sec, early>>
        /\ handler' = handler \/ (handler # "added" /\ handler' # "added")
    BY <1>9 DEF Deliver, Meet, Write, Ask, AskNobody, Read, Exit, Dies, vars, sensor, ghosts
  <2> QED BY <2>1
<1> QED BY <1>1, <1>2, <1>3, <1>4, <1>5, <1>6, <1>7, <1>8, <1>9 DEF Next, HandlerStep

LEMMA ExclusionInv == IInv /\ [Next]_vars => Exclusion'
<1> SUFFICES ASSUME IInv, [Next]_vars PROVE Exclusion'
  OBVIOUS
<1>0. /\ Exclusion /\ Turns
      /\ tv_start \in Nat /\ tv_end \in Nat /\ clock \in Nat /\ tv_start <= clock
  BY Numbers DEF IInv
<1> USE <1>0 DEF Exclusion, Working
<1>1. CASE Tick \/ UNCHANGED vars
  BY <1>1 DEF Tick, vars, sensor, program
<1>2. CASE SensorEnds \/ BrokenPipe
  BY <1>2 DEF SensorEnds, BrokenPipe, SensorGone, program
<1>3. CASE SetStart \/ Spawn \/ StopKill \/ StopRead \/ StopAdd
  BY <1>3 DEF SetStart, Spawn, StopKill, StopRead, StopAdd, Main, program, ghosts
<1>4. CASE Deliver \/ Meet
  BY <1>4 DEF Deliver, Meet, program
<1>5. CASE Add \/ Restart \/ Write
  BY <1>5 DEF Add, Restart, Write, program
<1>6. CASE Ask
  BY <1>6 DEF Ask, Alive, sensor
<1>7. CASE AskNobody \/ Read
  BY <1>7 DEF AskNobody, Read, Alive, sensor, program
<1>8. CASE Exit \/ Dies
  BY <1>8 DEF Exit, Dies, ProgramEnds, sensor
<1> QED BY <1>1, <1>2, <1>3, <1>4, <1>5, <1>6, <1>7, <1>8 DEF Next, HandlerStep

LEMMA TurnsInv == IInv /\ [Next]_vars => Turns'
<1> SUFFICES ASSUME IInv, [Next]_vars PROVE Turns'
  OBVIOUS
<1>0. Turns /\ Exclusion /\ total_sec \in Nat /\ TypeOK
  BY DEF IInv, TypeOK
<1> USE <1>0 DEF Turns, Working
<1>1. CASE Tick \/ UNCHANGED vars
  BY <1>1 DEF Tick, vars, sensor, program
<1>2. CASE SensorEnds \/ BrokenPipe
  BY <1>2 DEF SensorEnds, BrokenPipe, SensorGone, program
<1>3. CASE SetStart \/ Spawn \/ StopKill \/ StopRead \/ StopAdd
  BY <1>3 DEF SetStart, Spawn, StopKill, StopRead, StopAdd, Main, program, ghosts, Exclusion
<1>4. CASE Deliver \/ Meet
  BY <1>4 DEF Deliver, Meet, program, Exclusion
<1>5. CASE Add \/ Restart
  BY <1>5 DEF Add, Restart, program
<1>6. CASE Write
  <2>1. fifo' # Nothing /\ prog' = "reading" /\ handler' = "none"
    BY <1>6, DivMonotone DEF Write, Nothing, program
  <2> QED BY <2>1
<1>7. CASE Ask \/ AskNobody
  BY <1>7 DEF Ask, AskNobody, Alive, sensor, program
<1>8. CASE Read
  BY <1>8 DEF Read, Alive, sensor
<1>9. CASE Exit \/ Dies
  BY <1>9 DEF Exit, Dies, ProgramEnds, sensor
<1> QED BY <1>1, <1>2, <1>3, <1>4, <1>5, <1>6, <1>7, <1>8, <1>9 DEF Next, HandlerStep

LEMMA FreshInv == IInv /\ [Next]_vars => Fresh'
<1> SUFFICES ASSUME IInv, [Next]_vars PROVE Fresh'
  OBVIOUS
<1> DEFINE now == Studied \div Minute
           known == Counted \div Minute
           sum == total_sec \div Minute
<1>c. /\ Studied \in Nat /\ Counted \in Nat /\ total_sec \in Nat /\ Counted <= Studied
      /\ Studied' \in Nat /\ Studied <= Studied' /\ Counted' \in Nat /\ Counted <= Counted'
  <2>1. /\ Studied \in Nat /\ lost \in Nat /\ lost <= Studied
        /\ Counted \in Nat /\ total_sec \in Nat /\ Counted <= Studied
    BY Numbers, CountedIsNat DEF IInv
  <2>2. /\ Studied' \in Nat /\ lost' \in Nat /\ Studied <= Studied'
        /\ Studied - lost <= Studied' - lost'
    BY StudiedGrows DEF IInv
  <2>3. Studied' - lost' \in Nat
    BY <2>1, <2>2, GapStays
  <2>4. Counted' \in Nat /\ Counted <= Counted'
    BY <2>2, <2>3 DEF Counted
  <2> QED BY <2>1, <2>2, <2>4
<1>0. /\ now \in Nat /\ now' \in Nat /\ now <= now'
      /\ known \in Nat /\ known' \in Nat /\ known <= known' /\ known <= now
      /\ sum \in Nat /\ asked \in Nat /\ fifo \in Nat \cup {Nothing}
  BY <1>c, DivMonotone DEF IInv, TypeOK
<1> HIDE DEF now, known, sum
<1>f. /\ asked <= known
      /\ ~early /\ handler \in {"added", "restarted"} => asked <= sum
      /\ ~early /\ fifo # Nothing => fifo \in asked .. now
  BY DEF IInv, Fresh, now, known, sum
<1>g. Fresh' <=> /\ asked' <= known'
                 /\ ~early' /\ handler' \in {"added", "restarted"} => asked' <= sum'
                 /\ ~early' /\ fifo' # Nothing => fifo' \in asked' .. now'
  BY DEF Fresh, now, known, sum
<1>1. CASE Ask
  <2>1. asked' = known /\ fifo' = Nothing /\ handler' \notin {"added", "restarted"}
    BY <1>1 DEF Ask, Alive, known, IInv, Turns, Working, sensor
  <2> QED BY <1>0, <1>g, <2>1
<1>2. CASE Add
  <2>1. /\ asked' = asked /\ fifo' = fifo /\ early' = (early \/ pc = "forked")
        /\ handler = "opened" /\ total_sec' = total_sec + (clock - tv_start)
    BY <1>2 DEF Add
  <2>2. fifo = Nothing
    BY <2>1 DEF IInv, Turns, Working
  <2>3. ASSUME ~early' PROVE sum' = known
    <3>1. InSession /\ ~early
      BY <2>1, <2>3 DEF IInv, TypeOK, Exclusion, Working, InSession
    <3>2. total_sec + (clock - tv_start) = Counted
      BY <2>1, <3>1 DEF IInv, CountedOnce, InSession
    <3> QED BY <2>1, <3>2 DEF sum, known
  <2> QED BY <1>0, <1>f, <1>g, <2>1, <2>2, <2>3
<1>3. CASE Write
  <2>1. /\ asked' = asked /\ early' = early /\ handler = "restarted" /\ handler' = "none"
        /\ fifo' = sum
    BY <1>3 DEF Write, ghosts, sum
  <2>2. ASSUME ~early PROVE sum <= now
    <3>1. pc \in {"forked", "session", "killed"}
      BY <2>1 DEF IInv, TypeOK, Exclusion, Working
    <3>2. total_sec <= Counted
      <4>1. clock \in Nat /\ tv_start \in Nat /\ tv_start <= clock
        BY Numbers DEF IInv
      <4>2. CASE InSession
        BY <1>c, <2>1, <2>2, <4>1, <4>2 DEF IInv, CountedOnce, InSession
      <4>3. CASE pc = "forked"
        BY <1>c, <2>1, <2>2, <4>3 DEF IInv, CountedOnce, InSession
      <4> QED BY <3>1, <4>2, <4>3 DEF InSession
    <3>3. total_sec <= Studied
      BY <1>c, <3>2
    <3> QED BY <1>c, <3>3, DivMonotone DEF sum, now
  <2> QED BY <1>0, <1>f, <1>g, <2>1, <2>2
<1>4. CASE Restart
  <2>1. asked' = asked /\ early' = early /\ handler = "added" /\ fifo' = fifo /\ sum' = sum
    BY <1>4 DEF Restart, ghosts, sum
  <2> QED BY <1>0, <1>f, <1>g, <2>1
<1>5. CASE ~(Ask \/ Add \/ Write \/ Restart)
  <2>1. /\ UNCHANGED <<asked, early>> /\ (fifo' = fifo \/ fifo' = Nothing)
        /\ \/ handler' = handler /\ sum' = sum
           \/ handler' \notin {"added", "restarted"}
    <3>1. CASE StopAdd
      BY <3>1 DEF StopAdd, Main, ghosts
    <3>2. CASE SensorEnds \/ BrokenPipe
      BY <3>2 DEF SensorEnds, BrokenPipe, SensorGone
    <3>3. CASE \/ Spawn \/ SetStart \/ StopKill \/ StopRead \/ Deliver \/ Meet \/ AskNobody
               \/ Read \/ Exit \/ Dies \/ Tick \/ UNCHANGED vars
      BY <3>3 DEF Spawn, SetStart, StopKill, StopRead, Deliver, Meet, AskNobody, Read, Exit,
         Dies, ProgramEnds, Tick, vars, sensor, ghosts, sum
    <3> QED BY <1>5, <3>1, <3>2, <3>3 DEF Next, HandlerStep
  <2> QED BY <1>0, <1>f, <1>g, <2>1
<1> QED BY <1>1, <1>2, <1>3, <1>4, <1>5

LEMMA Inductive == Spec => []IInv
<1>1. IInv /\ [Next]_vars => IInv'
  BY TypeInv, CountInv, ExclusionInv, TurnsInv, LostInv, FreshInv DEF IInv
<1> QED BY <1>1, InitInv, PTL DEF Spec

\* Types of the sensor's time, of the request and of the answer.
THEOREM TypeCorrect == Spec => []TypeOK
  BY Inductive, PTL DEF IInv

\* The pieces into which requests cut a session add up to the session, but for
\* the seconds that pass between the two readings of the clock of an answer.
THEOREM TimeCountedOnce == Spec => []CountedOnce
  BY Inductive, PTL DEF IInv

(***************************************************************************)
(* The handler never changes the globals tv_end, tv_start and total_sec    *)
(* while the main loop is between its reading of the clock and its sum     *)
(* (ultrasonic_wave.c:144-145).                                            *)
(***************************************************************************)
THEOREM SumUndisturbed == Spec => [](pc = "noted" => handler \in {"none", "opening"})
<1>1. IInv => (pc = "noted" => handler \in {"none", "opening"})
  BY DEF IInv, TypeOK, Exclusion, Working
<1> QED BY <1>1, Inductive, PTL

\* No answer is older than its request, or from beyond its return.
THEOREM AnswersAreCurrent == Spec => AnswerIsCurrent
<1> DEFINE A == ~early /\ prog = "reading" /\ prog' = "running" =>
                  \/ info_time' \in asked .. Studied \div Minute
                  \/ pc = "ended" /\ info_time' = 0
<1>1. ASSUME IInv, [Next]_vars PROVE [A]_vars
  <2>1. CASE Read
    <3>1. CASE fifo = Nothing
      BY <1>1, <2>1, <3>1 DEF Read, Alive, IInv, Turns, Working
    <3>2. CASE fifo # Nothing
      BY <1>1, <2>1, <3>2 DEF Read, IInv, Fresh
    <3> QED BY <3>1, <3>2
  <2>2. CASE ~Read
    <3>1. ~(prog = "reading" /\ prog' = "running")
      BY <1>1, <2>2 DEF Next, HandlerStep, Spawn, SetStart, StopKill, StopRead, StopAdd, SensorEnds,
         SensorGone, Deliver, Meet, Add, Restart, Write, BrokenPipe, Ask, AskNobody, Exit, Dies,
         ProgramEnds, Tick, Alive, vars, program
    <3> QED BY <3>1
  <2> QED BY <2>1, <2>2
<1> QED BY <1>1, Inductive, PTL DEF Spec, AnswerIsCurrent
=============================================================================
