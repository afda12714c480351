----------------------------- MODULE RoundVote -----------------------------
(***************************************************************************)
(* What the presence sensor of ultrasonic_wave.c promises, without its     *)
(* array, its reused counter, its child process or its messages: readings  *)
(* are taken in rounds of Num, only the readings of the round count, and   *)
(* the round's end decides whether somebody is at the desk.                *)
(***************************************************************************)
EXTENDS Naturals

CONSTANT Num        \* readings that count in a round (STUDYING_NUM)

VARIABLES someone,  \* somebody is close
          taken,    \* readings taken in this round
          near,     \* how many of them saw somebody
          present   \* what the last complete round decided

vars == <<someone, taken, near, present>>

Init == someone \in BOOLEAN /\ taken = 0 /\ near = 0 /\ present = FALSE

Move == someone' = ~someone /\ UNCHANGED <<taken, near, present>>

\* A reading sees whoever is close when it is taken.
Take ==
  /\ taken < Num
  /\ taken' = taken + 1
  /\ near' = near + IF someone THEN 1 ELSE 0
  /\ UNCHANGED <<someone, present>>

\* Half of the readings are enough.
Decide ==
  /\ taken = Num
  /\ present' = (near >= Num \div 2)
  /\ taken' = 0
  /\ near' = 0
  /\ UNCHANGED someone

Next == Move \/ Take \/ Decide

Spec == Init /\ [][Next]_vars
=============================================================================
