-------------------------- MODULE MCScheduleOrder --------------------------
(***************************************************************************)
(* A file with any schedule of at most MaxLen entries, in any order, is    *)
(* re-aligned as register_sched does and changed as change_sched does, any *)
(* number of times, and read by both programs at any point of that.        *)
(***************************************************************************)
EXTENDS ScheduleOrder, FiniteSets

VARIABLES list, stage, clock, subject, lit

ovars == <<list, stage, clock, subject, lit>>

OrderInit ==
  /\ list \in Files
  /\ stage = "typed" /\ clock = <<>> /\ subject = "unread" /\ lit = "unread"

Realign ==
  /\ stage # "read" /\ stage' = "ordered"
  /\ list' = Aligned(list)
  /\ UNCHANGED <<clock, subject, lit>>

\* change_sched re-aligns what it has read and then gives the last entry of
\* the date and subject asked for a new subject and time; what it writes is
\* not re-aligned again.
Change ==
  /\ stage # "read" /\ stage' = "changed"
  /\ LET a == Aligned(list)
     IN \E k \in DOMAIN list, name \in Names, time \in Times :
          /\ \A m \in k + 1 .. Len(list) :
               a[m].date # a[k].date \/ a[m].name # a[k].name
          /\ list' = [a EXCEPT ![k] = [date |-> a[k].date, time |-> time, name |-> name]]
  /\ UNCHANGED <<clock, subject, lit>>

\* cur_subject and the light's search, each of its own reading of the file.
Follow ==
  /\ stage # "read" /\ stage' = "read"
  /\ LET a == ReAlign(Load(Blank, list), Len(list))
     IN \E now \in Moments :
          /\ clock' = now
          /\ subject' = CSubject(a, Len(list), now)
          /\ lit' = LightSubject(list, now)
  /\ UNCHANGED list

OrderNext == Realign \/ Change \/ Follow

OrderSpec == OrderInit /\ [][OrderNext]_ovars
-----------------------------------------------------------------------------
\* The light's subject for the one that the study program found in a file.
Agreed(found, taken, file) ==
  IF found # "NOTHING" THEN taken = found
  ELSE IF file = <<>> THEN taken = "0" ELSE taken = Head(file).name

\* Re-aligning loses, doubles and invents nothing, and leaves the entries in
\* the order of their dates and times (schedule.c:404-430).
AlignSorts ==
  /\ [](stage = "ordered" => InOrder(list))
  /\ [][stage' = "ordered" => ToBag(list') = ToBag(list)]_ovars

\* cur_subject names an entry that has begun and that no other has followed
\* yet, or NOTHING before the first, in whatever order the file is
\* (schedule.c:735-793).
SubjectIsCurrent == stage = "read" => subject \in Current(list, clock)

(***************************************************************************)
(* What the light makes of the file, which it reads as it is, while the    *)
(* study program re-aligns its copy.  Of a file in order both name the     *)
(* same subject; before the first entry the light takes that entry, and of *)
(* an empty file the subject "0".  A change of a time can leave the file   *)
(* out of order, and then the two may differ; but in whatever order it is, *)
(* the light names no entry that has not begun, except the first line      *)
(* (esp_lightWifiBulbLanCtrl.py:271-309, schedule.c:697).                  *)
(***************************************************************************)
LightAgrees ==
  stage = "read" =>
    /\ InOrder(list) => Agreed(subject, lit, list)
    /\ list # <<>> => lit \in {list[k].name : k \in Started(list, clock) \cup {1}}
=============================================================================
