--------------------------- MODULE ScheduleOrder ---------------------------
(***************************************************************************)
(* How schedule.c orders a schedule and how the two programs that follow   *)
(* it pick the current subject: cur_subject of schedule.c, and the loop of *)
(* handle_user_input in esp_lightWifiBulbLanCtrl.py.                       *)
(*                                                                         *)
(* An entry is [date, time, name]; dates and times are fixed-width digit   *)
(* strings that the code only compares, so they are numbers here.  Index 1 *)
(* stands for C's index 0.                                                 *)
(***************************************************************************)
EXTENDS Naturals, Sequences, SequencesExt

CONSTANTS Dates, Times, Names,
          MaxLen   \* bound: entries of the schedule

\* No subject is called as cur_subject's answer when none has begun.
ASSUME DataAssumption ==
  Dates \subseteq Nat \ {0} /\ Times \subseteq Nat /\ "NOTHING" \notin Names
ASSUME LenAssumption == MaxLen \in Nat \ {0}

Entries == [date : Dates, time : Times, name : Names]
Files == BoundedSeq(Entries, MaxLen)
Moments == Dates \X Times

\* A slot of an array that was zero when the program started: its date is
\* the empty string, which is less than every other.
Clean == [date |-> 0, time |-> 0, name |-> "NOTHING"]
Blank == [i \in 1 .. MaxLen + 1 |-> Clean]
\* An array after fscanf has read the entries of a file into it.
Load(a, f) == f \o SubSeq(a, Len(f) + 1, Len(a))

When(e) == <<e.date, e.time>>
Earlier(v, w) == v[1] < w[1] \/ (v[1] = w[1] /\ v[2] < w[2])

Exchange(a, i, j) == [a EXCEPT ![i] = a[j], ![j] = a[i]]

ByDate(a, i, j) == IF a[i].date > a[j].date THEN Exchange(a, i, j) ELSE a
InnerDate(a, i, n) ==
  FoldLeft(LAMBDA c, d : ByDate(c, i, i + d), a, [d \in 1 .. n - i |-> d])

\* Mutant: the comparison the other way round.
ByDateDown(a, i, j) == IF a[i].date < a[j].date THEN Exchange(a, i, j) ELSE a
DatePassDown(a, n) ==
  FoldLeft(LAMBDA b, i : FoldLeft(LAMBDA c, d : ByDateDown(c, i, i + d),
                                  b, [d \in 1 .. n - i |-> d]),
           a, [i \in 1 .. n |-> i])

\* The first double loop of re_align: dates, over the first n slots.
DatePass(a, n) ==
  FoldLeft(LAMBDA b, i : InnerDate(b, i, n), a, [i \in 1 .. n |-> i])

(***************************************************************************)
(* The second: times among neighbours of one date.  Its inner loop ends at *)
(* the first other date and not at n, so that it can reach, compare and    *)
(* exchange slots that are not part of the schedule.                       *)
(***************************************************************************)
ByTime(s, i, j) ==
  IF ~s.on \/ s.arr[i].date # s.arr[j].date THEN [s EXCEPT !.on = FALSE]
  ELSE IF s.arr[i].time > s.arr[j].time
       THEN [s EXCEPT !.arr = Exchange(s.arr, i, j)] ELSE s
InnerTime(a, i) ==
  FoldLeft(LAMBDA s, d : ByTime(s, i, i + d),
           [arr |-> a, on |-> TRUE], [d \in 1 .. Len(a) - i |-> d]).arr

TimePass(a, n) ==
  FoldLeft(LAMBDA b, i : InnerTime(b, i), a, [i \in 1 .. n |-> i])

ReAlign(a, n) == TimePass(DatePass(a, n), n)

\* A file as the study program's functions read and re-align it.
Aligned(f) == SubSeq(ReAlign(Load(Blank, f), Len(f)), 1, Len(f))

\* Mutant: an entry counts from the minute after its time.
NowIndexLate(a, n, now) ==
  LET later == {i \in 1 .. n : ~Earlier(When(a[i]), now)}
  IN IF later = {} THEN n ELSE Min(later) - 1

\* The search of cur_subject: the slot before the first that is later than
\* now; the last if none is; 0 if there is none before it.
NowIndex(a, n, now) ==
  LET later == {i \in 1 .. n : Earlier(now, When(a[i]))}
  IN IF later = {} THEN n ELSE Min(later) - 1

CSubject(a, n, now) ==
  IF NowIndex(a, n, now) = 0 THEN "NOTHING" ELSE a[NowIndex(a, n, now)].name

\* Mutant: an entry counts from the minute after its time.
LightSubjectLate(file, now) ==
  LET stops == {k \in 2 .. Len(file) : ~Earlier(When(file[k]), now)}
  IN IF file = <<>> THEN "0"
     ELSE IF stops = {} THEN Last(file).name
     ELSE file[Min(stops) - 1].name

(***************************************************************************)
(* The light reads the file line by line.  At the first line later than    *)
(* now that has a line before it, it takes the line before; without one it *)
(* takes the last line.  Of an empty file it takes the second character of *)
(* "0000000000".                                                           *)
(***************************************************************************)
LightSubject(file, now) ==
  LET stops == {k \in 2 .. Len(file) : Earlier(now, When(file[k]))}
  IN IF file = <<>> THEN "0"
     ELSE IF stops = {} THEN Last(file).name
     ELSE file[Min(stops) - 1].name
-----------------------------------------------------------------------------
(* The reference. *)

InOrder(s) == IsSorted(s, LAMBDA e, f : ~Earlier(When(f), When(e)))

Started(s, now) == {i \in DOMAIN s : ~Earlier(now, When(s[i]))}

\* The subjects that may be the current one: of the entries that have begun,
\* those none began after.
Current(s, now) ==
  IF Started(s, now) = {} THEN {"NOTHING"}
  ELSE {s[i].name : i \in {k \in Started(s, now) :
                       \A m \in Started(s, now) : ~Earlier(When(s[k]), When(s[m]))}}
=============================================================================
