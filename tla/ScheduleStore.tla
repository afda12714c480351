--------------------------- MODULE ScheduleStore ---------------------------
(***************************************************************************)
(* schedule_info.txt and the study program's two threads that use it: the  *)
(* menu (register_sched, change_sched, delete_sched of schedule.c) and the *)
(* recognizer, which asks cur_subject for the subject it sends.  The       *)
(* sensor's SIGUSR1 ends the program at any point; what stdio has buffered *)
(* is lost and what "w" has truncated stays truncated.                     *)
(*                                                                         *)
(* The menu's arrays are clean beyond the entries read.  cur_subject's is  *)
(* a local of 360 KB on the recognizer's stack, where the next call finds  *)
(* what the last one left.                                                 *)
(***************************************************************************)
EXTENDS ScheduleOrder, Bags

VARIABLES
  file,
  up,                      \* the study program runs
  op,                      \* what its menu thread is in the middle of
  arr, change,             \* the copy it will write, and the entry to prompt for
  r_pc, r_n, r_mem,        \* recognizer: txt_read's count, cur_subject's array
  ledger,                  \* ghost: what the user has entered and not taken back
  dirty,                   \* ghost: changed since the file was last re-aligned
  r_steady, verdict        \* ghosts: file unchanged since r_n; the last report

menu == <<op, arr, change>>
reco == <<r_pc, r_n, r_mem, verdict>>
vars == <<file, up, menu, reco, r_steady, ledger, dirty>>

Unjudged == [steady |-> TRUE, residue |-> FALSE, right |-> TRUE]

Init ==
  /\ file = <<>> /\ up = FALSE
  /\ op = "menu" /\ arr = <<>> /\ change = 0
  /\ r_pc = "idle" /\ r_n = 0 /\ r_mem = Blank
  /\ r_steady = TRUE /\ verdict = Unjudged
  /\ ledger = EmptyBag /\ dirty = FALSE
-----------------------------------------------------------------------------
\* The file changes between the recognizer's two reads of it.
Touches(b) == r_steady' = (r_steady /\ ~(b /\ r_pc = "counted"))

\* The sensor starts the program.
Start ==
  /\ ~up /\ up' = TRUE
  /\ UNCHANGED <<file, menu, reco, r_steady, ledger, dirty>>

\* SIGUSR1 ends it, with its stacks.  A file that is being rewritten is empty
\* for good.
Kill ==
  /\ up /\ up' = FALSE
  /\ op' = "menu" /\ arr' = <<>> /\ change' = 0
  /\ ledger' = IF op \in {"changing", "deleting"} THEN EmptyBag ELSE ledger
  /\ dirty' = (dirty \/ op = "appended")
  /\ r_pc' = "idle" /\ r_n' = 0 /\ r_mem' = Blank /\ r_steady' = TRUE /\ verdict' = Unjudged
  /\ UNCHANGED file

\* register_sched appends the entries typed for one date ...
AppendBatch(batch) ==
  /\ up /\ op = "menu" /\ op' = "appended"
  /\ Len(file) + Len(batch) <= MaxLen
  /\ \A i, j \in DOMAIN batch : batch[i].date = batch[j].date
  /\ file' = file \o batch
  /\ ledger' = ledger (+) ToBag(batch)
  /\ Touches(batch # <<>>)
  /\ UNCHANGED <<up, arr, change, reco, dirty>>

\* Mutant: the ordered copy is appended, not written over the file.
RewriteAppends ==
  /\ up /\ op = "appended" /\ op' = "menu"
  /\ file' = file \o Aligned(file)
  /\ dirty' = FALSE
  /\ Touches(file' # file)
  /\ UNCHANGED <<up, arr, change, reco, ledger>>

\* Mutant: only the dates are put in order.
RewriteByDate ==
  /\ up /\ op = "appended" /\ op' = "menu"
  /\ file' = SubSeq(DatePass(Load(Blank, file), Len(file)), 1, Len(file))
  /\ dirty' = FALSE
  /\ Touches(file' # file)
  /\ UNCHANGED <<up, arr, change, reco, ledger>>

\* ... reads the file, re-aligns it and writes it over itself.
Rewrite ==
  /\ up /\ op = "appended" /\ op' = "menu"
  /\ file' = Aligned(file)
  /\ dirty' = FALSE
  /\ Touches(file' # file)
  /\ UNCHANGED <<up, arr, change, reco, ledger>>

\* The entries of arr the user can mean by a date and a subject.
Matches(a, d, s) == {i \in DOMAIN a : a[i].date = d /\ a[i].name = s}

(***************************************************************************)
(* change_sched opens the file "w" before it asks for the new subject and  *)
(* time.  The last match is changed; without one `change' is whatever the  *)
(* stack held, and an index of the array by chance or of nothing.          *)
(***************************************************************************)
ChangeOpen(d, s) ==
  /\ up /\ op = "menu" /\ file # <<>>
  /\ op' = "changing"
  /\ arr' = Aligned(file)
  /\ LET m == Matches(arr', d, s)
     IN change' \in IF m = {} THEN 0 .. Len(arr') ELSE {Max(m)}
  /\ file' = <<>>
  /\ Touches(TRUE)
  /\ UNCHANGED <<up, reco, ledger, dirty>>

\* fclose: the file is back, in the order of the old times.
ChangeFlush(s, t) ==
  /\ up /\ op = "changing" /\ op' = "menu"
  /\ IF change = 0
     THEN file' = arr /\ UNCHANGED ledger /\ dirty' = FALSE
     ELSE LET new == [arr[change] EXCEPT !.name = s, !.time = t]
          IN /\ file' = [arr EXCEPT ![change] = new]
             /\ ledger' = (ledger (-) SetToBag({arr[change]})) (+) SetToBag({new})
             /\ dirty' = TRUE
  /\ arr' = <<>> /\ change' = 0
  /\ Touches(TRUE)
  /\ UNCHANGED <<up, reco>>

\* delete_sched looks only at the first entry of the date: another subject
\* there is "entered wrongly".
DeleteOpen(d, s) ==
  /\ up /\ op = "menu"
  /\ LET a == Aligned(file)
         days == {i \in DOMAIN a : a[i].date = d}
     IN /\ days # {}
        /\ IF a[Min(days)].name = s
           THEN /\ op' = "deleting"
                /\ arr' = Aligned(RemoveAt(a, Min(days)))
                /\ ledger' = ledger (-) SetToBag({a[Min(days)]})
                /\ file' = <<>>
                /\ Touches(TRUE)
           ELSE /\ op' = IF Matches(a, d, s) # {} THEN "refused" ELSE "menu"
                /\ UNCHANGED <<arr, ledger, file, r_steady>>
  /\ UNCHANGED <<up, change, reco, dirty>>

\* The error message was shown.
BackToMenu ==
  /\ up /\ op = "refused" /\ op' = "menu"
  /\ UNCHANGED <<file, up, arr, change, reco, r_steady, ledger, dirty>>

\* fclose in txt_write.
DeleteFlush ==
  /\ up /\ op = "deleting" /\ op' = "menu"
  /\ file' = arr
  /\ arr' = <<>>
  /\ dirty' = FALSE
  /\ Touches(TRUE)
  /\ UNCHANGED <<up, change, reco, ledger>>
-----------------------------------------------------------------------------
\* Mutant: the read that fails is counted too.
CountOneMore ==
  /\ up /\ r_pc = "idle" /\ r_pc' = "counted"
  /\ r_n' = Len(file) + 1
  /\ verdict' = Unjudged
  /\ UNCHANGED <<file, up, menu, r_mem, r_steady, ledger, dirty>>

\* self_info: n = txt_read(scheds) ...
Count ==
  /\ up /\ r_pc = "idle" /\ r_pc' = "counted"
  /\ r_n' = Len(file)
  /\ verdict' = Unjudged
  /\ UNCHANGED <<file, up, menu, r_mem, r_steady, ledger, dirty>>

\* Mutant: the copy is searched as it was read.
ReportUnaligned(now) ==
  /\ up /\ r_pc = "counted" /\ r_pc' = "idle"
  /\ LET a == Load(r_mem, file)
     IN /\ r_mem' = a
        /\ verdict' =
             [steady  |-> r_steady,
              residue |-> \E i \in Len(file) + 1 .. MaxLen : r_mem[i] # Clean,
              right   |-> CSubject(a, r_n, now) \in Current(file, now)]
  /\ r_n' = 0 /\ r_steady' = TRUE
  /\ UNCHANGED <<file, up, menu, ledger, dirty>>

\* ... and cur_subject reads the file again, into its own array, re-aligns
\* what it has read, and searches the first n.
Report(now) ==
  /\ up /\ r_pc = "counted" /\ r_pc' = "idle"
  /\ LET a == ReAlign(Load(r_mem, file), Len(file))
     IN /\ r_mem' = a
        /\ verdict' =
             [steady  |-> r_steady,
              residue |-> \E i \in Len(file) + 1 .. MaxLen : r_mem[i] # Clean,
              right   |-> CSubject(a, r_n, now) \in Current(file, now)]
  /\ r_n' = 0 /\ r_steady' = TRUE
  /\ UNCHANGED <<file, up, menu, ledger, dirty>>
-----------------------------------------------------------------------------
MenuStep ==
  \/ \E batch \in Files : AppendBatch(batch)
  \/ Rewrite
  \/ \E d \in Dates, s \in Names : ChangeOpen(d, s) \/ DeleteOpen(d, s)
  \/ \E s \in Names, t \in Times : ChangeFlush(s, t)
  \/ DeleteFlush \/ BackToMenu

Next ==
  \/ Start \/ Kill
  \/ MenuStep
  \/ Count
  \/ \E now \in Moments : Report(now)

Spec == Init /\ [][Next]_vars
-----------------------------------------------------------------------------
TypeOK ==
  /\ file \in Files /\ up \in BOOLEAN
  /\ op \in {"menu", "appended", "changing", "deleting", "refused"}
  /\ arr \in Files /\ change \in 0 .. Len(arr)
  /\ r_pc \in {"idle", "counted"} /\ r_n \in 0 .. MaxLen
  /\ r_mem \in [1 .. MaxLen + 1 -> Entries \cup {Clean}]
  /\ IsABag(ledger)
  /\ dirty \in BOOLEAN /\ r_steady \in BOOLEAN
  /\ verdict \in [steady : BOOLEAN, residue : BOOLEAN, right : BOOLEAN]

(***************************************************************************)
(* Between its operations the file holds exactly what the user entered and *)
(* has not changed or deleted since, as often as entered, in spite of the  *)
(* two rewrites and of the kills; only a kill inside change_sched or       *)
(* txt_write, after "w" and before fclose, takes it all away.              *)
(* (schedule.c:214-292, 375-397, 497-599, 605-718)                         *)
(***************************************************************************)
LedgerKept ==
  /\ op \notin {"changing", "deleting"} => ToBag(file) = ledger
  /\ op \in {"changing", "deleting"} => file = <<>>

\* The file is in order, as the light and cur_subject's caller expect, until
\* an entry is changed or a kill comes between the two halves of a
\* registration (schedule.c:280-289, 673-711).
OrderedUnlessChanged == op = "menu" /\ ~dirty => InOrder(file)

(***************************************************************************)
(* When nothing is written between the recognizer's two reads of the file  *)
(* and its array holds nothing of a longer schedule, the subject it sends  *)
(* is the current one, in whatever order the file is (comm.c:119-125,      *)
(* schedule.c:740-793).                                                    *)
(***************************************************************************)
SubjectIfClean == verdict.steady /\ ~verdict.residue => verdict.right

\* What the comment before cur_subject says: it finds the subject being
\* studied now (schedule.c:735-738).
SubjectIfSteady == verdict.steady => verdict.right

\* What delete_sched's dialogue says: the entries of the date are listed and
\* the subject to delete can be chosen from them (schedule.c:541-562).
ListedCanBeDeleted == op # "refused"
=============================================================================
