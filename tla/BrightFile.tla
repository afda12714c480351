----------------------------- MODULE BrightFile -----------------------------
(***************************************************************************)
(* light_bright_info.txt, one line a subject: "%-20s %03d\n".  The menu    *)
(* rewrites a line in place (change_subject_bright, bright_control.c); the *)
(* light looks up the brightness of the current subject                    *)
(* (set_req_light_bright, esp_lightWifiBulbLanCtrl.py).                    *)
(*                                                                         *)
(* The file is a sequence of characters, because a line that is longer or  *)
(* shorter than the one it replaces shifts nothing: it covers the next     *)
(* line's beginning, or leaves the old line's end.  The write is one call  *)
(* of write(), and the light reads the small file in one read().           *)
(***************************************************************************)
EXTENDS Integers, Sequences, FiniteSetsExt

CONSTANTS
  sub_str,    \* the names the program knows, in the order of the lines
  NameWidth,  \* what a name is padded to (20)
  Numbers,    \* what %03d prints of what the user enters: sequences of digits
  Digit,      \* the digits
  Width,      \* digits of %03d (3)
  File0       \* the file as it is delivered

VARIABLES
  file,
  pc,        \* the menu: "off", "menu", or "prompt" for a new brightness
  line,      \* the line that is being changed
  entered,   \* ghost: the number the user last gave each subject
  spoilt     \* ghost: the first line that was not delivered as fprintf prints
             \* it, or was given too wide a number

vars == <<file, pc, line, entered, spoilt>>

Blanks == {".", "/"}    \* the blank and the newline
-----------------------------------------------------------------------------
(* What fgets, sscanf("%s%d") and readline().split() find in a file f.     *)

Ends(f) == {i \in DOMAIN f : f[i] = "/"}
LineNos(f) == 1 .. Cardinality(Ends(f))

\* The k-th end of a line has k ends up to it.
LineEnd(f, k) ==
  CHOOSE e \in Ends(f) : Cardinality({d \in Ends(f) : d <= e}) = k
Before(f, k) == IF k = 1 THEN 0 ELSE LineEnd(f, k - 1)

\* Where the words of line k begin, and the word that begins at i.
Words(f, k) ==
  {i \in Before(f, k) + 1 .. LineEnd(f, k) :
     f[i] \notin Blanks /\ (i = 1 \/ f[i - 1] \in Blanks)}
WordAt(f, i) == SubSeq(f, i, Min({j \in i .. Len(f) : f[j] \in Blanks}) - 1)

First(f, k) == Min(Words(f, k))
Second(f, k) == Min(Words(f, k) \ {First(f, k)})

\* sscanf returns 2.
Scans(f, k) == Cardinality(Words(f, k)) >= 2 /\ f[Second(f, k)] \in Digit
AllScan(f) == \A k \in LineNos(f) : Scans(f, k)

Missing == <<>>

\* The light stops at the first line without words, and gets the number of
\* the first line that begins with the subject.
LightBright(f, subject) ==
  LET lit == {k \in LineNos(f) :
                /\ \A j \in 1 .. k : Words(f, j) # {}
                /\ WordAt(f, First(f, k)) = subject}
  IN IF lit = {} THEN Missing ELSE WordAt(f, Second(f, Min(lit)))
-----------------------------------------------------------------------------
(* What fprintf("%-20s %03d\n") prints, and where it puts it.              *)

Printed(k, v) ==
  sub_str[k] \o [i \in 1 .. NameWidth - Len(sub_str[k]) |-> "."]
    \o <<".">> \o v \o <<"/">>

\* Mutant: fprintf without the newline.
OverNoNewline(f, n, text) ==
  [i \in 1 .. Max({Len(f), n + Len(text) - 1}) |->
     IF i \in n + 1 .. n + Len(text) - 1 THEN text[i - n] ELSE f[i]]

\* fprintf into the file f behind its first n characters.
Over(f, n, text) ==
  [i \in 1 .. Max({Len(f), n + Len(text)}) |->
     IF i \in n + 1 .. n + Len(text) THEN text[i - n] ELSE f[i]]

\* Line k of f is printed with the number v, as are those before it.
LineWidth == NameWidth + Width + 2
Shows(f, k, v) ==
  /\ k * LineWidth <= Len(f)
  /\ \A i \in 1 .. LineWidth : f[(k - 1) * LineWidth + i] = Printed(k, v)[i]

Init ==
  /\ file = File0 /\ pc = "off" /\ line = 0
  /\ entered = [k \in DOMAIN sub_str |-> LightBright(File0, sub_str[k])]
  /\ spoilt = Min({Len(sub_str) + 1} \cup
       {k \in DOMAIN sub_str : ~ \E v \in [1 .. Width -> Digit] : Shows(File0, k, v)})
-----------------------------------------------------------------------------
Start ==
  /\ pc = "off" /\ pc' = "menu"
  /\ UNCHANGED <<file, line, entered, spoilt>>

\* The sensor's SIGUSR1, or the end of the program.
Kill ==
  /\ pc # "off" /\ pc' = "off"
  /\ UNCHANGED <<file, line, entered, spoilt>>

\* select_subject_to_change_bright: a line that does not scan ends the program.
ListFails ==
  /\ pc = "menu" /\ ~AllScan(file)
  /\ pc' = "off"
  /\ UNCHANGED <<file, line, entered, spoilt>>

\* The list, the user's choice of a line, and the search for it; a number
\* that is no line leads back to the menu.
Choose(num) ==
  /\ pc = "menu" /\ AllScan(file)
  /\ IF num \in LineNos(file)
     THEN pc' = "prompt" /\ line' = num
     ELSE UNCHANGED <<pc, line>>
  /\ UNCHANGED <<file, entered, spoilt>>

\* Mutant: without the fseek the new line goes behind the old one.
ChangeBehind(v) ==
  /\ pc = "prompt" /\ pc' = "menu"
  /\ file' = Over(file, LineEnd(file, line), Printed(line, v))
  /\ entered' = [entered EXCEPT ![line] = v]
  /\ spoilt' = IF Len(v) > Width THEN Min({spoilt, line}) ELSE spoilt
  /\ UNCHANGED line

\* Mutant: fseek by one more than the length of the line.
ChangeOneBack(v) ==
  /\ pc = "prompt" /\ pc' = "menu"
  /\ file' = Over(file, Max({Before(file, line) - 1, 0}), Printed(line, v))
  /\ entered' = [entered EXCEPT ![line] = v]
  /\ spoilt' = IF Len(v) > Width THEN Min({spoilt, line}) ELSE spoilt
  /\ UNCHANGED line

\* change_subject_bright: fseek by the length of the line that was read, and
\* the new line over it, with the program's own name for that place.
Change(v) ==
  /\ pc = "prompt" /\ pc' = "menu"
  /\ file' = Over(file, Before(file, line), Printed(line, v))
  /\ entered' = [entered EXCEPT ![line] = v]
  /\ spoilt' = IF Len(v) > Width THEN Min({spoilt, line}) ELSE spoilt
  /\ UNCHANGED line

Next ==
  \/ Start \/ Kill \/ ListFails
  \/ \E num \in 0 .. Len(sub_str) + 1 : Choose(num)
  \/ \E v \in Numbers : Change(v)

Spec == Init /\ [][Next]_vars
-----------------------------------------------------------------------------
TypeOK ==
  /\ file # <<>> /\ file[Len(file)] = "/"
  /\ pc \in {"off", "menu", "prompt"}
  /\ line \in 0 .. Len(sub_str) /\ (pc = "prompt" => line # 0)
  /\ spoilt \in 1 .. Len(sub_str) + 1

(***************************************************************************)
(* The light finds for every subject the number the user last gave it,     *)
(* wherever the program is killed, as far as the first line that was given *)
(* a number of more digits than the format has, or was delivered in        *)
(* another form: such a line damages what comes after it and nothing       *)
(* before (bright_control.c:136-160, py:227).                              *)
(***************************************************************************)
DamageOnlyBehind ==
  \A k \in 1 .. spoilt - 1 : LightBright(file, sub_str[k]) = entered[k]

\* What the menu reports as a success (bright_control.c:162): afterwards the
\* light finds the brightness of every subject.
EverySubjectFound ==
  \A k \in DOMAIN sub_str : LightBright(file, sub_str[k]) # Missing
=============================================================================
