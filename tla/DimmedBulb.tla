----------------------------- MODULE DimmedBulb -----------------------------
(***************************************************************************)
(* From the number that the user enters for a subject to the bulb that is  *)
(* dimmed: BulbRegistry composed with BrightFile.  The light's main loop   *)
(* takes the brightness of a subject from the file and sends it to bulb 1  *)
(* (set_req_light_bright); the handler's commands come in between.         *)
(***************************************************************************)
EXTENDS BulbRegistry, Sequences

CONSTANTS sub_str, NameWidth, Numbers, Digit, Width, File0,
          Letter   \* the characters of the names

VARIABLES file, pc, line, entered, spoilt
Bright == INSTANCE BrightFile
menu == <<file, pc, line, entered, spoilt>>

Char == Letter \cup Digit \cup Bright!Blanks
Toggle == <<"toggle">>

\* The names fit into their column, and %03d prints three digits or more.
ASSUME FormatAssumption ==
  /\ Letter \cap Digit = {} /\ (Letter \cup Digit) \cap Bright!Blanks = {}
  /\ NameWidth \in Nat /\ Width \in Nat \ {0}
  /\ sub_str \in Seq(Seq(Letter))
  /\ \A k \in DOMAIN sub_str : Len(sub_str[k]) \in 1 .. NameWidth
  /\ \A j, k \in DOMAIN sub_str : sub_str[j] = sub_str[k] => j = k
  /\ Numbers \subseteq Seq(Digit) /\ \A v \in Numbers : Len(v) >= Width

\* Where a word begins behind a blank: in this file, a number.
NumberStarts(f) ==
  {i \in 2 .. Len(f) : f[i - 1] = "." /\ f[i] \notin Bright!Blanks}

\* No number begins further from the beginning of its line than fprintf puts it.
NumbersInPlace(f) ==
  \A i \in NumberStarts(f) :
    \E b \in {0} \cup Bright!Ends(f) : i \in b + 1 .. b + NameWidth + 2

\* In the line of every letter a number comes behind it.
NamesHaveNumbers(f) ==
  \A i \in DOMAIN f : f[i] \in Letter =>
    \E j \in NumberStarts(f) :
      i < j /\ \A d \in Bright!Ends(f) : ~(i < d /\ d < j)

\* The delivered file is text that ends with a newline, at most one line a
\* subject, whatever blanks are behind its numbers.
ASSUME FileAssumption ==
  /\ File0 \in Seq(Char) /\ File0 # <<>> /\ File0[Len(File0)] = "/"
  /\ Cardinality(Bright!Ends(File0)) <= Len(sub_str)
  /\ NumbersInPlace(File0) /\ NamesHaveNumbers(File0)

ASSUME CommandAssumption ==
  /\ Numbers \cup {Toggle} \subseteq Command
  /\ \A i \in NumberStarts(File0) : Bright!WordAt(File0, i) \in Command
-----------------------------------------------------------------------------

DimInit == Init /\ Bright!Init

\* set_req_light_bright(the current subject), unless it is not in the file.
ReadFile ==
  \E k \in DOMAIN sub_str :
    LET bright == Bright!LightBright(file, sub_str[k])
    IN bright # Bright!Missing /\ Begin("main", bright)

\* sigusr1_handler: toggle_bulb(1), or set_bright(1, ...) with the FIFO's number.
Handle == Begin("handler", Toggle)

DimNext ==
  \/ Bright!Next /\ UNCHANGED vars
  \/ (ReadFile \/ Handle \/ Detection \/ Lookup) /\ UNCHANGED menu

DimSpec == DimInit /\ [][DimNext]_<<vars, menu>>
-----------------------------------------------------------------------------
\* The types of the file and of the menu that rewrites it (bright_control.c:115).
FileTypeOK == Bright!TypeOK

\* See BrightFile (bright_control.c:136-160, py:227).
DamageOnlyBehind == Bright!DamageOnlyBehind

(***************************************************************************)
(* Whatever is done to the file, a number that the main loop sends to the  *)
(* bulb is one that was entered or delivered, never a part of one, or two  *)
(* run together (bright_control.c:155-160, py:232-243).                    *)
(***************************************************************************)
OnlyEntered == cmd["main"] # Idle => cmd["main"].text \in Command
=============================================================================
