----------------------------- MODULE TextParse -----------------------------
(***************************************************************************)
(* What the parsebat system call of kernel/parsebat.c promises: to parse   *)
(* the text that is written to the pipe, with no regard to how the text is *)
(* cut into reads.  There is no buffer here: the parser looks at the next  *)
(* character of the text and takes it or leaves it.                        *)
(***************************************************************************)
EXTENDS Integers, Sequences

CONSTANTS
  Texts,     \* what batctl can print, as sequences of characters
  MacLen,    \* characters of an address (MAC_NAME_MAX - 1)
  MaxDev,    \* room in the caller's array (DEVINFO_MAX)
  NL, Blank  \* the newline, and the characters isspace() knows

EINVAL == 22
EIO == 5

VARIABLES
  text, pos, \* what is in the pipe, and how much of it has been taken
  pc,        \* the loop the call is in, "idle" or "done"
  lines,     \* lines still to be skipped
  mac, devs, \* the address being taken, and those taken
  ret        \* what the call returned

vars == <<text, pos, pc, lines, mac, devs, ret>>

Init ==
  /\ text = <<>> /\ pos = 0
  /\ pc = "idle" /\ lines = 0 /\ mac = <<>> /\ devs = <<>> /\ ret = 0

Next1(ch) == pos < Len(text) /\ ch = text[pos + 1]
Take == pos' = pos + 1

Call ==
  /\ pc \in {"idle", "done"}
  /\ text' \in Texts /\ pos' = 0
  /\ pc' = "lines" /\ lines' = 2
  /\ mac' = <<>> /\ devs' = <<>> /\ ret' = 0

SkipLine(ch) ==
  /\ pc = "lines" /\ Take
  /\ lines' = IF ch = NL THEN lines - 1 ELSE lines
  /\ pc' = IF lines' = 0 THEN "peek" ELSE "lines"
  /\ UNCHANGED <<text, mac, devs, ret>>

\* A line begins: its first character is not looked at.
Peek ==
  /\ pc = "peek" /\ Take
  /\ IF Len(devs) < MaxDev
     THEN pc' = "gap1" /\ UNCHANGED ret
     ELSE pc' = "done" /\ ret' = Len(devs)
  /\ UNCHANGED <<text, lines, mac, devs>>

\* Blanks, the interface's name, and blanks again are passed over.
After == [gap1 |-> "word", word |-> "gap2", gap2 |-> "mac"]

PassOver(ch) ==
  /\ pc \in DOMAIN After
  /\ IF (ch \in Blank) = (pc # "word")
     THEN Take /\ UNCHANGED pc
     ELSE pc' = After[pc] /\ UNCHANGED pos
  /\ UNCHANGED <<text, lines, mac, devs, ret>>

Copy(ch) ==
  /\ pc = "mac" /\ Take
  /\ IF Len(mac) + 1 < MacLen
     THEN mac' = Append(mac, ch) /\ UNCHANGED <<devs, pc, lines>>
     ELSE /\ devs' = Append(devs, Append(mac, ch)) /\ mac' = <<>>
          /\ pc' = "lines" /\ lines' = 1
  /\ UNCHANGED <<text, ret>>

\* The text may end between lines, but not within one.
End ==
  /\ pc \notin {"idle", "done"} /\ pos = Len(text)
  /\ pc' = "done"
  /\ ret' = IF pc \in {"lines", "peek"} THEN Len(devs) ELSE -EINVAL
  /\ UNCHANGED <<text, pos, lines, mac, devs>>

\* The pipe could not be read.
Fail ==
  /\ pc \notin {"idle", "done"}
  /\ pc' = "done" /\ ret' = -EIO
  /\ UNCHANGED <<text, pos, lines, mac, devs>>

Next ==
  \/ Call \/ End \/ Fail
  \/ \E ch \in {text[i] : i \in DOMAIN text} :
       Next1(ch) /\ (SkipLine(ch) \/ Peek \/ PassOver(ch) \/ Copy(ch))

Spec == Init /\ [][Next]_vars
=============================================================================
