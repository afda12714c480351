------------------------------ MODULE ParseBat ------------------------------
(***************************************************************************)
(* The parsebat system call (kernel/parsebat.c), which getdevinfo          *)
(* (studysys/devinfo.c) calls on the pipe that batctl writes to.  It reads *)
(* the pipe through a static buffer: a read returns any part of what is    *)
(* still to come, so that a line, a word or an address can be cut          *)
(* anywhere, and the next read overwrites the buffer.                      *)
(*                                                                         *)
(* Calls follow one another, each on a pipe of its own, and the buffer     *)
(* keeps what the last call left.  Only one study program calls it, since  *)
(* the sensor runs one at a time (SensorWindow, NoStrayStudy).             *)
(***************************************************************************)
EXTENDS Integers, Sequences, FiniteSets

CONSTANTS
  Char,      \* the characters batctl prints
  Texts,     \* its output, complete or cut short
  PipeBuf,   \* size of the buffer (PIPE_BUF)
  MacLen,    \* characters of an address (MAC_NAME_MAX - 1)
  MaxDev,    \* room in the caller's array (DEVINFO_MAX)
  NL, Blank  \* the newline, and the characters isspace() knows

ASSUME TextAssumption == Texts \subseteq Seq(Char) /\ NL \in Blank /\ Blank \subseteq Char
ASSUME SizeAssumption ==
  PipeBuf \in Nat \ {0} /\ MacLen \in Nat \ {0} /\ MaxDev \in Nat

EINVAL == 22
EIO == 5      \* stands for any error of sys_read

VARIABLES
  text, fed,  \* what is written to the pipe, and how much has been read
  buf, bufsize, offset, state,  \* the static variables
  pc,         \* the loop the call is in, "idle" or "done"
  lines,      \* lines still to be skipped
  mac, devs,  \* the address being taken, and those taken
  ret         \* what the call returned

statics == <<buf, bufsize, offset, state>>
vars == <<text, fed, statics, pc, lines, mac, devs, ret>>

Running == pc \notin {"idle", "done"}

\* buf holds nothing yet that a call could read.
Init ==
  /\ text = <<>> /\ fed = 0
  /\ buf \in [0 .. PipeBuf - 1 -> {NL}] /\ bufsize = 0 /\ offset = 0 /\ state = "OK"
  /\ pc = "idle" /\ lines = 0 /\ mac = <<>> /\ devs = <<>> /\ ret = 0
-----------------------------------------------------------------------------
\* Mutant: the buffer is not reset, and begins with what the last call left.
CallWithoutReset ==
  /\ ~Running
  /\ text' \in Texts /\ fed' = 0
  /\ pc' = "lines" /\ lines' = 2
  /\ mac' = <<>> /\ devs' = <<>> /\ ret' = 0
  /\ UNCHANGED statics

\* getdevinfo runs batctl and calls parsebat, which resets and goes to skip
\* the two lines of the header.
Call ==
  /\ ~Running
  /\ text' \in Texts /\ fed' = 0
  /\ bufsize' = 0 /\ offset' = 0 /\ state' = "OK" /\ UNCHANGED buf
  /\ pc' = "lines" /\ lines' = 2
  /\ mac' = <<>> /\ devs' = <<>> /\ ret' = 0

\* Mutant: offset is not set back to the beginning of what has been read.
FillKeepsOffset ==
  /\ Running /\ state = "OK" /\ offset = bufsize
  /\ \/ \E n \in 1 .. PipeBuf :
          /\ fed + n <= Len(text)
          /\ fed' = fed + n /\ bufsize' = n
          /\ buf' = [i \in DOMAIN buf |-> IF i < n THEN text[fed + 1 + i] ELSE buf[i]]
          /\ UNCHANGED <<offset, state>>
     \/ /\ fed = Len(text)
        /\ bufsize' = 0 /\ state' = "EOF" /\ UNCHANGED <<fed, offset, buf>>
  /\ UNCHANGED <<text, pc, lines, mac, devs, ret>>

(***************************************************************************)
(* getchar_from_fd finds the buffer used up and reads: some of the text    *)
(* that is left, the end of it once batctl is done, or an error.           *)
(***************************************************************************)
Fill ==
  /\ Running /\ state = "OK" /\ offset = bufsize
  /\ \/ \E n \in 1 .. PipeBuf :
          /\ fed + n <= Len(text)
          /\ fed' = fed + n /\ bufsize' = n /\ offset' = 0
          /\ buf' = [i \in DOMAIN buf |-> IF i < n THEN text[fed + 1 + i] ELSE buf[i]]
          /\ UNCHANGED state
     \/ /\ fed = Len(text)
        /\ bufsize' = 0 /\ state' = "EOF" /\ UNCHANGED <<fed, offset, buf>>
     \/ bufsize' = -EIO /\ state' = "ERR" /\ UNCHANGED <<fed, offset, buf>>
  /\ UNCHANGED <<text, pc, lines, mac, devs, ret>>

\* getchar_from_fd returns a character of the buffer.
Buffered(ch) == state = "OK" /\ offset < bufsize /\ ch = buf[offset]
Advance == offset' = offset + 1

SkipLine(ch) ==
  /\ pc = "lines" /\ Buffered(ch) /\ Advance
  /\ lines' = IF ch = NL THEN lines - 1 ELSE lines
  /\ pc' = IF lines' = 0 THEN "peek" ELSE "lines"
  /\ UNCHANGED <<text, fed, buf, bufsize, state, mac, devs, ret>>

\* Is there a line?  Its first character is read, and dropped.
Peek(ch) ==
  /\ pc = "peek" /\ Buffered(ch) /\ Advance
  /\ IF Len(devs) < MaxDev
     THEN pc' = "gap1" /\ UNCHANGED ret
     ELSE pc' = "done" /\ ret' = Len(devs)
  /\ UNCHANGED <<text, fed, buf, bufsize, state, lines, mac, devs>>

After == [gap1 |-> "word", word |-> "gap2", gap2 |-> "mac"]

\* Mutant: the character that ends a loop is lost to the next one.
PassOverAndDrop(ch) ==
  /\ pc \in DOMAIN After /\ Buffered(ch) /\ Advance
  /\ pc' = IF (ch \in Blank) = (pc # "word") THEN pc ELSE After[pc]
  /\ UNCHANGED <<text, fed, buf, bufsize, state, lines, mac, devs, ret>>

\* skip_space and skip_nospace: the character that ends the loop is read,
\* and offset is stepped back onto it.
PassOver(ch) ==
  /\ pc \in DOMAIN After /\ Buffered(ch)
  /\ IF (ch \in Blank) = (pc # "word")
     THEN Advance /\ UNCHANGED pc
     ELSE pc' = After[pc] /\ UNCHANGED offset
  /\ UNCHANGED <<text, fed, buf, bufsize, state, lines, mac, devs, ret>>

\* The address is copied, and the rest of its line will be skipped.
Copy(ch) ==
  /\ pc = "mac" /\ Buffered(ch) /\ Advance
  /\ IF Len(mac) + 1 < MacLen
     THEN mac' = Append(mac, ch) /\ UNCHANGED <<devs, pc, lines>>
     ELSE /\ devs' = Append(devs, Append(mac, ch)) /\ mac' = <<>>
          /\ pc' = "lines" /\ lines' = 1
  /\ UNCHANGED <<text, fed, buf, bufsize, state, ret>>

\* Mutant: skip_line waits for its newline whatever getchar_from_fd returns.
StopUnlessSkipping ==
  /\ Running /\ state # "OK" /\ pc # "lines"
  /\ pc' = "done"
  /\ ret' = IF state = "ERR" THEN bufsize
            ELSE IF pc = "peek" THEN Len(devs) ELSE -EINVAL
  /\ UNCHANGED <<text, fed, statics, lines, mac, devs>>

\* fd_err: the read's error is returned.  fd_eof: the text may end between
\* lines, in the header or behind an address, but not within one.
Stop ==
  /\ Running /\ state # "OK"
  /\ pc' = "done"
  /\ ret' = IF state = "ERR" THEN bufsize
            ELSE IF pc \in {"lines", "peek"} THEN Len(devs) ELSE -EINVAL
  /\ UNCHANGED <<text, fed, statics, lines, mac, devs>>

Step == Fill \/ Stop \/ \E ch \in Char : SkipLine(ch) \/ Peek(ch) \/ PassOver(ch) \/ Copy(ch)

Next == Call \/ Step

\* The call goes on: batctl writes or ends, and the kernel wakes the reader.
Spec == Init /\ [][Next]_vars /\ WF_vars(Step)
-----------------------------------------------------------------------------
TypeOK ==
  /\ text \in Texts \cup {<<>>} /\ fed \in 0 .. Len(text)
  /\ buf \in [0 .. PipeBuf - 1 -> Char]
  /\ bufsize \in {-EIO} \cup 0 .. PipeBuf /\ offset \in 0 .. PipeBuf
  /\ state \in {"OK", "EOF", "ERR"} /\ (state = "OK" => offset <= bufsize)
  /\ pc \in {"idle", "done", "lines", "peek", "mac"} \cup DOMAIN After
  /\ lines \in 0 .. 2 /\ (pc = "lines" => lines > 0)
  /\ mac \in Seq(Char) /\ Len(mac) < MacLen
  /\ devs \in Seq(Seq(Char)) /\ Len(devs) <= MaxDev
  /\ ret \in {-EINVAL, -EIO} \cup 0 .. MaxDev

(***************************************************************************)
(* Wherever the reads cut the text, the call does what it would do with    *)
(* the whole text before it: no character is lost, read twice or taken     *)
(* from an earlier read or call, although the loops read one character too *)
(* many and step back over it (parsebat.c:77-97, 134-157).                 *)
(***************************************************************************)
Taken == IF state = "OK" THEN fed - (bufsize - offset) ELSE fed
Whole == INSTANCE TextParse WITH pos <- Taken
CutsInvisible == Whole!Spec

\* Every call comes back, whether batctl ends early, the text is cut within
\* a line or a read fails: no loop waits for a character that will not come
\* (parsebat.c:120-157).
Returns == Running ~> ~Running
-----------------------------------------------------------------------------
(***************************************************************************)
(* The reference for the addresses: where the second words of the lines    *)
(* behind the header begin, found without reading from left to right.      *)
(***************************************************************************)
Line(t, i) == Cardinality({j \in 1 .. i - 1 : t[j] = NL})
Starts(t) == {i \in 1 .. Len(t) : Line(t, i) >= 2 /\ t[i - 1] = NL}
WordAt(t, i) == t[i] \notin Blank /\ (i = 1 \/ t[i - 1] \in Blank)
WordsBefore(t, i) == {j \in 1 .. i - 1 : WordAt(t, j) /\ Line(t, j) = Line(t, i)}
Beginnings(t) ==
  {i \in 1 .. Len(t) : Line(t, i) >= 2 /\ WordAt(t, i) /\ Cardinality(WordsBefore(t, i)) = 1}
WholeOnes(t) == {i \in Beginnings(t) : i + MacLen - 1 <= Len(t)}
Nth(S, k) == CHOOSE i \in S : Cardinality({j \in S : j <= i}) = k
Addresses(t) == [k \in 1 .. Cardinality(WholeOnes(t)) |->
                   LET i == Nth(WholeOnes(t), k) IN SubSeq(t, i, i + MacLen - 1)]

\* The output of batctl, complete or cut short: each line behind the header
\* begins with a blank, and has two words if it ends.
Tabular(t) ==
  /\ \A i \in Starts(t) : t[i] \in Blank \ {NL}
  /\ \A n \in 1 .. Len(t) : t[n] = NL /\ Line(t, n) >= 2 =>
       \E i \in Beginnings(t) : Line(t, i) = Line(t, n) /\ i + MacLen <= n

(***************************************************************************)
(* Of a table, a call that succeeds returns the second word of every line, *)
(* in their order and up to the room there is, and none that was cut       *)
(* short; it fails exactly if a read failed or the text ends in a line     *)
(* before its address is complete, with room for it (parsebat.c:166-252).  *)
(***************************************************************************)
AddressesOfOutput ==
  pc = "done" /\ Tabular(text) =>
    LET found == Addresses(text) IN
    /\ ret >= 0 =>
         /\ ret = Len(devs) /\ devs = SubSeq(found, 1, ret)
         /\ ret = IF MaxDev < Len(found) THEN MaxDev ELSE Len(found)
    /\ ret = -EINVAL <=>
         /\ Cardinality(Starts(text)) > Len(found) /\ Len(found) < MaxDev
         /\ state = "EOF"
    /\ ret = -EIO <=> state = "ERR"
=============================================================================
