--------------------------- MODULE ParseBatProofs ---------------------------
(***************************************************************************)
(* The system call implements the parser of the whole text, and returns    *)
(* the second word of every row of a table, for every set of texts, every  *)
(* size of the buffer and every length of an address.                      *)
(***************************************************************************)
EXTENDS ParseBat, FiniteSetTheorems, FunctionTheorems, SequenceTheorems, TLAPS

\* The buffer holds the last read, and the end is where the text ends.
Window ==
  /\ state = "OK" => /\ fed >= bufsize
                     /\ \A i \in 0 .. bufsize - 1 : buf[i] = text[fed - bufsize + i + 1]
  /\ state = "EOF" => fed = Len(text)
  /\ state = "ERR" <=> bufsize = -EIO

\* A line is begun only while there is room for its address.
Room == pc \in {"gap1", "word", "gap2", "mac"} => Len(devs) < MaxDev

IInv == TypeOK /\ Window /\ Room

LEMMA AfterFacts ==
  /\ DOMAIN After = {"gap1", "word", "gap2"}
  /\ After["gap1"] = "word" /\ After["word"] = "gap2" /\ After["gap2"] = "mac"
  BY DEF After

\* Every text is a sequence of characters.
LEMMA TextIsSeq ==
  ASSUME TypeOK
  PROVE  text \in Seq(Char) /\ Len(text) \in Nat
<1>1. <<>> \in Seq(Char)
  OBVIOUS
<1>2. text \in Seq(Char)
  BY <1>1, TextAssumption DEF TypeOK
<1> QED BY <1>2

LEMMA InitInv == Init => IInv
<1> SUFFICES ASSUME Init PROVE IInv
  OBVIOUS
<1>1. NL \in Char
  BY TextAssumption
<1>2. <<>> \in Seq(Char) /\ Len(<<>>) = 0 /\ <<>> \in Seq(Seq(Char))
  OBVIOUS
<1>3. buf \in [0 .. PipeBuf - 1 -> Char]
  BY <1>1 DEF Init
<1>4. TypeOK
  BY <1>2, <1>3, SizeAssumption DEF Init, TypeOK, EIO, EINVAL
<1> QED BY <1>4 DEF Init, IInv, Window, Room, EIO

\* A call begins with an empty buffer.
LEMMA CallInv == IInv /\ Call => IInv'
<1> SUFFICES ASSUME IInv, Call PROVE IInv'
  OBVIOUS
<1>1. <<>> \in Seq(Char) /\ Len(<<>>) = 0 /\ <<>> \in Seq(Seq(Char))
  OBVIOUS
<1>2. text' \in Seq(Char) /\ Len(text') \in Nat
  BY TextAssumption DEF Call
<1>3. TypeOK'
  BY <1>1, <1>2, SizeAssumption DEF Call, IInv, TypeOK, EIO, EINVAL
<1> QED BY <1>3 DEF Call, IInv, Window, Room, EIO

\* A read replaces the window, or ends the text, or fails.
LEMMA FillInv == IInv /\ Fill => IInv'
<1> SUFFICES ASSUME IInv, Fill PROVE IInv'
  OBVIOUS
<1>1. text \in Seq(Char) /\ Len(text) \in Nat
  BY TextIsSeq DEF IInv
<1>2. CASE \E n \in 1 .. PipeBuf :
             /\ fed + n <= Len(text)
             /\ fed' = fed + n /\ bufsize' = n /\ offset' = 0
             /\ buf' = [i \in DOMAIN buf |-> IF i < n THEN text[fed + 1 + i] ELSE buf[i]]
             /\ UNCHANGED state
  <2>1. PICK n \in 1 .. PipeBuf :
             /\ fed + n <= Len(text)
             /\ fed' = fed + n /\ bufsize' = n /\ offset' = 0
             /\ buf' = [i \in DOMAIN buf |-> IF i < n THEN text[fed + 1 + i] ELSE buf[i]]
             /\ UNCHANGED state
    BY <1>2
  <2>2. buf \in [0 .. PipeBuf - 1 -> Char] /\ fed \in Nat /\ PipeBuf \in Nat
    BY SizeAssumption DEF IInv, TypeOK
  <2>3. \A i \in 0 .. PipeBuf - 1 : i < n => text[fed + 1 + i] \in Char
    BY <1>1, <2>1, <2>2
  <2>4. buf' \in [0 .. PipeBuf - 1 -> Char]
    BY <2>1, <2>2, <2>3
  <2>5. \A i \in 0 .. n - 1 : buf'[i] = text[fed + 1 + i]
    BY <2>1, <2>2
  <2>6. UNCHANGED <<text, pc, lines, mac, devs, ret>> /\ state = "OK"
    BY DEF Fill
  <2>7. TypeOK'
    BY <1>1, <2>1, <2>2, <2>4, <2>6 DEF IInv, TypeOK, EIO, EINVAL
  <2>8. Window'
    BY <2>1, <2>2, <2>5, <2>6 DEF Window, EIO
  <2> QED BY <2>6, <2>7, <2>8 DEF IInv, Room
<1>3. CASE /\ fed = Len(text)
           /\ bufsize' = 0 /\ state' = "EOF" /\ UNCHANGED <<fed, offset, buf>>
  <2>1. TypeOK'
    BY <1>1, <1>3, SizeAssumption DEF Fill, IInv, TypeOK, EIO, EINVAL
  <2> QED BY <1>3, <2>1 DEF Fill, IInv, Window, Room, EIO
<1>4. CASE bufsize' = -EIO /\ state' = "ERR" /\ UNCHANGED <<fed, offset, buf>>
  <2>1. TypeOK'
    BY <1>1, <1>4, SizeAssumption DEF Fill, IInv, TypeOK, EIO, EINVAL
  <2> QED BY <1>4, <2>1 DEF Fill, IInv, Window, Room, EIO
<1> QED BY <1>2, <1>3, <1>4 DEF Fill

\* The loops only move offset, within what was read, and keep the types.
LEMMA LoopInv ==
  ASSUME IInv, NEW ch \in Char,
         SkipLine(ch) \/ Peek(ch) \/ PassOver(ch) \/ Copy(ch)
  PROVE  IInv'
<1>1. text \in Seq(Char) /\ Len(text) \in Nat /\ MacLen \in Nat \ {0} /\ MaxDev \in Nat
  BY TextIsSeq, SizeAssumption DEF IInv
<1>a. /\ state = "OK" /\ offset \in 0 .. PipeBuf /\ bufsize \in 0 .. PipeBuf /\ offset < bufsize
      /\ PipeBuf \in Nat /\ UNCHANGED <<text, fed, buf, bufsize, state>>
      /\ offset' \in {offset, offset + 1}
  BY SizeAssumption DEF SkipLine, Peek, PassOver, Copy, Buffered, Advance, IInv, TypeOK, EIO
<1>b. /\ text' \in Texts \cup {<<>>} /\ fed' \in 0 .. Len(text')
      /\ buf' \in [0 .. PipeBuf - 1 -> Char]
      /\ bufsize' \in {-EIO} \cup 0 .. PipeBuf
      /\ state' \in {"OK", "EOF", "ERR"}
  BY <1>1, <1>a DEF IInv, TypeOK
<1>c. offset' \in 0 .. PipeBuf /\ (state' = "OK" => offset' <= bufsize')
  BY <1>a
<1>d. Window'
  BY <1>a DEF IInv, Window
<1>e. /\ pc' \in {"idle", "done", "lines", "peek", "mac", "gap1", "word", "gap2"}
      /\ lines' \in 0 .. 2 /\ (pc' = "lines" => lines' > 0)
      /\ mac' \in Seq(Char) /\ Len(mac') < MacLen
      /\ devs' \in Seq(Seq(Char)) /\ Len(devs') <= MaxDev
      /\ ret' \in {-EINVAL, -EIO} \cup 0 .. MaxDev
      /\ Room'
  <2>1. /\ pc \in {"idle", "done", "lines", "peek", "mac", "gap1", "word", "gap2"}
        /\ lines \in 0 .. 2 /\ (pc = "lines" => lines > 0)
        /\ mac \in Seq(Char) /\ Len(mac) \in Nat /\ Len(mac) < MacLen
        /\ devs \in Seq(Seq(Char)) /\ Len(devs) \in Nat /\ Len(devs) <= MaxDev
        /\ ret \in {-EINVAL, -EIO} \cup 0 .. MaxDev
        /\ Room
    BY AfterFacts DEF IInv, TypeOK
  <2>2. CASE SkipLine(ch)
    BY <1>1, <2>1, <2>2 DEF SkipLine, Room
  <2>3. CASE Peek(ch)
    BY <1>1, <2>1, <2>3 DEF Peek, Room
  <2>4. CASE PassOver(ch)
    <3>1. pc \in {"gap1", "word", "gap2"}
      BY <2>4, AfterFacts DEF PassOver
    <3>2. pc' \in {"gap1", "word", "gap2", "mac"} /\ UNCHANGED <<lines, mac, devs, ret>>
      BY <2>4, <3>1, AfterFacts DEF PassOver
    <3> QED BY <2>1, <3>1, <3>2 DEF Room
  <2>5. CASE Copy(ch)
    <3> DEFINE m == Append(mac, ch)
    <3>1. m \in Seq(Char) /\ Len(m) = Len(mac) + 1
      BY <2>1
    <3>2. pc = "mac" /\ UNCHANGED ret
      BY <2>5 DEF Copy
    <3>3. CASE Len(mac) + 1 < MacLen
      <4>1. mac' = m /\ UNCHANGED <<devs, pc, lines>>
        BY <2>5, <3>3 DEF Copy
      <4> QED BY <1>1, <2>1, <3>1, <3>2, <3>3, <4>1 DEF Room
    <3>4. CASE ~(Len(mac) + 1 < MacLen)
      <4>1. devs' = Append(devs, m) /\ mac' = <<>> /\ pc' = "lines" /\ lines' = 1
        BY <2>5, <3>4 DEF Copy
      <4>2. devs' \in Seq(Seq(Char)) /\ Len(devs') = Len(devs) + 1
        BY <2>1, <3>1, <4>1
      <4>3. Len(devs) < MaxDev
        BY <2>1, <3>2 DEF Room
      <4>4. mac' \in Seq(Char) /\ Len(mac') = 0
        BY <4>1
      <4> QED BY <1>1, <2>1, <3>2, <4>1, <4>2, <4>3, <4>4 DEF Room
    <3> QED BY <3>3, <3>4
  <2> QED BY <2>2, <2>3, <2>4, <2>5
<1>f. TypeOK'
  BY <1>b, <1>c, <1>e, AfterFacts DEF TypeOK
<1> QED BY <1>d, <1>e, <1>f DEF IInv

\* The end and an error end the call.
LEMMA StopInv == IInv /\ Stop => IInv'
<1> SUFFICES ASSUME IInv, Stop PROVE IInv'
  OBVIOUS
<1>1. ret' \in {-EINVAL, -EIO} \cup 0 .. MaxDev
  <2>1. Len(devs) \in 0 .. MaxDev /\ (state = "ERR" => bufsize = -EIO)
    BY SizeAssumption DEF IInv, TypeOK, Window
  <2> QED BY <2>1 DEF Stop
<1>2. UNCHANGED <<text, fed, buf, bufsize, offset, state, lines, mac, devs>> /\ pc' = "done"
  BY DEF Stop, statics
<1>3. TypeOK'
  BY <1>1, <1>2, AfterFacts DEF IInv, TypeOK
<1>4. Window'
  BY <1>2 DEF IInv, Window
<1> QED BY <1>2, <1>3, <1>4 DEF IInv, Room

LEMMA NextInv == IInv /\ [Next]_vars => IInv'
<1> SUFFICES ASSUME IInv, [Next]_vars PROVE IInv'
  OBVIOUS
<1>1. CASE Next
  BY <1>1, CallInv, FillInv, LoopInv, StopInv DEF Next, Step
<1>2. CASE UNCHANGED vars
  BY <1>2 DEF vars, statics, IInv, TypeOK, Window, Room
<1> QED BY <1>1, <1>2

LEMMA Inductive == Spec => []IInv
  BY InitInv, NextInv, PTL DEF Spec

\* No character is read from outside buf, no address is written beyond the
\* caller's array, and only errors are negative (parsebat.c:77-97, 198-245).
THEOREM TypeCorrect == Spec => []TypeOK
  BY Inductive, PTL DEF IInv
-----------------------------------------------------------------------------
\* What is buffered is what comes next in the text.
LEMMA Reads ==
  ASSUME IInv, NEW ch \in Char, Buffered(ch)
  PROVE  /\ text \in Seq(Char) /\ Len(text) \in Nat
         /\ Taken \in Nat /\ Taken < Len(text) /\ ch = text[Taken + 1]
         /\ (Advance /\ UNCHANGED <<fed, bufsize, state>> => Taken' = Taken + 1)
         /\ (UNCHANGED <<offset, fed, bufsize, state>> => Taken' = Taken)
<1>1. text \in Seq(Char) /\ Len(text) \in Nat
  BY TextIsSeq DEF IInv
<1>2. /\ state = "OK" /\ offset < bufsize /\ ch = buf[offset]
      /\ offset \in Nat /\ bufsize \in Nat /\ fed \in 0 .. Len(text)
  BY SizeAssumption DEF Buffered, IInv, TypeOK, EIO
<1>3. fed >= bufsize /\ ch = text[fed - bufsize + offset + 1]
  BY <1>2 DEF IInv, Window
<1>4. Taken = fed - bufsize + offset /\ Taken \in Nat /\ Taken < Len(text)
  BY <1>1, <1>2, <1>3 DEF Taken
<1>5. ch = text[Taken + 1]
  BY <1>1, <1>3, <1>4
<1>6. Advance /\ UNCHANGED <<fed, bufsize, state>> => Taken' = Taken + 1
  BY <1>1, <1>2, <1>3 DEF Taken, Advance
<1> QED BY <1>1, <1>4, <1>5, <1>6 DEF Taken

LEMMA NextCharacter ==
  ASSUME IInv, NEW ch \in Char, Buffered(ch)
  PROVE  /\ Whole!Next1(ch) /\ ch \in {text[i] : i \in DOMAIN text}
         /\ (Advance /\ UNCHANGED <<fed, bufsize, state>> => Whole!Take)
         /\ (UNCHANGED <<offset, fed, bufsize, state>> => UNCHANGED Taken)
<1>1. /\ text \in Seq(Char) /\ Len(text) \in Nat
      /\ Taken \in Nat /\ Taken < Len(text) /\ ch = text[Taken + 1]
      /\ (Advance /\ UNCHANGED <<fed, bufsize, state>> => Taken' = Taken + 1)
      /\ (UNCHANGED <<offset, fed, bufsize, state>> => Taken' = Taken)
  BY Reads
<1>2. Taken + 1 \in DOMAIN text
  BY <1>1
<1> QED BY <1>1, <1>2 DEF Whole!Next1, Whole!Take

\* A read moves nothing that the text's parser sees.
LEMMA FillIsInvisible ==
  ASSUME IInv, Fill
  PROVE  UNCHANGED <<text, Taken, pc, lines, mac, devs, ret>>
<1>1. fed \in Nat /\ offset \in Nat /\ bufsize \in Nat /\ state = "OK" /\ offset = bufsize
  <2>1. text \in Seq(Char) /\ Len(text) \in Nat
    BY TextIsSeq DEF IInv
  <2> QED BY <2>1, SizeAssumption DEF Fill, IInv, TypeOK, EIO
<1>2. Taken' = Taken
  BY <1>1 DEF Fill, Taken
<1> QED BY <1>2 DEF Fill

LEMMA InitWhole == Init => Whole!Init
  BY DEF Init, Whole!Init, Taken

LEMMA StepWhole ==
  ASSUME IInv, [Next]_vars
  PROVE  [Whole!Next]_(Whole!vars)
<1> USE DEF Whole!vars
<1>1. CASE Call
  <2>1. Taken' = 0
    BY <1>1 DEF Call, Taken
  <2> QED BY <1>1, <2>1 DEF Call, Running, Whole!Next, Whole!Call
<1>2. CASE Fill
  BY <1>2, FillIsInvisible
<1>3. CASE Stop
  <2>1. Taken' = Taken /\ UNCHANGED <<text, lines, mac, devs>> /\ pc' = "done"
    BY <1>3 DEF Stop, statics, Taken
  <2>2. CASE state = "ERR"
    <3>1. ret' = -EIO /\ Running
      BY <1>3, <2>2 DEF Stop, IInv, Window
    <3>2. Whole!Fail
      BY <2>1, <3>1 DEF Whole!Fail, Running, EIO, Whole!EIO
    <3> QED BY <3>2 DEF Whole!Next
  <2>3. CASE state = "EOF"
    <3>1. Taken = Len(text) /\ Running
      BY <1>3, <2>3 DEF Stop, IInv, Window, Taken
    <3>2. Whole!End
      BY <1>3, <2>1, <2>3, <3>1 DEF Stop, Whole!End, Running, EINVAL, Whole!EINVAL
    <3> QED BY <3>2 DEF Whole!Next
  <2> QED BY <1>3, <2>2, <2>3 DEF Stop, IInv, TypeOK
<1>4. ASSUME NEW ch \in Char, SkipLine(ch) PROVE Whole!Next
  <2>1. Whole!SkipLine(ch)
    BY <1>4, NextCharacter DEF SkipLine, Whole!SkipLine
  <2> QED BY <1>4, <2>1, NextCharacter DEF SkipLine, Whole!Next
<1>5. ASSUME NEW ch \in Char, Peek(ch) PROVE Whole!Next
  <2>1. Whole!Peek
    BY <1>5, NextCharacter DEF Peek, Whole!Peek
  <2> QED BY <1>5, <2>1, NextCharacter DEF Peek, Whole!Next
<1>6. ASSUME NEW ch \in Char, PassOver(ch) PROVE Whole!Next
  <2>1. Whole!PassOver(ch)
    BY <1>6, NextCharacter DEF PassOver, Whole!PassOver, After, Whole!After
  <2> QED BY <1>6, <2>1, NextCharacter DEF PassOver, Whole!Next
<1>7. ASSUME NEW ch \in Char, Copy(ch) PROVE Whole!Next
  <2>1. Whole!Copy(ch)
    BY <1>7, NextCharacter DEF Copy, Whole!Copy
  <2> QED BY <1>7, <2>1, NextCharacter DEF Copy, Whole!Next
<1>8. CASE UNCHANGED vars
  BY <1>8 DEF vars, statics, Taken
<1> QED BY <1>1, <1>2, <1>3, <1>4, <1>5, <1>6, <1>7, <1>8 DEF Next, Step

(***************************************************************************)
(* The system call over reads of any length implements the parser of the   *)
(* whole text, for every text, buffer and length of address: where the     *)
(* reads cut it makes no difference (parsebat.c:77-157).                   *)
(***************************************************************************)
THEOREM ImplementsTextParse == Spec => CutsInvisible
<1>1. IInv /\ [Next]_vars => [Whole!Next]_(Whole!vars)
  BY StepWhole
<1> QED BY <1>1, InitWhole, Inductive, PTL DEF Spec, CutsInvisible, Whole!Spec
-----------------------------------------------------------------------------
(* A text that is Tabular: p characters of it are read, and n addresses.   *)

\* s is where the row begins that is being read.
InRow(t, n, p, s) ==
  /\ p \in Nat /\ s \in Starts(t) /\ s <= p
  /\ Line(t, s) = n + 2 /\ Line(t, p + 1) = n + 2

\* The words that begin among the first p characters, from s on.
WordsUpTo(t, s, p) == {j \in s .. p : WordAt(t, j)}

AtGap1(t, n, p, s) ==
  InRow(t, n, p, s) /\ WordsUpTo(t, s, p) = {} /\ t[p] \in Blank

AtWord(t, n, p, s, w) ==
  /\ InRow(t, n, p, s) /\ w \in s .. p + 1 /\ w <= Len(t) /\ WordAt(t, w)
  /\ WordsUpTo(t, s, p) = {w} \ {p + 1}
  /\ w <= p => t[p] \notin Blank

AtGap2(t, n, p, s, w) ==
  /\ InRow(t, n, p, s) /\ WordsUpTo(t, s, p) = {w}
  /\ t[p] \in Blank \/ (p < Len(t) /\ t[p + 1] \in Blank)

\* The address begins at b, and m has been read of it.
AtMac(t, n, p, s, b, m) ==
  /\ InRow(t, n, p, s) /\ b \in Beginnings(t) /\ Line(t, b) = n + 2
  /\ b + Len(m) = p + 1
  /\ \A k \in 1 .. Len(m) : m[k] = t[b + k - 1]

\* What has been taken is the address of each row in turn.
Collected(t, d) ==
  \A r \in 1 .. Len(d) :
    /\ \E s \in Starts(t) : Line(t, s) = r + 1
    /\ \E b \in WholeOnes(t) : /\ Line(t, b) = r + 1
                               /\ d[r] = SubSeq(t, b, b + MacLen - 1)

\* There is no other row than the first n, and no address in another one.
NoRowBeyond(t, n) == \A s \in Starts(t) : Line(t, s) <= n + 1
NoneBeyond(t, n) == \A i \in WholeOnes(t) : Line(t, i) <= n + 1

-----------------------------------------------------------------------------
(* The parser in its loops.                                                *)

BetweenRows ==
  /\ pc = "lines" =>
       \/ lines = 2 /\ devs = <<>> /\ Line(text, Taken + 1) = 0
       \/ lines = 1 /\ Line(text, Taken + 1) = Len(devs) + 1
  /\ pc = "peek" =>
       Taken > 0 /\ text[Taken] = NL /\ Line(text, Taken + 1) = Len(devs) + 2

WithinRow ==
  /\ pc = "gap1" => \E s : AtGap1(text, Len(devs), Taken, s)
  /\ pc = "word" => \E s, w : AtWord(text, Len(devs), Taken, s, w)
  /\ pc = "gap2" => \E s, w : AtGap2(text, Len(devs), Taken, s, w)
  /\ pc = "mac" => \E s, b : AtMac(text, Len(devs), Taken, s, b, mac)
  /\ Running /\ pc # "mac" => mac = <<>>

Ended ==
  pc = "done" =>
    \/ state = "OK" /\ ret = Len(devs) /\ Len(devs) = MaxDev
    \/ /\ state = "EOF" /\ ret = Len(devs)
       /\ NoRowBeyond(text, Len(devs)) /\ NoneBeyond(text, Len(devs))
    \/ /\ state = "EOF" /\ ret = -EINVAL /\ Len(devs) < MaxDev
       /\ NoneBeyond(text, Len(devs))
       /\ \E s \in Starts(text) : Line(text, s) = Len(devs) + 2
    \/ state = "ERR" /\ ret = -EIO

Parsed == Collected(text, devs) /\ BetweenRows /\ WithinRow /\ Ended

ParseInv == IInv /\ (Tabular(text) => Parsed)
-----------------------------------------------------------------------------
(* Lines, rows and words of a text.                                        *)

\* The number of a line grows by one at each newline.
LEMMA LineIsNat ==
  ASSUME NEW t, NEW i \in Nat
  PROVE  Line(t, i) \in Nat /\ Line(t, 1) = 0
<1> DEFINE N(k) == {j \in 1 .. k - 1 : t[j] = NL}
<1>1. N(i) \subseteq 1 .. i - 1 /\ IsFiniteSet(1 .. i - 1)
  BY FS_Interval
<1>2. N(1) = {}
  OBVIOUS
<1> HIDE DEF N
<1>3. Cardinality(N(i)) \in Nat /\ Cardinality(N(1)) = 0
  BY <1>1, <1>2, FS_Subset, FS_CardinalityType, FS_EmptySet
<1> QED
  BY <1>3 DEF Line, N

LEMMA LineNext ==
  ASSUME NEW t, NEW i \in Nat \ {0}
  PROVE  Line(t, i + 1) = IF t[i] = NL THEN Line(t, i) + 1 ELSE Line(t, i)
<1> DEFINE N(k) == {j \in 1 .. k - 1 : t[j] = NL}
<1>1. N(i) \subseteq 1 .. i - 1 /\ IsFiniteSet(1 .. i - 1)
  BY FS_Interval
<1>2. IsFiniteSet(N(i)) /\ i \notin N(i)
  BY <1>1, FS_Subset
<1>3. N(i + 1) = IF t[i] = NL THEN N(i) \cup {i} ELSE N(i)
  <2>1. \A j : j \in 1 .. (i + 1) - 1 <=> j \in 1 .. i - 1 \/ j = i
    OBVIOUS
  <2> QED
    BY <2>1
<1> HIDE DEF N
<1>4. Cardinality(N(i + 1)) = IF t[i] = NL THEN Cardinality(N(i)) + 1 ELSE Cardinality(N(i))
  BY <1>2, <1>3, FS_AddElement
<1> QED
  BY <1>4 DEF Line, N

LEMMA LineGrows ==
  ASSUME NEW t, NEW i \in Nat \ {0}, NEW j \in Nat \ {0}, i <= j
  PROVE  Line(t, i) <= Line(t, j)
<1> DEFINE N(k) == {l \in 1 .. k - 1 : t[l] = NL}
<1>1. N(j) \subseteq 1 .. j - 1 /\ IsFiniteSet(1 .. j - 1)
  BY FS_Interval
<1>2. N(i) \in SUBSET N(j)
  OBVIOUS
<1> HIDE DEF N
<1>3. IsFiniteSet(N(j))
  BY <1>1, FS_Subset
<1>4. Cardinality(N(i)) <= Cardinality(N(j))
  BY <1>2, <1>3, FS_Subset
<1> QED
  BY <1>4 DEF Line, N

\* What is before the beginning of a row is in a line before it.
LEMMA StartFacts ==
  ASSUME NEW t \in Seq(Char), NEW s \in Starts(t)
  PROVE  /\ s \in 2 .. Len(t) /\ t[s - 1] = NL /\ Line(t, s) \in Nat /\ Line(t, s) >= 2
         /\ \A i \in Nat \ {0} : i < s => Line(t, i) < Line(t, s)
<1>1. s \in 1 .. Len(t) /\ Line(t, s) >= 2 /\ t[s - 1] = NL /\ Len(t) \in Nat
  BY DEF Starts
<1>2. s # 1
  BY <1>1, LineIsNat
<1>3. s \in 2 .. Len(t) /\ s - 1 \in Nat \ {0} /\ (s - 1) + 1 = s /\ s \in Nat
  BY <1>1, <1>2
<1>4. Line(t, s) = Line(t, s - 1) + 1 /\ Line(t, s - 1) \in Nat /\ Line(t, s) \in Nat
  <2>1. Line(t, (s - 1) + 1) = Line(t, s - 1) + 1
    BY <1>1, <1>3, LineNext
  <2> QED
    BY <1>3, <2>1, LineIsNat
<1>5. ASSUME NEW i \in Nat \ {0}, i < s PROVE Line(t, i) < Line(t, s)
  <2>1. i <= s - 1
    BY <1>3, <1>5
  <2>2. Line(t, i) <= Line(t, s - 1) /\ Line(t, i) \in Nat
    BY <1>3, <2>1, LineGrows, LineIsNat
  <2> QED
    BY <1>4, <2>2
<1> QED
  BY <1>1, <1>3, <1>4, <1>5

\* A second word of a line is its only one.
LEMMA OneBeginning ==
  ASSUME NEW t \in Seq(Char), NEW b \in Beginnings(t), NEW c \in Beginnings(t),
         Line(t, b) = Line(t, c)
  PROVE  b = c
<1>1. ASSUME NEW x \in Beginnings(t), NEW y \in Beginnings(t), x < y,
             Line(t, x) = Line(t, y)
      PROVE  FALSE
  <2> DEFINE V == WordsBefore(t, x)
             W == WordsBefore(t, y)
  <2>1. /\ x \in 1 .. Len(t) /\ y \in 1 .. Len(t) /\ Len(t) \in Nat /\ WordAt(t, x)
        /\ Cardinality(V) = 1 /\ Cardinality(W) = 1
    BY DEF Beginnings
  <2>2. V \subseteq 1 .. x - 1 /\ W \subseteq 1 .. y - 1
    BY DEF WordsBefore
  <2>a. x - 1 \in Int /\ y - 1 \in Int
    BY <2>1
  <2>3. IsFiniteSet(1 .. y - 1) /\ IsFiniteSet(1 .. x - 1)
    BY <2>a, FS_Interval
  <2>4. IsFiniteSet(V) /\ IsFiniteSet(W)
    BY <2>2, <2>3, FS_Subset
  <2>5. V \cup {x} \in SUBSET W
    BY <1>1, <2>1 DEF WordsBefore
  <2>6. x \notin V
    BY <2>1, <2>2
  <2> HIDE DEF V, W
  <2>7. Cardinality(V \cup {x}) = Cardinality(V) + 1
    BY <2>4, <2>6, FS_AddElement
  <2>8. Cardinality(V \cup {x}) <= Cardinality(W)
    BY <2>4, <2>5, FS_Subset
  <2> QED
    BY <2>1, <2>7, <2>8
<1>2. b \in Nat /\ c \in Nat
  BY DEF Beginnings
<1>3. ~(b < c) /\ ~(c < b)
  BY <1>1
<1> QED
  BY <1>2, <1>3

\* Nor has a row two beginnings.
LEMMA OneStart ==
  ASSUME NEW t \in Seq(Char), NEW r \in Starts(t), NEW s \in Starts(t),
         Line(t, r) = Line(t, s)
  PROVE  r = s
<1>1. /\ r \in Nat \ {0} /\ s \in Nat \ {0} /\ Line(t, r) \in Nat /\ Line(t, s) \in Nat
      /\ \A i \in Nat \ {0} : i < s => Line(t, i) < Line(t, s)
      /\ \A i \in Nat \ {0} : i < r => Line(t, i) < Line(t, r)
  BY StartFacts
<1>2. ~(r < s) /\ ~(s < r)
  BY <1>1
<1> QED
  BY <1>1, <1>2

\* A second word has the first one before it in its row.
LEMMA WordBefore ==
  ASSUME NEW t \in Seq(Char), NEW s \in Starts(t), NEW b \in Beginnings(t),
         Line(t, b) = Line(t, s)
  PROVE  /\ s <= b /\ b \in 1 .. Len(t) /\ WordAt(t, b)
         /\ \E w \in s .. b - 1 : WordAt(t, w)
<1>1. /\ s \in Nat \ {0} /\ Line(t, s) \in Nat
      /\ \A i \in Nat \ {0} : i < s => Line(t, i) < Line(t, s)
  BY StartFacts
<1>2. /\ b \in 1 .. Len(t) /\ Len(t) \in Nat /\ WordAt(t, b)
      /\ Cardinality(WordsBefore(t, b)) = 1
  BY DEF Beginnings
<1>3. ~(b < s)
  BY <1>1, <1>2
<1>4. WordsBefore(t, b) # {}
  <2> SUFFICES ASSUME WordsBefore(t, b) = {} PROVE FALSE
    OBVIOUS
  <2>1. Cardinality(WordsBefore(t, b)) = 0
    BY FS_EmptySet
  <2> QED
    BY <1>2, <2>1
<1>5. PICK w \in WordsBefore(t, b) : TRUE
  BY <1>4
<1>6. w \in 1 .. b - 1 /\ WordAt(t, w) /\ Line(t, w) = Line(t, s)
  BY DEF WordsBefore
<1>7. ~(w < s)
  BY <1>1, <1>6
<1>8. s <= b /\ w \in s .. b - 1
  BY <1>1, <1>2, <1>3, <1>6, <1>7
<1> QED
  BY <1>2, <1>6, <1>8

\* The words up to one character more.
LEMMA WordsNext ==
  ASSUME NEW t, NEW s \in Nat, NEW p \in Nat, s <= p + 1
  PROVE  WordsUpTo(t, s, p + 1) =
           IF WordAt(t, p + 1) THEN WordsUpTo(t, s, p) \cup {p + 1} ELSE WordsUpTo(t, s, p)
<1>1. \A j : j \in s .. p + 1 <=> j \in s .. p \/ j = p + 1
  OBVIOUS
<1> QED
  BY <1>1 DEF WordsUpTo
-----------------------------------------------------------------------------
(* A character more is read, of a row.                                     *)

\* The columns between the beginning of a row and what is read are its line.
LEMMA SameLine ==
  ASSUME NEW t \in Seq(Char), NEW n \in Nat, NEW p, NEW s, InRow(t, n, p, s)
  PROVE  /\ p \in Nat /\ s \in 2 .. p /\ s <= Len(t) /\ t[s - 1] = NL
         /\ \A j \in 1 .. p + 1 : Line(t, j) = n + 2 <=> s <= j
<1>1. /\ p \in Nat /\ s \in Starts(t) /\ s <= p /\ s \in 2 .. Len(t) /\ t[s - 1] = NL
      /\ Line(t, s) = n + 2 /\ Line(t, p + 1) = n + 2
      /\ \A i \in Nat \ {0} : i < s => Line(t, i) < Line(t, s)
  BY StartFacts DEF InRow
<1>2. ASSUME NEW j \in 1 .. p + 1 PROVE Line(t, j) = n + 2 <=> s <= j
  <2>1. j \in Nat \ {0} /\ s \in Nat \ {0} /\ p + 1 \in Nat \ {0} /\ j <= p + 1
    BY <1>1
  <2>2. Line(t, j) \in Nat
    BY <2>1, LineIsNat
  <2>3. CASE s <= j
    <3>1. Line(t, s) <= Line(t, j) /\ Line(t, j) <= Line(t, p + 1)
      BY <2>1, <2>3, LineGrows
    <3> QED
      BY <1>1, <2>2, <2>3, <3>1
  <2>4. CASE ~(s <= j)
    <3>1. Line(t, j) < Line(t, s)
      BY <1>1, <2>1, <2>4
    <3> QED
      BY <1>1, <2>2, <2>4, <3>1
  <2> QED
    BY <2>3, <2>4
<1> QED
  BY <1>1, <1>2

LEMMA RowNext ==
  ASSUME NEW t \in Seq(Char), NEW n \in Nat, NEW p, NEW s, InRow(t, n, p, s),
         t[p + 1] # NL
  PROVE  InRow(t, n, p + 1, s)
<1>1. p \in Nat /\ s \in 2 .. p
  BY SameLine
<1>2. p + 1 \in Nat \ {0} /\ s <= p + 1
  BY <1>1
<1>3. Line(t, (p + 1) + 1) = Line(t, p + 1)
  BY <1>2, LineNext
<1> QED
  BY <1>2, <1>3 DEF InRow

\* A row does not end before it has an address.
LEMMA NoEnd ==
  ASSUME NEW t \in Seq(Char), Tabular(t), NEW n \in Nat, NEW p, NEW s, InRow(t, n, p, s),
         p < Len(t), t[p + 1] = NL
  PROVE  \E b \in Beginnings(t) : Line(t, b) = n + 2 /\ b + MacLen <= p + 1
<1>1. p \in Nat /\ Len(t) \in Nat /\ Line(t, p + 1) = n + 2
  BY SameLine DEF InRow
<1>2. p + 1 \in 1 .. Len(t) /\ Line(t, p + 1) >= 2
  BY <1>1
<1> QED
  BY <1>1, <1>2 DEF Tabular

\* A second word and the one before it are read when its beginning is.
LEMMA TwoWords ==
  ASSUME NEW t \in Seq(Char), NEW n \in Nat, NEW p, NEW s, InRow(t, n, p, s),
         NEW b \in Beginnings(t), Line(t, b) = n + 2, b <= p
  PROVE  \E w \in WordsUpTo(t, s, p) : w # b /\ b \in WordsUpTo(t, s, p)
<1>1. p \in Nat /\ s \in Starts(t) /\ s \in 2 .. p /\ Line(t, b) = Line(t, s)
  BY SameLine DEF InRow
<1>2. /\ s <= b /\ b \in 1 .. Len(t) /\ WordAt(t, b)
      /\ \E w \in s .. b - 1 : WordAt(t, w)
  BY <1>1, WordBefore
<1>3. PICK w \in s .. b - 1 : WordAt(t, w)
  BY <1>2
<1>4. w \in s .. p /\ b \in s .. p /\ w # b
  BY <1>1, <1>2
<1> QED
  BY <1>2, <1>3, <1>4 DEF WordsUpTo

\* So a newline cannot come while there is one word.
LEMMA RowGoesOn ==
  ASSUME NEW t \in Seq(Char), Tabular(t), NEW n \in Nat, NEW p, NEW s, InRow(t, n, p, s),
         p < Len(t), NEW w, WordsUpTo(t, s, p) \subseteq {w}
  PROVE  t[p + 1] # NL /\ InRow(t, n, p + 1, s)
<1>1. p \in Nat /\ MacLen \in Nat \ {0}
  BY SameLine, SizeAssumption
<1>2. ASSUME t[p + 1] = NL PROVE FALSE
  <2>1. PICK b \in Beginnings(t) : Line(t, b) = n + 2 /\ b + MacLen <= p + 1
    BY <1>2, NoEnd
  <2>2. b \in Nat
    BY DEF Beginnings
  <2>3. b <= p
    BY <1>1, <2>1, <2>2
  <2> QED
    BY <2>1, <2>3, TwoWords
<1> QED
  BY <1>2, RowNext

\* A row begins, with a blank.
LEMMA PeekRow ==
  ASSUME NEW t \in Seq(Char), Tabular(t), NEW n \in Nat, NEW p \in Nat \ {0}, p < Len(t),
         t[p] = NL, Line(t, p + 1) = n + 2
  PROVE  AtGap1(t, n, p + 1, p + 1)
<1>1. p + 1 \in 1 .. Len(t) /\ (p + 1) - 1 = p /\ p + 1 \in Nat \ {0} /\ p + 1 <= p + 1
      /\ n + 2 >= 2
  OBVIOUS
<1>2. p + 1 \in Starts(t)
  BY <1>1 DEF Starts
<1>3. t[p + 1] \in Blank /\ t[p + 1] # NL
  BY <1>2 DEF Tabular
<1>4. Line(t, (p + 1) + 1) = Line(t, p + 1)
  BY <1>1, <1>3, LineNext
<1>5. InRow(t, n, p + 1, p + 1)
  BY <1>1, <1>2, <1>4 DEF InRow
<1>6. \A j : j \in (p + 1) .. (p + 1) <=> j = p + 1
  BY <1>1
<1>7. WordsUpTo(t, p + 1, p + 1) = {}
  BY <1>3, <1>6 DEF WordsUpTo, WordAt
<1> QED
  BY <1>3, <1>5, <1>7 DEF AtGap1

LEMMA Gap1Step ==
  ASSUME NEW t \in Seq(Char), Tabular(t), NEW n \in Nat, NEW p, NEW s, p < Len(t),
         AtGap1(t, n, p, s)
  PROVE  /\ t[p + 1] \in Blank => AtGap1(t, n, p + 1, s)
         /\ t[p + 1] \notin Blank => AtWord(t, n, p, s, p + 1)
<1>1. InRow(t, n, p, s) /\ WordsUpTo(t, s, p) = {} /\ t[p] \in Blank
  BY DEF AtGap1
<1>2. p \in Nat /\ s \in 2 .. p /\ InRow(t, n, p + 1, s)
  BY <1>1, SameLine, RowGoesOn
<1>3. CASE t[p + 1] \in Blank
  <2>1. ~WordAt(t, p + 1)
    BY <1>3 DEF WordAt
  <2>2. s \in Nat /\ s <= p + 1
    BY <1>2
  <2>3. WordsUpTo(t, s, p + 1) = {}
    BY <1>1, <1>2, <2>1, <2>2, WordsNext
  <2> QED
    BY <1>2, <1>3, <2>3 DEF AtGap1
<1>4. CASE t[p + 1] \notin Blank
  <2>1. (p + 1) - 1 = p /\ p + 1 \in s .. p + 1 /\ p + 1 <= Len(t) /\ ~(p + 1 <= p)
    BY <1>2
  <2>2. WordAt(t, p + 1)
    BY <1>1, <1>4, <2>1 DEF WordAt
  <2>3. WordsUpTo(t, s, p) = {p + 1} \ {p + 1}
    BY <1>1
  <2> QED
    BY <1>1, <1>4, <2>1, <2>2, <2>3 DEF AtWord
<1> QED
  BY <1>3, <1>4

LEMMA WordStep ==
  ASSUME NEW t \in Seq(Char), Tabular(t), NEW n \in Nat, NEW p, NEW s, NEW w, p < Len(t),
         AtWord(t, n, p, s, w)
  PROVE  /\ t[p + 1] \notin Blank => AtWord(t, n, p + 1, s, w)
         /\ t[p + 1] \in Blank => AtGap2(t, n, p, s, w)
<1>1. /\ InRow(t, n, p, s) /\ w \in s .. p + 1 /\ w <= Len(t) /\ WordAt(t, w)
      /\ WordsUpTo(t, s, p) = {w} \ {p + 1}
      /\ w <= p => t[p] \notin Blank
  BY DEF AtWord
<1>2. p \in Nat /\ s \in 2 .. p /\ InRow(t, n, p + 1, s)
  BY <1>1, SameLine, RowGoesOn
<1>3. /\ s \in Nat /\ s <= p + 1 /\ w \in s .. (p + 1) + 1 /\ (p + 1) - 1 = p /\ p + 1 # 1
      /\ w # (p + 1) + 1 /\ (w # p + 1 => w <= p) /\ w <= p + 1
  BY <1>1, <1>2
<1>4. CASE t[p + 1] \notin Blank
  <2>1. WordsUpTo(t, s, p + 1) = {w}
    <3>1. CASE w = p + 1
      <4>1. WordsUpTo(t, s, p + 1) = WordsUpTo(t, s, p) \cup {p + 1}
        BY <1>1, <1>2, <1>3, <3>1, WordsNext
      <4> QED
        BY <1>1, <3>1, <4>1
    <3>2. CASE w # p + 1
      <4>1. ~WordAt(t, p + 1)
        BY <1>1, <1>3, <3>2 DEF WordAt
      <4>2. WordsUpTo(t, s, p + 1) = WordsUpTo(t, s, p)
        BY <1>2, <1>3, <4>1, WordsNext
      <4> QED
        BY <1>1, <3>2, <4>2
    <3> QED
      BY <3>1, <3>2
  <2> QED
    BY <1>1, <1>2, <1>3, <1>4, <2>1 DEF AtWord
<1>5. CASE t[p + 1] \in Blank
  <2>1. w # p + 1
    BY <1>1, <1>5 DEF WordAt
  <2> QED
    BY <1>1, <1>5, <2>1 DEF AtGap2
<1> QED
  BY <1>4, <1>5

LEMMA Gap2Step ==
  ASSUME NEW t \in Seq(Char), Tabular(t), NEW n \in Nat, NEW p, NEW s, NEW w, p < Len(t),
         AtGap2(t, n, p, s, w)
  PROVE  /\ t[p + 1] \in Blank => AtGap2(t, n, p + 1, s, w)
         /\ t[p + 1] \notin Blank => AtMac(t, n, p, s, p + 1, <<>>)
<1>1. /\ InRow(t, n, p, s) /\ WordsUpTo(t, s, p) = {w}
      /\ (t[p] \in Blank) \/ (p < Len(t) /\ t[p + 1] \in Blank)
  BY DEF AtGap2
<1>2. /\ p \in Nat /\ s \in 2 .. p /\ InRow(t, n, p + 1, s)
      /\ \A j \in 1 .. p + 1 : Line(t, j) = n + 2 <=> s <= j
  BY <1>1, SameLine, RowGoesOn
<1>3. /\ s \in Nat /\ s <= p + 1 /\ (p + 1) - 1 = p /\ p + 1 \in 1 .. p + 1
      /\ p + 1 \in 1 .. Len(t) /\ n + 2 >= 2
  BY <1>2
<1>4. CASE t[p + 1] \in Blank
  <2>1. ~WordAt(t, p + 1)
    BY <1>4 DEF WordAt
  <2>2. WordsUpTo(t, s, p + 1) = {w}
    BY <1>1, <1>2, <1>3, <2>1, WordsNext
  <2> QED
    BY <1>2, <1>4, <2>2 DEF AtGap2
<1>5. CASE t[p + 1] \notin Blank
  <2>1. WordAt(t, p + 1)
    BY <1>1, <1>3, <1>5 DEF WordAt
  <2>2. Line(t, p + 1) = n + 2
    BY <1>2, <1>3
  <2>3. \A j : j \in 1 .. p /\ s <= j <=> j \in s .. p
    BY <1>2
  <2>4. \A j \in 1 .. p : Line(t, j) = n + 2 <=> s <= j
    BY <1>2
  <2>5. WordsBefore(t, p + 1) = {w}
    <3>1. WordsBefore(t, p + 1) = {j \in 1 .. p : WordAt(t, j) /\ Line(t, j) = n + 2}
      BY <1>3, <2>2 DEF WordsBefore
    <3>2. WordsBefore(t, p + 1) = {j \in s .. p : WordAt(t, j)}
      BY <2>3, <2>4, <3>1
    <3> QED
      BY <1>1, <3>2 DEF WordsUpTo
  <2>6. Cardinality(WordsBefore(t, p + 1)) = 1
    BY <2>5, FS_Singleton
  <2>7. p + 1 \in Beginnings(t)
    BY <1>3, <2>1, <2>2, <2>6 DEF Beginnings
  <2> DEFINE e == <<>>
  <2>8. (p + 1) + Len(e) = p + 1 /\ \A k \in 1 .. Len(e) : FALSE
    BY <1>2
  <2> HIDE DEF e
  <2>9. AtMac(t, n, p, s, p + 1, e)
    BY <1>1, <2>2, <2>7, <2>8 DEF AtMac
  <2> QED
    BY <1>5, <2>9 DEF e
<1> QED
  BY <1>4, <1>5

\* The address goes on to the character that is read.
LEMMA MacStep ==
  ASSUME NEW t \in Seq(Char), Tabular(t), NEW n \in Nat, NEW p, NEW s, NEW b, p < Len(t),
         NEW m \in Seq(Char), Len(m) < MacLen, AtMac(t, n, p, s, b, m)
  PROVE  AtMac(t, n, p + 1, s, b, Append(m, t[p + 1]))
<1>1. /\ InRow(t, n, p, s) /\ b \in Beginnings(t) /\ Line(t, b) = n + 2
      /\ b + Len(m) = p + 1
      /\ \A k \in 1 .. Len(m) : m[k] = t[b + k - 1]
  BY DEF AtMac
<1>2. p \in Nat /\ b \in Nat /\ Len(m) \in Nat /\ MacLen \in Nat
  BY <1>1, SameLine, SizeAssumption DEF Beginnings
<1>3. t[p + 1] # NL
  <2> SUFFICES ASSUME t[p + 1] = NL PROVE FALSE
    OBVIOUS
  <2>1. PICK c \in Beginnings(t) : Line(t, c) = n + 2 /\ c + MacLen <= p + 1
    BY <1>1, NoEnd
  <2>2. c = b
    BY <1>1, <2>1, OneBeginning
  <2> QED
    BY <1>1, <1>2, <2>1, <2>2
<1>4. InRow(t, n, p + 1, s)
  BY <1>1, <1>3, RowNext
<1> DEFINE x == t[p + 1]
           M == Append(m, x)
<1>5. Len(M) = Len(m) + 1 /\ M[Len(m) + 1] = x /\ \A k \in 1 .. Len(m) : M[k] = m[k]
  BY <1>2
<1>6. b + (Len(m) + 1) = (p + 1) + 1 /\ b + (Len(m) + 1) - 1 = p + 1
  BY <1>1, <1>2
<1>7. \A k : k \in 1 .. Len(m) + 1 <=> k \in 1 .. Len(m) \/ k = Len(m) + 1
  BY <1>2
<1>8. \A k \in 1 .. Len(M) : M[k] = t[b + k - 1]
  BY <1>1, <1>5, <1>6, <1>7
<1> HIDE DEF M
<1>9. AtMac(t, n, p + 1, s, b, M)
  BY <1>1, <1>4, <1>5, <1>6, <1>8 DEF AtMac
<1> QED
  BY <1>9 DEF M

\* The last character of an address makes it a whole one.
LEMMA MacDone ==
  ASSUME NEW t \in Seq(Char), Tabular(t), NEW d \in Seq(Seq(Char)), NEW p, NEW s, NEW b,
         p < Len(t), NEW m \in Seq(Char), Len(m) + 1 = MacLen,
         AtMac(t, Len(d), p, s, b, m), Collected(t, d)
  PROVE  /\ Collected(t, Append(d, Append(m, t[p + 1])))
         /\ Line(t, (p + 1) + 1) = Len(d) + 2
<1> DEFINE M == Append(m, t[p + 1])
           D == Append(d, M)
<1>1. Len(m) \in Nat /\ Len(d) \in Nat /\ MacLen \in Nat \ {0} /\ Len(m) < MacLen
  BY SizeAssumption
<1>2. AtMac(t, Len(d), p + 1, s, b, M)
  BY <1>1, MacStep
<1>3. Len(M) = MacLen /\ Len(D) = Len(d) + 1 /\ D[Len(d) + 1] = M
      /\ \A r \in 1 .. Len(d) : D[r] = d[r]
  BY <1>1
<1> HIDE DEF M, D
<1>4. /\ InRow(t, Len(d), p + 1, s) /\ b \in Beginnings(t) /\ Line(t, b) = Len(d) + 2
      /\ b + MacLen = (p + 1) + 1
      /\ \A k \in 1 .. MacLen : M[k] = t[b + k - 1]
  BY <1>2, <1>3 DEF AtMac
<1>5. b \in Nat \ {0} /\ p + 1 \in Nat /\ p \in Int /\ Len(t) \in Nat
  BY <1>4, SameLine DEF Beginnings, AtMac, InRow
<1>6. b + MacLen - 1 = p + 1 /\ p + 1 <= Len(t) /\ MacLen = (b + MacLen - 1) - b + 1
      /\ b <= b + MacLen - 1
  <2> HIDE <1>2
  <2>1. p \in Nat
    BY SameLine DEF AtMac, InRow
  <2> QED
    BY <1>1, <1>4, <1>5, <2>1
<1>7. b \in WholeOnes(t)
  BY <1>4, <1>6 DEF WholeOnes
<1>8. M = SubSeq(t, b, b + MacLen - 1)
  <2> DEFINE e == b + MacLen - 1
  <2>1. e \in 1 .. Len(t) /\ b <= e
    BY <1>1, <1>5, <1>6
  <2>2. SubSeq(t, b, e) \in Seq(Char) /\ Len(SubSeq(t, b, e)) = MacLen
        /\ \A k \in 1 .. MacLen : SubSeq(t, b, e)[k] = t[b + k - 1]
    BY <1>1, <1>5, <1>6, <2>1
  <2>3. M \in Seq(Char)
    <3>1. t[p + 1] \in Char
      BY <1>5, <1>6
    <3> QED
      BY <3>1 DEF M
  <2> HIDE DEF e
  <2> DEFINE A == SubSeq(t, b, e)
  <2>4. A \in Seq(Char) /\ Len(M) = Len(A) /\ \A k \in 1 .. Len(M) : M[k] = A[k]
    BY <1>3, <1>4, <2>2
  <2> HIDE DEF A
  <2>5. M = A
    BY <2>3, <2>4, SeqEqual
  <2> QED
    BY <2>5 DEF e, A
<1>9. s \in Starts(t) /\ Line(t, s) = Len(d) + 2 /\ Line(t, (p + 1) + 1) = Len(d) + 2
  BY <1>4 DEF InRow
<1>10. \A r : r \in 1 .. Len(D) <=> r \in 1 .. Len(d) \/ r = Len(d) + 1
  BY <1>1, <1>3
<1>11. (Len(d) + 1) + 1 = Len(d) + 2
  BY <1>1
<1>12. Collected(t, D)
  BY <1>3, <1>4, <1>7, <1>8, <1>9, <1>10, <1>11 DEF Collected
<1> QED
  BY <1>9, <1>12 DEF D, M
-----------------------------------------------------------------------------
(* The text ends.                                                          *)

LEMMA LinesUpTo ==
  ASSUME NEW t \in Seq(Char), NEW n \in Nat, NEW i \in Nat \ {0},
         \A j \in 1 .. Len(t) : j <= i, Line(t, i) <= n + 1
  PROVE  NoRowBeyond(t, n) /\ NoneBeyond(t, n)
<1>1. \A j \in 1 .. Len(t) : Line(t, j) <= n + 1
  <2> SUFFICES ASSUME NEW j \in 1 .. Len(t) PROVE Line(t, j) <= n + 1
    OBVIOUS
  <2>1. j \in Nat \ {0} /\ j <= i
    OBVIOUS
  <2>2. Line(t, j) <= Line(t, i) /\ Line(t, j) \in Nat /\ Line(t, i) \in Nat
    BY <2>1, LineGrows, LineIsNat
  <2> QED
    BY <2>2
<1> QED
  BY <1>1 DEF NoRowBeyond, NoneBeyond, Starts, WholeOnes, Beginnings

\* Behind the last row there is no other one.
LEMMA EndBetween ==
  ASSUME NEW t \in Seq(Char), NEW n \in Nat,
         \/ Line(t, Len(t) + 1) = 0
         \/ Line(t, Len(t) + 1) = n + 1
         \/ Len(t) > 0 /\ t[Len(t)] = NL /\ Line(t, Len(t) + 1) = n + 2
  PROVE  NoRowBeyond(t, n) /\ NoneBeyond(t, n)
<1>1. Len(t) \in Nat /\ Len(t) + 1 \in Nat \ {0} /\ \A j \in 1 .. Len(t) : j <= Len(t) + 1
  OBVIOUS
<1>2. CASE Line(t, Len(t) + 1) = 0 \/ Line(t, Len(t) + 1) = n + 1
  <2>1. Line(t, Len(t) + 1) <= n + 1
    BY <1>2
  <2> QED
    BY <1>1, <2>1, LinesUpTo
<1>3. CASE Len(t) > 0 /\ t[Len(t)] = NL /\ Line(t, Len(t) + 1) = n + 2
  <2>1. Len(t) \in Nat \ {0} /\ \A j \in 1 .. Len(t) : j <= Len(t)
    BY <1>1, <1>3
  <2>2. Line(t, Len(t) + 1) = Line(t, Len(t)) + 1 /\ Line(t, Len(t)) \in Nat
    BY <1>3, <2>1, LineNext, LineIsNat
  <2>3. Line(t, Len(t)) <= n + 1
    BY <1>3, <2>2
  <2> QED
    BY <2>1, <2>3, LinesUpTo
<1> QED
  BY <1>2, <1>3

\* Within a row, no address is whole that is not in a row before it.
LEMMA EndWithin ==
  ASSUME NEW t \in Seq(Char), NEW n \in Nat, NEW s, InRow(t, n, Len(t), s),
         \A b \in WholeOnes(t) : Line(t, b) # n + 2
  PROVE  NoneBeyond(t, n) /\ \E r \in Starts(t) : Line(t, r) = n + 2
<1>1. /\ Len(t) \in Nat /\ Len(t) + 1 \in Nat \ {0} /\ s \in Starts(t)
      /\ Line(t, s) = n + 2 /\ Line(t, Len(t) + 1) = n + 2
  BY DEF InRow
<1>2. ASSUME NEW i \in WholeOnes(t) PROVE Line(t, i) <= n + 1
  <2>1. i \in Nat \ {0} /\ i <= Len(t) + 1
    BY <1>1 DEF WholeOnes, Beginnings
  <2>2. Line(t, i) <= Line(t, Len(t) + 1) /\ Line(t, i) \in Nat
    BY <1>1, <2>1, LineGrows, LineIsNat
  <2>3. Line(t, i) # n + 2
    OBVIOUS
  <2> QED
    BY <1>1, <2>2, <2>3
<1> QED
  BY <1>1, <1>2 DEF NoneBeyond

\* It has at most one word.
LEMMA EndInWords ==
  ASSUME NEW t \in Seq(Char), NEW n \in Nat, NEW s, InRow(t, n, Len(t), s),
         NEW w, WordsUpTo(t, s, Len(t)) \subseteq {w}
  PROVE  NoneBeyond(t, n) /\ \E r \in Starts(t) : Line(t, r) = n + 2
<1>1. ASSUME NEW b \in WholeOnes(t), Line(t, b) = n + 2 PROVE FALSE
  <2>1. b \in Beginnings(t) /\ b <= Len(t)
    BY DEF WholeOnes, Beginnings
  <2> QED
    BY <1>1, <2>1, TwoWords
<1> QED
  BY <1>1, EndWithin

\* Or its address goes on.
LEMMA EndInMac ==
  ASSUME NEW t \in Seq(Char), NEW n \in Nat, NEW s, NEW b, NEW m \in Seq(Char),
         AtMac(t, n, Len(t), s, b, m), Len(m) < MacLen
  PROVE  NoneBeyond(t, n) /\ \E r \in Starts(t) : Line(t, r) = n + 2
<1>1. /\ InRow(t, n, Len(t), s) /\ b \in Beginnings(t) /\ Line(t, b) = n + 2
      /\ b + Len(m) = Len(t) + 1
  BY DEF AtMac
<1>2. ASSUME NEW c \in WholeOnes(t), Line(t, c) = n + 2 PROVE FALSE
  <2>1. c \in Beginnings(t) /\ c + MacLen - 1 <= Len(t)
    BY DEF WholeOnes
  <2>2. c = b
    BY <1>1, <1>2, <2>1, OneBeginning
  <2>3. b \in Nat /\ Len(m) \in Nat /\ Len(t) \in Nat /\ MacLen \in Nat
    BY <1>1, SizeAssumption DEF Beginnings
  <2> QED
    BY <1>1, <2>1, <2>2, <2>3
<1> QED
  BY <1>1, <1>2, EndWithin
-----------------------------------------------------------------------------
(* The addresses by their rows.                                            *)

\* A set with one element in each of the lines 2 .. k + 1.
LEMMA RowCount ==
  ASSUME NEW t \in Seq(Char), NEW S \in SUBSET (1 .. Len(t)), NEW k \in Nat,
         \A i, j \in S : Line(t, i) = Line(t, j) => i = j,
         \A i \in S : Line(t, i) >= 2,
         \A r \in 1 .. k : \E i \in S : Line(t, i) = r + 1
  PROVE  /\ Cardinality({i \in S : Line(t, i) <= k + 1}) = k
         /\ IsFiniteSet(S) /\ Cardinality(S) \in Nat /\ k <= Cardinality(S)
<1> DEFINE T == {i \in S : Line(t, i) <= k + 1}
           f == [i \in T |-> Line(t, i) - 1]
<1>1. IsFiniteSet(S) /\ Cardinality(S) \in Nat
  <2>1. Len(t) \in Int
    OBVIOUS
  <2>2. IsFiniteSet(1 .. Len(t))
    BY <2>1, FS_Interval
  <2> QED
    BY <2>2, FS_Subset, FS_CardinalityType
<1>2. T \in SUBSET S
  OBVIOUS
<1>3. \A i \in T : Line(t, i) \in Nat /\ Line(t, i) >= 2 /\ Line(t, i) <= k + 1
  <2>1. \A i \in T : i \in Nat
    OBVIOUS
  <2> QED
    BY <2>1, LineIsNat
<1>4. f \in [T -> 1 .. k]
  <2>1. \A i \in T : Line(t, i) - 1 \in 1 .. k
    <3> HIDE DEF T
    <3> QED
      BY <1>3
  <2> HIDE DEF T
  <2> QED
    BY <2>1
<1>5. \A i, j \in T : f[i] = f[j] => i = j
  BY <1>3
<1>6. \A r \in 1 .. k : \E i \in T : f[i] = r
  <2> SUFFICES ASSUME NEW r \in 1 .. k PROVE \E i \in T : f[i] = r
    OBVIOUS
  <2>1. PICK i \in S : Line(t, i) = r + 1
    OBVIOUS
  <2>2. i \in T /\ (r + 1) - 1 = r
    BY <2>1
  <2> QED
    BY <2>1, <2>2
<1> HIDE DEF f, T
<1>7. f \in Bijection(T, 1 .. k)
  <2>1. f \in Injection(T, 1 .. k)
    BY <1>4, <1>5 DEF Injection, IsInjective
  <2>2. f \in Surjection(T, 1 .. k)
    BY <1>4, <1>6 DEF Surjection
  <2> QED
    BY <2>1, <2>2 DEF Bijection
<1>8. IsFiniteSet(T) /\ Cardinality(T) <= Cardinality(S)
  BY <1>1, <1>2, FS_Subset
<1>9. Cardinality(1 .. k) = Cardinality(T)
  BY <1>7, <1>8, FS_Bijection DEF ExistsBijection
<1>10. Cardinality(1 .. k) = k
  <2>1. 1 \in Int /\ k \in Int
    OBVIOUS
  <2>2. Cardinality(1 .. k) = IF 1 > k THEN 0 ELSE k - 1 + 1
    BY <2>1, FS_Interval
  <2> QED
    BY <2>2
<1> QED
  BY <1>1, <1>8, <1>9, <1>10 DEF T

\* The k-th of them is the one in line k + 1.
LEMMA NthIsInRow ==
  ASSUME NEW t \in Seq(Char), NEW S \in SUBSET (1 .. Len(t)), NEW k \in Nat,
         \A i, j \in S : Line(t, i) = Line(t, j) => i = j,
         \A i \in S : Line(t, i) >= 2,
         \A r \in 1 .. k : \E i \in S : Line(t, i) = r + 1,
         NEW b \in S, Line(t, b) = k + 1
  PROVE  Nth(S, k) = b
<1> DEFINE U(i) == {j \in S : j <= i}
<1>1. IsFiniteSet(S) /\ Cardinality({i \in S : Line(t, i) <= k + 1}) = k
  BY RowCount
<1>2. \A i \in S : i \in Nat \ {0}
  OBVIOUS
<1>3. \A j \in S : j <= b <=> Line(t, j) <= k + 1
  <2> SUFFICES ASSUME NEW j \in S PROVE j <= b <=> Line(t, j) <= k + 1
    OBVIOUS
  <2>1. j \in Nat \ {0} /\ b \in Nat \ {0} /\ Line(t, j) \in Nat
    BY <1>2, LineIsNat
  <2>2. j <= b => Line(t, j) <= Line(t, b)
    BY <2>1, LineGrows
  <2>3. b <= j => Line(t, b) <= Line(t, j)
    BY <2>1, LineGrows
  <2>4. Line(t, j) = Line(t, b) => j = b
    OBVIOUS
  <2> QED
    BY <2>1, <2>2, <2>3, <2>4
<1>4. U(b) = {i \in S : Line(t, i) <= k + 1}
  BY <1>3
<1>5. Cardinality(U(b)) = k
  BY <1>1, <1>4
<1>6. ASSUME NEW i \in S, Cardinality(U(i)) = k PROVE i = b
  <2>1. ASSUME NEW x \in S, NEW y \in S, x < y, Cardinality(U(x)) = k, Cardinality(U(y)) = k
        PROVE  FALSE
    <3>a. x \in Nat /\ y \in Nat /\ \A j \in S : j \in Nat
      BY <1>2
    <3>b. \A j \in S : j <= x => j <= y
      BY <2>1, <3>a
    <3>c. y <= y /\ ~(y <= x)
      BY <2>1, <3>a
    <3>1. U(x) \in SUBSET U(y) /\ y \in U(y) /\ y \notin U(x) /\ U(y) \in SUBSET S
      BY <3>b, <3>c
    <3> HIDE DEF U
    <3>2. IsFiniteSet(U(y))
      BY <1>1, <3>1, FS_Subset
    <3>3. U(x) = U(y)
      BY <2>1, <3>1, <3>2, FS_Subset
    <3> QED
      BY <3>1, <3>3
  <2>2. ~(i < b) /\ ~(b < i)
    BY <1>5, <1>6, <2>1
  <2> QED
    BY <1>2, <2>2
<1> QED
  BY <1>5, <1>6 DEF Nth
-----------------------------------------------------------------------------
(* The parser's steps.                                                     *)

\* A loop that goes on has read one character, or none.
LEMMA LoopFacts ==
  ASSUME IInv, Parsed, NEW ch \in Char,
         SkipLine(ch) \/ Peek(ch) \/ PassOver(ch) \/ Copy(ch)
  PROVE  /\ text' = text /\ text \in Seq(Char) /\ Len(devs) \in Nat
         /\ Taken \in Nat /\ Taken < Len(text) /\ ch = text[Taken + 1]
         /\ Taken' = IF offset' = offset THEN Taken ELSE Taken + 1
         /\ pc \in {"lines", "peek", "gap1", "word", "gap2", "mac"}
         /\ state' = "OK" /\ (pc # "mac" => mac = <<>>)
<1>1. /\ Buffered(ch) /\ UNCHANGED <<text, fed, bufsize, state>>
      /\ (offset' = offset \/ Advance) /\ state = "OK"
  BY DEF SkipLine, Peek, PassOver, Copy, Buffered
<1>2. pc \in {"lines", "peek", "gap1", "word", "gap2", "mac"}
  BY AfterFacts DEF SkipLine, Peek, PassOver, Copy
<1>3. Len(devs) \in Nat /\ offset \in Nat
  BY DEF IInv, TypeOK
<1>4. pc # "mac" => mac = <<>>
  BY <1>2 DEF Parsed, WithinRow, Running
<1>5. CASE offset' = offset
  BY <1>1, <1>2, <1>3, <1>4, <1>5, Reads
<1>6. CASE Advance
  <2>1. offset' # offset
    BY <1>3, <1>6 DEF Advance
  <2> QED
    BY <1>1, <1>2, <1>3, <1>4, <1>6, <2>1, Reads
<1> QED
  BY <1>1, <1>5, <1>6

LEMMA AdvanceMoves == IInv /\ Advance => offset' # offset
  <1>1. IInv => offset \in Nat
    BY DEF IInv, TypeOK
  <1> QED
    BY <1>1 DEF Advance

LEMMA SkipLineParses ==
  ASSUME IInv, Parsed, NEW ch \in Char, SkipLine(ch)
  PROVE  Parsed'
<1>1. /\ text' = text /\ text \in Seq(Char) /\ Len(devs) \in Nat
      /\ Taken \in Nat /\ Taken < Len(text) /\ ch = text[Taken + 1]
      /\ Taken' = Taken + 1 /\ mac = <<>>
  BY LoopFacts, AdvanceMoves DEF SkipLine
<1>2. /\ devs' = devs /\ mac' = mac /\ pc = "lines"
      /\ lines' = IF ch = NL THEN lines - 1 ELSE lines
      /\ pc' = IF lines' = 0 THEN "peek" ELSE "lines"
  BY DEF SkipLine
<1>3. Line(text, (Taken + 1) + 1)
        = IF ch = NL THEN Line(text, Taken + 1) + 1 ELSE Line(text, Taken + 1)
  <2>1. Taken + 1 \in Nat \ {0}
    BY <1>1
  <2> QED
    BY <1>1, <2>1, LineNext
<1>4. \/ lines = 2 /\ devs = <<>> /\ Line(text, Taken + 1) = 0
      \/ lines = 1 /\ Line(text, Taken + 1) = Len(devs) + 1
  BY <1>2 DEF Parsed, BetweenRows
<1>5. Collected(text, devs)'
  BY <1>1, <1>2 DEF Parsed
<1>6. BetweenRows'
  <2> DEFINE x == Line(text, Taken + 1)
             y == Line(text, (Taken + 1) + 1)
  <2>1. y = IF ch = NL THEN x + 1 ELSE x
    BY <1>3
  <2>2. \/ lines = 2 /\ devs = <<>> /\ x = 0 /\ Len(devs) = 0
        \/ lines = 1 /\ x = Len(devs) + 1
    BY <1>4
  <2>3. Taken + 1 > 0
    BY <1>1
  <2> HIDE DEF x, y
  <2>4. CASE ch = NL
    <3>1. \/ lines' = 1 /\ y = Len(devs) + 1 /\ pc' = "lines"
          \/ lines' = 0 /\ y = Len(devs) + 2 /\ pc' = "peek"
      BY <1>1, <1>2, <2>1, <2>2, <2>4
    <3> QED
      BY <1>1, <1>2, <2>3, <2>4, <3>1 DEF BetweenRows, y
  <2>5. CASE ch # NL
    <3>1. y = x /\ lines' = lines /\ pc' = "lines"
      BY <1>2, <2>1, <2>2, <2>5
    <3> QED
      BY <1>1, <1>2, <2>2, <3>1 DEF BetweenRows, y
  <2> QED
    BY <2>4, <2>5
<1>7. pc' \in {"lines", "peek"}
  BY <1>2
<1>8. WithinRow'
  BY <1>1, <1>2, <1>7 DEF WithinRow
<1>9. Ended'
  BY <1>7 DEF Ended
<1> QED
  BY <1>5, <1>6, <1>8, <1>9 DEF Parsed

LEMMA PeekParses ==
  ASSUME IInv, Tabular(text), Parsed, NEW ch \in Char, Peek(ch)
  PROVE  Parsed'
<1>1. /\ text' = text /\ text \in Seq(Char) /\ Len(devs) \in Nat
      /\ Taken \in Nat /\ Taken < Len(text) /\ Taken' = Taken + 1 /\ mac = <<>>
      /\ state' = "OK"
  BY LoopFacts, AdvanceMoves DEF Peek
<1>2. devs' = devs /\ mac' = mac /\ pc = "peek"
  BY DEF Peek
<1>3. Taken > 0 /\ text[Taken] = NL /\ Line(text, Taken + 1) = Len(devs) + 2
  BY <1>2 DEF Parsed, BetweenRows
<1>4. AtGap1(text, Len(devs), Taken + 1, Taken + 1)
  BY <1>1, <1>3, PeekRow
<1>5. Collected(text, devs)'
  BY <1>1, <1>2 DEF Parsed
<1>6. CASE Len(devs) < MaxDev
  <2>1. pc' = "gap1"
    BY <1>6 DEF Peek
  <2>2. \E s : AtGap1(text', Len(devs'), Taken', s)
    BY <1>1, <1>2, <1>4
  <2>3. WithinRow'
    BY <1>1, <1>2, <2>1, <2>2 DEF WithinRow
  <2> QED
    BY <1>5, <2>1, <2>3 DEF Parsed, BetweenRows, Ended
<1>7. CASE ~(Len(devs) < MaxDev)
  <2>1. pc' = "done" /\ ret' = Len(devs)
    BY <1>7 DEF Peek
  <2>2. Len(devs) = MaxDev
    BY <1>1, <1>7, SizeAssumption DEF IInv, TypeOK
  <2>3. Ended'
    BY <1>1, <1>2, <2>1, <2>2 DEF Ended
  <2> QED
    BY <1>5, <2>1, <2>3 DEF Parsed, BetweenRows, WithinRow, Running
<1> QED
  BY <1>6, <1>7

LEMMA PassOverParses ==
  ASSUME IInv, Tabular(text), Parsed, NEW ch \in Char, PassOver(ch)
  PROVE  Parsed'
<1>1. /\ text' = text /\ text \in Seq(Char) /\ Len(devs) \in Nat
      /\ Taken \in Nat /\ Taken < Len(text) /\ ch = text[Taken + 1]
      /\ Taken' = IF offset' = offset THEN Taken ELSE Taken + 1
      /\ (pc # "mac" => mac = <<>>)
  BY LoopFacts
<1>2. /\ devs' = devs /\ mac' = mac /\ pc \in {"gap1", "word", "gap2"}
  BY AfterFacts DEF PassOver
<1>3. Taken' = IF (ch \in Blank) = (pc # "word") THEN Taken + 1 ELSE Taken
  BY <1>1, AdvanceMoves DEF PassOver
<1>4. pc' = IF (ch \in Blank) = (pc # "word") THEN pc ELSE After[pc]
  BY DEF PassOver
<1>5. Collected(text, devs)'
  BY <1>1, <1>2 DEF Parsed
<1>6. mac' = <<>> /\ pc' \in {"gap1", "word", "gap2", "mac"}
  BY <1>1, <1>2, <1>4, AfterFacts
<1>7. WithinRow'
  <2>1. CASE pc = "gap1"
    <3>1. PICK s : AtGap1(text, Len(devs), Taken, s)
      BY <2>1 DEF Parsed, WithinRow
    <3>2. /\ ch \in Blank => AtGap1(text, Len(devs), Taken + 1, s)
          /\ ch \notin Blank => AtWord(text, Len(devs), Taken, s, Taken + 1)
      BY <1>1, <3>1, Gap1Step
    <3>3. CASE ch \in Blank
      <4>1. Taken' = Taken + 1 /\ pc' = "gap1"
        BY <1>3, <1>4, <2>1, <3>3
      <4> QED
        BY <1>1, <1>2, <1>6, <3>2, <3>3, <4>1 DEF WithinRow
    <3>4. CASE ch \notin Blank
      <4>1. Taken' = Taken /\ pc' = "word"
        BY <1>3, <1>4, <2>1, <3>4, AfterFacts
      <4> QED
        BY <1>1, <1>2, <1>6, <3>2, <3>4, <4>1 DEF WithinRow
    <3> QED
      BY <3>3, <3>4
  <2>2. CASE pc = "word"
    <3>1. PICK s, w : AtWord(text, Len(devs), Taken, s, w)
      BY <2>2 DEF Parsed, WithinRow
    <3>2. /\ ch \notin Blank => AtWord(text, Len(devs), Taken + 1, s, w)
          /\ ch \in Blank => AtGap2(text, Len(devs), Taken, s, w)
      BY <1>1, <3>1, WordStep
    <3>3. CASE ch \notin Blank
      <4>1. Taken' = Taken + 1 /\ pc' = "word"
        BY <1>3, <1>4, <2>2, <3>3
      <4> QED
        BY <1>1, <1>2, <1>6, <3>2, <3>3, <4>1 DEF WithinRow
    <3>4. CASE ch \in Blank
      <4>1. Taken' = Taken /\ pc' = "gap2"
        BY <1>3, <1>4, <2>2, <3>4, AfterFacts
      <4> QED
        BY <1>1, <1>2, <1>6, <3>2, <3>4, <4>1 DEF WithinRow
    <3> QED
      BY <3>3, <3>4
  <2>3. CASE pc = "gap2"
    <3>1. PICK s, w : AtGap2(text, Len(devs), Taken, s, w)
      BY <2>3 DEF Parsed, WithinRow
    <3>2. /\ ch \in Blank => AtGap2(text, Len(devs), Taken + 1, s, w)
          /\ ch \notin Blank => AtMac(text, Len(devs), Taken, s, Taken + 1, <<>>)
      BY <1>1, <3>1, Gap2Step
    <3>3. CASE ch \in Blank
      <4>1. Taken' = Taken + 1 /\ pc' = "gap2"
        BY <1>3, <1>4, <2>3, <3>3
      <4> QED
        BY <1>1, <1>2, <1>6, <3>2, <3>3, <4>1 DEF WithinRow
    <3>4. CASE ch \notin Blank
      <4>1. Taken' = Taken /\ pc' = "mac"
        BY <1>3, <1>4, <2>3, <3>4, AfterFacts
      <4> QED
        BY <1>1, <1>2, <1>6, <3>2, <3>4, <4>1 DEF WithinRow
    <3> QED
      BY <3>3, <3>4
  <2> QED
    BY <1>2, <2>1, <2>2, <2>3
<1> QED
  BY <1>5, <1>6, <1>7 DEF Parsed, BetweenRows, Ended

LEMMA CopyParses ==
  ASSUME IInv, Tabular(text), Parsed, NEW ch \in Char, Copy(ch)
  PROVE  Parsed'
<1>1. /\ text' = text /\ text \in Seq(Char) /\ Len(devs) \in Nat
      /\ Taken \in Nat /\ Taken < Len(text) /\ ch = text[Taken + 1]
      /\ Taken' = Taken + 1
  BY LoopFacts, AdvanceMoves DEF Copy
<1>2. /\ pc = "mac" /\ mac \in Seq(Char) /\ Len(mac) \in Nat /\ Len(mac) < MacLen
      /\ MacLen \in Nat /\ devs \in Seq(Seq(Char))
  BY SizeAssumption DEF Copy, IInv, TypeOK
<1>3. PICK s, b : AtMac(text, Len(devs), Taken, s, b, mac)
  BY <1>2 DEF Parsed, WithinRow
<1>4. CASE Len(mac) + 1 < MacLen
  <2>1. mac' = Append(mac, ch) /\ devs' = devs /\ pc' = "mac"
    BY <1>2, <1>4 DEF Copy
  <2>2. AtMac(text, Len(devs), Taken + 1, s, b, Append(mac, ch))
    BY <1>1, <1>2, <1>3, MacStep
  <2>3. WithinRow'
    BY <1>1, <2>1, <2>2 DEF WithinRow
  <2>4. Collected(text, devs)'
    BY <1>1, <2>1 DEF Parsed
  <2> QED
    BY <2>1, <2>3, <2>4 DEF Parsed, BetweenRows, Ended
<1>5. CASE ~(Len(mac) + 1 < MacLen)
  <2>1. /\ devs' = Append(devs, Append(mac, ch)) /\ mac' = <<>>
        /\ pc' = "lines" /\ lines' = 1
    BY <1>5 DEF Copy
  <2>2. Len(mac) + 1 = MacLen
    BY <1>2, <1>5
  <2>3. /\ Collected(text, Append(devs, Append(mac, ch)))
        /\ Line(text, (Taken + 1) + 1) = Len(devs) + 2
    BY <1>1, <1>2, <1>3, <2>2, MacDone DEF Parsed
  <2>4. Len(devs') = Len(devs) + 1
    BY <1>2, <2>1
  <2>5. Line(text', Taken' + 1) = Len(devs') + 1
    <3>1. (Len(devs) + 1) + 1 = Len(devs) + 2
      BY <1>1
    <3> QED
      BY <1>1, <2>3, <2>4, <3>1
  <2>6. Collected(text, devs)'
    BY <1>1, <2>1, <2>3
  <2> QED
    BY <2>1, <2>5, <2>6 DEF Parsed, BetweenRows, WithinRow, Ended
<1> QED
  BY <1>4, <1>5

\* Calls begin again, reads move nothing, and ends are where they may be.
LEMMA CallParses ==
  ASSUME IInv, Call, Tabular(text)'
  PROVE  Parsed'
<1>1. /\ text' \in Seq(Char) /\ pc' = "lines" /\ lines' = 2 /\ mac' = <<>> /\ devs' = <<>>
      /\ Taken' = 0
  BY TextAssumption DEF Call, Taken
<1>2. Line(text', 1) = 0 /\ 0 + 1 = 1 /\ 0 \in Nat
  BY LineIsNat
<1>3. Line(text', Taken' + 1) = 0
  BY <1>1, <1>2
<1>4. Collected(text, devs)'
  <2>1. 1 .. Len(devs') = {}
    BY <1>1
  <2> QED
    BY <2>1 DEF Collected
<1> QED
  BY <1>1, <1>3, <1>4 DEF Parsed, BetweenRows, WithinRow, Ended

\* What Parsed says of a text, it says of what is taken of it.
LEMMA SameParsed ==
  ASSUME Parsed, Running, UNCHANGED <<text, Taken, pc, lines, mac, devs>>
  PROVE  Parsed'
<1>1. Collected(text, devs)' /\ BetweenRows' /\ WithinRow'
  BY DEF Parsed, BetweenRows, WithinRow, Running
<1>2. Ended'
  BY DEF Ended, Running
<1> QED
  BY <1>1, <1>2 DEF Parsed

LEMMA FillParses ==
  ASSUME IInv, Parsed, Fill
  PROVE  Parsed'
<1>1. Running
  BY DEF Fill
<1> QED
  BY <1>1, FillIsInvisible, SameParsed

LEMMA StopParses ==
  ASSUME IInv, Tabular(text), Parsed, Stop
  PROVE  Parsed'
<1>1. /\ text' = text /\ text \in Seq(Char) /\ devs' = devs /\ Len(devs) \in Nat
      /\ state' = state /\ pc' = "done"
      /\ pc \in {"lines", "peek", "gap1", "word", "gap2", "mac"}
      /\ state \in {"EOF", "ERR"}
  BY TextIsSeq, AfterFacts DEF Stop, statics, Running, IInv, TypeOK
<1>2. Collected(text, devs)'
  BY <1>1 DEF Parsed
<1>3. Ended'
  <2>1. CASE state = "ERR"
    <3>1. ret' = -EIO
      BY <2>1 DEF Stop, IInv, Window
    <3> QED
      BY <1>1, <2>1, <3>1 DEF Ended
  <2>2. CASE state = "EOF"
    <3>1. Taken = Len(text)
      BY <2>2 DEF IInv, Window, Taken
    <3>2. CASE pc \in {"lines", "peek"}
      <4>1. ret' = Len(devs)
        BY <2>2, <3>2 DEF Stop
      <4>2. \/ Line(text, Len(text) + 1) = 0
            \/ Line(text, Len(text) + 1) = Len(devs) + 1
            \/ /\ Len(text) > 0 /\ text[Len(text)] = NL
               /\ Line(text, Len(text) + 1) = Len(devs) + 2
        BY <3>1, <3>2 DEF Parsed, BetweenRows
      <4>3. NoRowBeyond(text, Len(devs)) /\ NoneBeyond(text, Len(devs))
        BY <1>1, <4>2, EndBetween
      <4> QED
        BY <1>1, <2>2, <4>1, <4>3 DEF Ended
    <3>3. CASE pc \in {"gap1", "word", "gap2", "mac"}
      <4>1. ret' = -EINVAL /\ Len(devs) < MaxDev
        BY <2>2, <3>3 DEF Stop, IInv, Room
      <4>2. NoneBeyond(text, Len(devs)) /\ \E s \in Starts(text) : Line(text, s) = Len(devs) + 2
        <5>1. CASE pc = "gap1"
          <6>1. PICK s : AtGap1(text, Len(devs), Len(text), s)
            BY <3>1, <5>1 DEF Parsed, WithinRow
          <6>2. InRow(text, Len(devs), Len(text), s) /\ WordsUpTo(text, s, Len(text)) \subseteq {s}
            BY <6>1 DEF AtGap1
          <6> QED
            BY <1>1, <6>2, EndInWords
        <5>2. CASE pc = "word"
          <6>1. PICK s, w : AtWord(text, Len(devs), Len(text), s, w)
            BY <3>1, <5>2 DEF Parsed, WithinRow
          <6>2. InRow(text, Len(devs), Len(text), s) /\ WordsUpTo(text, s, Len(text)) \subseteq {w}
            BY <6>1 DEF AtWord
          <6> QED
            BY <1>1, <6>2, EndInWords
        <5>3. CASE pc = "gap2"
          <6>1. PICK s, w : AtGap2(text, Len(devs), Len(text), s, w)
            BY <3>1, <5>3 DEF Parsed, WithinRow
          <6>2. InRow(text, Len(devs), Len(text), s) /\ WordsUpTo(text, s, Len(text)) \subseteq {w}
            BY <6>1 DEF AtGap2
          <6> QED
            BY <1>1, <6>2, EndInWords
        <5>4. CASE pc = "mac"
          <6>1. PICK s, b : AtMac(text, Len(devs), Len(text), s, b, mac)
            BY <3>1, <5>4 DEF Parsed, WithinRow
          <6>2. mac \in Seq(Char) /\ Len(mac) < MacLen
            BY DEF IInv, TypeOK
          <6> QED
            BY <1>1, <6>1, <6>2, EndInMac
        <5> QED
          BY <3>3, <5>1, <5>2, <5>3, <5>4
      <4> QED
        BY <1>1, <2>2, <4>1, <4>2 DEF Ended
    <3> QED
      BY <1>1, <3>2, <3>3
  <2> QED
    BY <1>1, <2>1, <2>2
<1> QED
  BY <1>1, <1>2, <1>3 DEF Parsed, BetweenRows, WithinRow, Running

LEMMA ParseInductive == Spec => []ParseInv
<1>1. Init => ParseInv
  <2> SUFFICES ASSUME Init PROVE ParseInv
    OBVIOUS
  <2>1. devs = <<>> /\ pc = "idle"
    BY DEF Init
  <2>2. Collected(text, devs)
    <3>1. 1 .. Len(devs) = {}
      BY <2>1
    <3> QED
      BY <3>1 DEF Collected
  <2>3. Parsed
    BY <2>1, <2>2 DEF Parsed, BetweenRows, WithinRow, Ended, Running
  <2> QED
    BY <2>3, InitInv DEF ParseInv
<1>2. ParseInv /\ [Next]_vars => ParseInv'
  <2> SUFFICES ASSUME ParseInv, [Next]_vars, Tabular(text)' PROVE Parsed'
    BY NextInv DEF ParseInv
  <2>1. IInv /\ (Tabular(text) => Parsed)
    BY DEF ParseInv
  <2>2. CASE Call
    BY <2>1, <2>2, CallParses
  <2>3. CASE Step
    <3>1. text' = text
      BY <2>3 DEF Step, Fill, Stop, SkipLine, Peek, PassOver, Copy
    <3>2. Tabular(text) /\ Parsed
      BY <2>1, <3>1
    <3> QED
      BY <2>1, <2>3, <3>2, FillParses, StopParses, SkipLineParses, PeekParses,
         PassOverParses, CopyParses DEF Step
  <2>4. CASE UNCHANGED vars
    <3>1. Taken' = Taken /\ UNCHANGED <<text, state, pc, lines, mac, devs, ret>>
      BY <2>4 DEF vars, statics, Taken
    <3>2. Parsed
      BY <2>1, <3>1
    <3> QED
      BY <3>1, <3>2 DEF Parsed, BetweenRows, WithinRow, Ended, Running
  <2> QED
    BY <2>2, <2>3, <2>4 DEF Next
<1> QED
  BY <1>1, <1>2, PTL DEF Spec
-----------------------------------------------------------------------------
(* What a call returns.                                                    *)

\* What has been taken are the first of the addresses.
LEMMA TakenInOrder ==
  ASSUME NEW t \in Seq(Char), NEW d \in Seq(Seq(Char)), Collected(t, d)
  PROVE  /\ Len(Addresses(t)) = Cardinality(WholeOnes(t)) /\ Cardinality(WholeOnes(t)) \in Nat
         /\ Len(d) <= Cardinality(WholeOnes(t))
         /\ d = SubSeq(Addresses(t), 1, Len(d))
         /\ NoneBeyond(t, Len(d)) => Cardinality(WholeOnes(t)) = Len(d)
<1> DEFINE S == WholeOnes(t)
           n == Len(d)
           A == Addresses(t)
<1>1. n \in Nat /\ d \in Seq(Seq(Char))
  OBVIOUS
<1>2. /\ S \in SUBSET (1 .. Len(t)) /\ \A i \in S : i \in Beginnings(t) /\ Line(t, i) >= 2
  BY DEF WholeOnes, Beginnings
<1>3. \A i, j \in S : Line(t, i) = Line(t, j) => i = j
  BY <1>2, OneBeginning
<1>4. \A r \in 1 .. n : \E i \in S : Line(t, i) = r + 1 /\ d[r] = SubSeq(t, i, i + MacLen - 1)
  BY DEF Collected
<1> HIDE DEF S, n
<1>5. /\ Cardinality({i \in S : Line(t, i) <= n + 1}) = n
      /\ Cardinality(S) \in Nat /\ n <= Cardinality(S)
  BY <1>1, <1>2, <1>3, <1>4, RowCount
<1>6. NoneBeyond(t, n) => Cardinality(S) = n
  <2> SUFFICES ASSUME NoneBeyond(t, n) PROVE Cardinality(S) = n
    OBVIOUS
  <2>1. S = {i \in S : Line(t, i) <= n + 1}
    BY DEF NoneBeyond, S
  <2> QED
    BY <1>5, <2>1
<1>7. A = [k \in 1 .. Cardinality(S) |-> SubSeq(t, Nth(S, k), Nth(S, k) + MacLen - 1)]
  BY DEF Addresses, S
<1>8. \A k \in 1 .. n : A[k] = d[k]
  <2> SUFFICES ASSUME NEW k \in 1 .. n PROVE A[k] = d[k]
    OBVIOUS
  <2>1. PICK b \in S : Line(t, b) = k + 1 /\ d[k] = SubSeq(t, b, b + MacLen - 1)
    BY <1>4
  <2>2. k \in Nat /\ k \in 1 .. Cardinality(S) /\ \A r \in 1 .. k : r \in 1 .. n
    BY <1>1, <1>5
  <2>3. \A r \in 1 .. k : \E i \in S : Line(t, i) = r + 1
    BY <1>4, <2>2
  <2>4. \A i \in S : Line(t, i) >= 2
    BY <1>2
  <2>5. Nth(S, k) = b
    BY <1>2, <1>3, <2>1, <2>2, <2>3, <2>4, NthIsInRow
  <2> QED
    BY <1>7, <2>1, <2>2, <2>5
<1>9. A \in Seq({A[k] : k \in 1 .. Cardinality(S)}) /\ Len(A) = Cardinality(S)
  <2> DEFINE c == Cardinality(S)
             R == {A[k] : k \in 1 .. c}
  <2>1. c \in Nat
    BY <1>5
  <2> HIDE DEF A
  <2>2. A \in [1 .. c -> R]
    BY <1>7
  <2> HIDE DEF c, R
  <2>3. A \in Seq(R) /\ Len(A) = c
    BY <2>1, <2>2
  <2> QED
    BY <2>3 DEF c, R
<1> HIDE DEF A
<1>10. d = SubSeq(A, 1, n)
  <2> DEFINE B == SubSeq(A, 1, n)
             R == {A[k] : k \in 1 .. Cardinality(S)}
  <2> HIDE DEF R
  <2>1. A \in Seq(R) /\ Len(A) = Cardinality(S)
    BY <1>9 DEF R
  <2>2. B \in Seq(R) /\ Len(B) = n /\ \A k \in 1 .. n : B[k] = A[k]
    BY <1>1, <1>5, <2>1
  <2> HIDE DEF B
  <2>3. Len(d) = n /\ \A k \in 1 .. n : d[k] = B[k]
    BY <1>8, <2>2 DEF n
  <2>4. d \in Seq(R \cup Seq(Char)) /\ B \in Seq(R \cup Seq(Char))
    BY <1>1, <2>2
  <2>5. d = B
    BY <2>2, <2>3, <2>4, SeqEqual
  <2> QED
    BY <2>5 DEF B
<1> QED
  BY <1>5, <1>6, <1>9, <1>10 DEF S, n, A

\* The rows that were taken are as many, or one more if it was cut short.
LEMMA RowsTaken ==
  ASSUME NEW t \in Seq(Char), NEW d \in Seq(Seq(Char)), Collected(t, d)
  PROVE  /\ NoRowBeyond(t, Len(d)) => Cardinality(Starts(t)) = Len(d)
         /\ (\E s \in Starts(t) : Line(t, s) = Len(d) + 2) => Cardinality(Starts(t)) > Len(d)
<1> DEFINE S == Starts(t)
           n == Len(d)
<1>1. n \in Nat
  OBVIOUS
<1>a. /\ n + 1 \in Nat /\ (n + 1) + 1 = n + 2
      /\ \A r : r \in 1 .. n + 1 <=> r \in 1 .. n \/ r = n + 1
  OBVIOUS
<1>2. S \in SUBSET (1 .. Len(t)) /\ \A i \in S : Line(t, i) >= 2
  BY DEF Starts
<1>3. \A i, j \in S : Line(t, i) = Line(t, j) => i = j
  BY OneStart
<1>4. \A r \in 1 .. n : \E i \in S : Line(t, i) = r + 1
  BY DEF Collected
<1> HIDE DEF S, n
<1>b. Cardinality({i \in S : Line(t, i) <= n + 1}) = n /\ IsFiniteSet(S)
  BY <1>1, <1>2, <1>3, <1>4, RowCount
<1>5. ASSUME NoRowBeyond(t, n) PROVE Cardinality(S) = n
  <2>2. S = {i \in S : Line(t, i) <= n + 1}
    BY <1>5 DEF NoRowBeyond, S
  <2> QED
    BY <1>b, <2>2
<1>6. ASSUME NEW s \in S, Line(t, s) = n + 2 PROVE Cardinality(S) > n
  <2>1. \A r \in 1 .. n + 1 : \E i \in S : Line(t, i) = r + 1
    BY <1>1, <1>a, <1>4, <1>6
  <2>2. n + 1 <= Cardinality(S) /\ Cardinality(S) \in Nat
    BY <1>a, <1>2, <1>3, <2>1, RowCount
  <2> QED
    BY <1>1, <2>2
<1> QED
  BY <1>5, <1>6 DEF S, n

(***************************************************************************)
(* For every tabular text, every buffer and every room, a call returns the *)
(* second words of the rows in order, and fails exactly if a read does or  *)
(* the text ends within a row there is room for (parsebat.c:166-252).      *)
(***************************************************************************)
THEOREM SecondWordOfEveryLine == Spec => []AddressesOfOutput
<1>1. ParseInv => AddressesOfOutput
  <2> SUFFICES ASSUME ParseInv, pc = "done", Tabular(text)
               PROVE  LET found == Addresses(text) IN
                      /\ ret >= 0 =>
                           /\ ret = Len(devs) /\ devs = SubSeq(found, 1, ret)
                           /\ ret = IF MaxDev < Len(found) THEN MaxDev ELSE Len(found)
                      /\ ret = -EINVAL <=>
                           /\ Cardinality(Starts(text)) > Len(found) /\ Len(found) < MaxDev
                           /\ state = "EOF"
                      /\ ret = -EIO <=> state = "ERR"
    BY DEF AddressesOfOutput
  <2> DEFINE found == Addresses(text)
             n == Len(devs)
             c == Cardinality(WholeOnes(text))
             q == Cardinality(Starts(text))
  <2>1. /\ text \in Seq(Char) /\ devs \in Seq(Seq(Char)) /\ n \in Nat /\ MaxDev \in Nat
        /\ n <= MaxDev /\ Collected(text, devs)
        /\ \/ state = "OK" /\ ret = n /\ n = MaxDev
           \/ state = "EOF" /\ ret = n /\ NoRowBeyond(text, n) /\ NoneBeyond(text, n)
           \/ /\ state = "EOF" /\ ret = -EINVAL /\ n < MaxDev /\ NoneBeyond(text, n)
              /\ \E s \in Starts(text) : Line(text, s) = n + 2
           \/ state = "ERR" /\ ret = -EIO
    BY TextIsSeq, SizeAssumption DEF ParseInv, IInv, TypeOK, Parsed, Ended
  <2>2. /\ Len(found) = c /\ c \in Nat /\ n <= c /\ devs = SubSeq(found, 1, n)
        /\ NoneBeyond(text, n) => c = n
    BY <2>1, TakenInOrder
  <2>3. /\ NoRowBeyond(text, n) => q = n
        /\ (\E s \in Starts(text) : Line(text, s) = n + 2) => q > n
    BY <2>1, RowsTaken
  <2> HIDE DEF found, n, c, q
  <2>4. \/ state = "OK" /\ ret = n /\ n = MaxDev
        \/ state = "EOF" /\ ret = n /\ q = n /\ c = n
        \/ state = "EOF" /\ ret = -22 /\ n < MaxDev /\ c = n /\ q > n
        \/ state = "ERR" /\ ret = -5
    BY <2>1, <2>2, <2>3 DEF EINVAL, EIO
  <2>5. /\ ret >= 0 => ret = n /\ ret = IF MaxDev < c THEN MaxDev ELSE c
        /\ ret = -22 <=> q > c /\ c < MaxDev /\ state = "EOF"
        /\ ret = -5 <=> state = "ERR"
    BY <2>1, <2>2, <2>4
  <2>6. ret >= 0 => devs = SubSeq(found, 1, ret)
    BY <2>2, <2>5
  <2> QED
    BY <2>2, <2>5, <2>6 DEF EINVAL, EIO, found, n, c, q
<1> QED
  BY <1>1, ParseInductive, PTL
=============================================================================
