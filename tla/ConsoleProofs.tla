---------------------------- MODULE ConsoleProofs ----------------------------
(***************************************************************************)
(* The terminal and the console.                                           *)
(*                                                                         *)
(* The terminal is proved for every LIMIT, STDIN_SIZE and WORD: no key is  *)
(* ever stored outside stdin, the copy a program gets is terminated unless *)
(* its last character is negative, and the terminal implements the line    *)
(* editor.  Its steps are proved of [Next]_vars, so that the console can   *)
(* use them.                                                               *)
(*                                                                         *)
(* The console is proved for every size of the screen and of the buffer    *)
(* and for every tick of the clock.  Its steps are steps of the terminal,  *)
(* whose theorems it inherits.                                             *)
(***************************************************************************)
EXTENDS Console, Induction, SequenceTheorems

-----------------------------------------------------------------------------
(* The terminal: the inductive invariant. *)

\* What the reader's place says of the buffer.  The handler runs at each of
\* them; only while READMODEON is 1 can it change stdin.
Progress ==
    /\ stdinlength <= LIMIT + 1
    /\ reader \in {"idle", "enabled"} => stdinlength = 0 /\ READMODEON = 0
    /\ READMODEON = 1 => reader = "waiting" /\ stdinlength <= LIMIT
    /\ reader \in {"waiting", "copying", "cleared"} /\ READMODEON = 0
         => stdinlength > 0

\* The buffer holds letters, the terminator among them.
Typed == reader \in {"waiting", "copying"} =>
            \A i \in 0..(stdinlength - 1) : stdin[i] \in Letters

\* The loop of read has copied so much, and the store of the last character
\* has left its sign after it.
CopyIsPrefix ==
    /\ reader = "copying" => /\ copied <= stdinlength
                             /\ \A i \in 0..(copied - 1) : buff[i] = stdin[i]
    /\ reader = "cleared" => copied = stdinlength
    /\ reader \in {"copying", "cleared"} /\ copied > 0
         => buff[copied] = Extension(buff[copied - 1])

TerminalInv == TypeOK /\ Progress /\ Typed /\ CopyIsPrefix

\* The buffer is empty at boot.
LEMMA TerminalInvInit == Init => TerminalInv
<1> SUFFICES ASSUME Init
             PROVE  TerminalInv
  OBVIOUS
<1>1. TypeOK
  <2>1. shiftKey \in BOOLEAN
    BY DEF Init
  <2> QED
    BY <2>1, TerminalAssumption DEF Init, TypeOK, Letters
<1>2. Progress /\ Typed /\ CopyIsPrefix
  BY TerminalAssumption DEF Init, Progress, Typed, CopyIsPrefix
<1> QED
  BY <1>1, <1>2 DEF TerminalInv

\* getchar returns a letter, a control character or nothing.
LEMMA CharOfKey ==
    ASSUME NEW k \in Keys, TypeOK
    PROVE  getchar(k) \in Letters \union {"none", "enter", "backspace"}
BY TerminalAssumption, KeysAssumption
DEF getchar, getKeyBoardKey, ScanCodeMap, KeySet, Letters, TypeOK

\* What tunnel stores for a key, and what it makes of the length.
Stored(c) == IF c = "enter" THEN "nul" ELSE IF c = "backspace" THEN "blank" ELSE c

NewLength(c) == IF c = "backspace" THEN stdinlength - 1 ELSE stdinlength + 1

\* What one key does to the buffer while a line is read.
LEMMA BufferedStores ==
    ASSUME TerminalInv, READMODEON = 1, NEW c, Buffered(c)
    PROVE  /\ stdin' = [stdin EXCEPT ![stdinlength] = Stored(c)]
           /\ stdinlength' = NewLength(c)
           /\ READMODEON' = IF stdinlength = LIMIT \/ c = "enter" THEN 0 ELSE 1
           /\ c \in Letters \union {"enter", "backspace"}
<1>1. stdinlength \in 0..LIMIT /\ stdinlength \in DOMAIN stdin
  BY TerminalAssumption DEF TerminalInv, TypeOK, Progress
<1>2. /\ "enter" \notin Letters /\ "backspace" \notin Letters
      /\ Full <=> stdinlength = LIMIT
  BY <1>1, TerminalAssumption DEF Letters, Full
<1>3. \A u, v : [[stdin EXCEPT ![stdinlength] = u] EXCEPT ![stdinlength] = v]
                   = [stdin EXCEPT ![stdinlength] = v]
  BY DEF TerminalInv, TypeOK
<1> QED
  BY <1>1, <1>2, <1>3 DEF Buffered, Stored, NewLength

\* A key keeps the invariant.
LEMMA TunnelInv ==
    ASSUME TerminalInv, NEW k \in Keys, tunnel(k)
    PROVE  TerminalInv'
<1> DEFINE c == getchar(k)
<1> USE TerminalAssumption
<1>1. CASE Ignored(c)
  BY <1>1
  DEF tunnel, TerminalInv, TypeOK, Progress, Typed, CopyIsPrefix, Ignored, Letters
<1>2. CASE ~Ignored(c)
  <2> HIDE DEF c
  <2>1. /\ Buffered(c) /\ READMODEON = 1 /\ c # "none"
        /\ ~Full /\ stdinlength = 0 => c # "backspace"
        /\ shiftKey' \in BOOLEAN
        /\ UNCHANGED <<reader, copied, buff>>
    BY <1>2 DEF tunnel, TerminalInv, TypeOK, Ignored, c
  <2>2. /\ reader = "waiting" /\ stdinlength \in 0..LIMIT
        /\ \A i \in 0..(stdinlength - 1) : stdin[i] \in Letters
    BY <2>1 DEF TerminalInv, TypeOK, Progress, Typed
  <2>3. /\ stdin' = [stdin EXCEPT ![stdinlength] = Stored(c)]
        /\ stdinlength' = NewLength(c)
        /\ READMODEON' = IF stdinlength = LIMIT \/ c = "enter" THEN 0 ELSE 1
        /\ c \in Letters \union {"enter", "backspace"}
    BY <2>1, BufferedStores
  <2>4. /\ "enter" \notin Letters /\ "backspace" \notin Letters
        /\ c = "backspace" => stdinlength > 0
    BY <2>1, <2>2 DEF Letters, Full
  <2>5. /\ stdinlength' \in 0..(LIMIT + 1)
        /\ READMODEON' = 1 => stdinlength' <= LIMIT
        /\ READMODEON' = 0 => stdinlength' > 0
        /\ READMODEON' \in {0, 1}
    BY <2>2, <2>3, <2>4 DEF NewLength
  <2>6. TypeOK'
    <3>1. stdin' \in [0..(STDIN_SIZE - 1) -> Letters \union {"blank"}]
      BY <2>2, <2>3 DEF Stored, TerminalInv, TypeOK, Letters
    <3> QED
      BY <2>1, <2>5, <3>1 DEF TerminalInv, TypeOK
  <2>7. Progress' /\ CopyIsPrefix'
    BY <2>1, <2>2, <2>5 DEF Progress, CopyIsPrefix
  <2>8. Typed'
    <3>1. /\ \A i \in 0..(stdinlength - 1) : stdin'[i] = stdin[i]
          /\ stdinlength \in DOMAIN stdin /\ stdin'[stdinlength] = Stored(c)
      BY <2>2, <2>3 DEF TerminalInv, TypeOK
    <3>2. c # "backspace" => Stored(c) \in Letters
      BY <2>3 DEF Stored, Letters
    <3>3. stdinlength' = IF c = "backspace" THEN stdinlength - 1 ELSE stdinlength + 1
      BY <2>3, <2>4 DEF NewLength
    <3> QED
      BY <2>2, <3>1, <3>2, <3>3 DEF Typed
  <2> QED
    BY <2>6, <2>7, <2>8 DEF TerminalInv
<1> QED
  BY <1>1, <1>2

\* The steps of read keep the invariant.
LEMMA ReadInv == TerminalInv /\ Read => TerminalInv'
<1> SUFFICES ASSUME TerminalInv, Read
             PROVE  TerminalInv'
  OBVIOUS
<1> USE TerminalAssumption DEF TerminalInv, keyVars
<1>1. CASE ReadEnter
  BY <1>1 DEF ReadEnter, TypeOK, Progress, Typed, CopyIsPrefix
<1>2. CASE ReadOn
  BY <1>2 DEF ReadOn, TypeOK, Progress, Typed, CopyIsPrefix
<1>3. CASE ReadWake
  BY <1>3 DEF ReadWake, TypeOK, Progress, Typed, CopyIsPrefix
<1>4. CASE ReadCopy
  BY <1>4 DEF ReadCopy, RestOfWord, Extension, Letters, TypeOK, Progress, Typed, CopyIsPrefix
<1>5. CASE ReadClear
  BY <1>5 DEF ReadClear, TypeOK, Progress, Typed, CopyIsPrefix
<1>6. CASE ReadReturn
  BY <1>6 DEF ReadReturn, TypeOK, Progress, Typed, CopyIsPrefix
<1> QED
  BY <1>1, <1>2, <1>3, <1>4, <1>5, <1>6 DEF Read

\* Every step of the terminal keeps the invariant.
LEMMA TerminalInvStep == TerminalInv /\ [Next]_vars => TerminalInv'
<1> SUFFICES ASSUME TerminalInv, [Next]_vars
             PROVE  TerminalInv'
  OBVIOUS
<1>1. CASE UNCHANGED vars
  BY <1>1 DEF vars, keyVars, TerminalInv, TypeOK, Progress, Typed, CopyIsPrefix
<1> QED
  BY <1>1, ReadInv, TunnelInv DEF Next

-----------------------------------------------------------------------------
(* The theorems. *)

\* stdin and its length keep their type: whatever is typed, and whenever,
\* tunnel of sys/terminal.c stores at an index of the buffer, because the
\* line ends two characters before it does.
THEOREM TerminalTypeCorrect == Spec => []TypeOK
<1>1. TerminalInv => TypeOK
  BY DEF TerminalInv
<1> QED
  BY <1>1, TerminalInvInit, TerminalInvStep, PTL DEF Spec

\* The line that read copies ends with a terminator, or with a negative character.
LEMMA InvTerminates == TerminalInv => LineTerminated
<1> SUFFICES ASSUME TerminalInv, reader = "cleared", buff[copied - 1] # "negative"
             PROVE  \E i \in 0..copied : buff[i] = "nul"
  BY DEF LineTerminated
<1>1. copied \in Nat /\ copied > 0 /\ buff[copied] = Extension(buff[copied - 1])
  BY DEF TerminalInv, TypeOK, Progress, CopyIsPrefix
<1> QED
  BY <1>1 DEF Extension

\* The program gets a terminated line from read whose last character is not
\* negative: the word-wide store of that character leaves a 0 after it, also
\* when the limit ended the line and its terminator was overwritten.
THEOREM CopiesAreTerminated == Spec => []LineTerminated
BY InvTerminates, TerminalInvInit, TerminalInvStep, PTL DEF Spec

-----------------------------------------------------------------------------
(* The refinement of the line editor. *)

\* The line of a buffer of letters.
LEMMA LineOfLetters ==
    ASSUME NEW b, NEW n \in Nat, \A i \in 0..(n - 1) : b[i] \in Letters
    PROVE  /\ Line(b, n) = [i \in 1..n |-> b[i - 1]]
           /\ Line(b, n) \in Seq(Letters)
           /\ Len(Line(b, n)) = n
BY DEF Line

\* A letter stored at the end extends the line.
LEMMA LineExtended ==
    ASSUME NEW b, NEW n \in Nat, \A i \in 0..n : b[i] \in Letters
    PROVE  Line(b, n + 1) = Append(Line(b, n), b[n])
<1>1. /\ Line(b, n + 1) = [i \in 1..(n + 1) |-> b[i - 1]]
      /\ Line(b, n) = [i \in 1..n |-> b[i - 1]]
      /\ Line(b, n) \in Seq(Letters) /\ Line(b, n + 1) \in Seq(Letters)
      /\ Len(Line(b, n)) = n /\ Len(Line(b, n + 1)) = n + 1
  BY LineOfLetters
<1>2. /\ Append(Line(b, n), b[n]) \in Seq(Letters)
      /\ Len(Append(Line(b, n), b[n])) = n + 1
      /\ \A i \in 1..(n + 1) : Append(Line(b, n), b[n])[i]
                                 = IF i <= n THEN Line(b, n)[i] ELSE b[n]
  BY <1>1
<1>3. \A i \in 1..(n + 1) : Line(b, n + 1)[i] = Append(Line(b, n), b[n])[i]
  BY <1>1, <1>2
<1> QED
  BY <1>1, <1>2, <1>3, SeqEqual

\* A letter dropped from the end shortens it.
LEMMA LineShortened ==
    ASSUME NEW b, NEW n \in Nat, n > 0, \A i \in 0..(n - 1) : b[i] \in Letters
    PROVE  /\ Line(b, n - 1) = SubSeq(Line(b, n), 1, Len(Line(b, n)) - 1)
           /\ Line(b, n) # <<>>
<1>1. /\ Line(b, n - 1) = [i \in 1..(n - 1) |-> b[i - 1]]
      /\ Line(b, n) = [i \in 1..n |-> b[i - 1]]
      /\ Line(b, n) \in Seq(Letters) /\ Len(Line(b, n)) = n
  BY LineOfLetters
<1>2. SubSeq(Line(b, n), 1, n - 1) = [i \in 1..(n - 1) |-> b[i - 1]]
  BY <1>1
<1> QED
  BY <1>1, <1>2

\* The editor starts with an empty line.
LEMMA EditorInit == Init => Editor!Init
BY DEF Init, Editor!Init, EditorMode, EditorLine

\* A key that tunnel handles is a step of the editor.
LEMMA KeyRefines ==
    ASSUME TerminalInv, TerminalInv', NEW k \in Keys, tunnel(k)
    PROVE  Editor!Next \/ UNCHANGED <<EditorMode, EditorLine>>
<1> DEFINE c == getchar(k)
<1> USE TerminalAssumption
<1>1. CASE Ignored(c)
  BY <1>1 DEF tunnel, EditorMode, EditorLine
<1>2. CASE ~Ignored(c)
  <2> HIDE DEF c
  <2>1. /\ Buffered(c) /\ READMODEON = 1
        /\ ~Full /\ stdinlength = 0 => c # "backspace"
        /\ UNCHANGED <<reader, copied, buff>>
    BY <1>2 DEF tunnel, TerminalInv, TypeOK, Ignored, c
  <2>2. /\ reader = "waiting" /\ stdinlength \in 0..LIMIT
        /\ stdinlength \in DOMAIN stdin
        /\ \A i \in 0..(stdinlength - 1) : stdin[i] \in Letters
    BY <2>1 DEF TerminalInv, TypeOK, Progress, Typed
  <2>3. /\ stdin' = [stdin EXCEPT ![stdinlength] = Stored(c)]
        /\ stdinlength' = NewLength(c)
        /\ READMODEON' = IF stdinlength = LIMIT \/ c = "enter" THEN 0 ELSE 1
        /\ c \in Letters \union {"enter", "backspace"}
    BY <2>1, BufferedStores
  <2>4. /\ "enter" \notin Letters /\ "backspace" \notin Letters
        /\ c = "backspace" => stdinlength > 0
    BY <2>1, <2>2 DEF Letters, Full
  <2>5. /\ \A i \in 0..(stdinlength - 1) : stdin'[i] = stdin[i]
        /\ stdin'[stdinlength] = Stored(c)
    BY <2>2, <2>3 DEF TerminalInv, TypeOK
  <2>6. /\ EditorLine = Line(stdin, stdinlength)
        /\ EditorLine' = Line(stdin', stdinlength')
        /\ EditorMode = "editing"
        /\ EditorMode' = IF stdinlength = LIMIT \/ c = "enter" THEN "full" ELSE "editing"
    BY <2>1, <2>2, <2>3 DEF EditorLine, EditorMode
  <2>7. \A i \in 0..(stdinlength - 1) : stdin'[i] \in Letters
    BY <2>2, <2>5
  <2>8. /\ EditorLine = [i \in 1..stdinlength |-> stdin[i - 1]]
        /\ Line(stdin', stdinlength) = [i \in 1..stdinlength |-> stdin'[i - 1]]
        /\ Len(EditorLine) = stdinlength
    <3> stdinlength \in Nat
      BY <2>2
    <3> QED
      BY <2>2, <2>6, <2>7, LineOfLetters
  <2>9. Line(stdin', stdinlength) = EditorLine
    BY <2>2, <2>5, <2>8
  <2>10. CASE c # "backspace"
    <3>1. /\ stdinlength' = stdinlength + 1 /\ stdin'[stdinlength] = Stored(c)
          /\ stdinlength \in Nat /\ Stored(c) \in Letters
      BY <2>2, <2>3, <2>5, <2>10 DEF Stored, NewLength, Letters
    <3>2. \A i \in 0..stdinlength : stdin'[i] \in Letters
      BY <2>7, <3>1
    <3>3. Line(stdin', stdinlength + 1) = Append(Line(stdin', stdinlength), stdin'[stdinlength])
      BY <3>1, <3>2, LineExtended
    <3>4. EditorLine' = Append(EditorLine, Stored(c))
      BY <2>6, <2>9, <3>1, <3>3
    <3>5. EditorLine' \in Editor!Edits
      BY <3>1, <3>4 DEF Editor!Edits
    <3>6. CASE c = "enter"
      BY <2>6, <3>4, <3>6 DEF Stored, Editor!Next, Editor!Enter
    <3>7. CASE c # "enter"
      BY <2>2, <2>6, <2>8, <3>5, <3>7 DEF Editor!Next, Editor!Type, Editor!Overflow
    <3> QED
      BY <3>6, <3>7
  <2>11. CASE c = "backspace"
    <3>1. stdinlength' = stdinlength - 1 /\ stdinlength \in Nat /\ stdinlength > 0
      BY <2>2, <2>3, <2>4, <2>11 DEF NewLength
    <3>2. /\ Line(stdin', stdinlength - 1)
               = SubSeq(Line(stdin', stdinlength), 1, Len(Line(stdin', stdinlength)) - 1)
          /\ Line(stdin', stdinlength) # <<>>
      BY <2>7, <3>1, LineShortened
    <3>3. EditorLine' = SubSeq(EditorLine, 1, Len(EditorLine) - 1) /\ EditorLine # <<>>
      BY <2>6, <2>9, <3>1, <3>2
    <3>4. EditorLine' \in Editor!Edits
      BY <3>3 DEF Editor!Edits, Editor!Front
    <3> QED
      BY <2>2, <2>6, <2>8, <2>11, <3>4
      DEF Editor!Next, Editor!Type, Editor!Overflow
  <2> QED
    BY <2>10, <2>11
<1> QED
  BY <1>1, <1>2

\* Opening and delivering are the editor's; the steps between them, which
\* move the line from stdin to the program, leave it as it is.
LEMMA ReadRefines ==
    ASSUME TerminalInv, Read
    PROVE  Editor!Next \/ UNCHANGED <<EditorMode, EditorLine>>
<1> USE DEF EditorMode, EditorLine, keyVars
<1>1. CASE ReadEnter
  BY <1>1 DEF ReadEnter
<1>2. CASE ReadOn
  <2>1. EditorLine' = <<>>
    BY <1>2 DEF ReadOn, TerminalInv, Progress, Line
  <2> QED
    BY <1>2, <2>1 DEF ReadOn, Editor!Next, Editor!Open
<1>3. CASE ReadWake
  BY <1>3 DEF ReadWake
<1>4. CASE ReadCopy
  BY <1>4 DEF ReadCopy
<1>5. CASE ReadClear
  <2>1. Line(buff, copied) = Line(stdin, stdinlength)
    BY <1>5 DEF ReadClear, TerminalInv, TypeOK, CopyIsPrefix, Line
  <2> QED
    BY <1>5, <2>1 DEF ReadClear
<1>6. CASE ReadReturn
  BY <1>6 DEF ReadReturn, TerminalInv, Progress, Editor!Next, Editor!Deliver
<1> QED
  BY <1>1, <1>2, <1>3, <1>4, <1>5, <1>6 DEF Read

\* Every step of the terminal is a step of the editor or none.
LEMMA EditorStep ==
    TerminalInv /\ TerminalInv' /\ [Next]_vars => [Editor!Next]_<<EditorMode, EditorLine>>
<1> SUFFICES ASSUME TerminalInv, TerminalInv', [Next]_vars
             PROVE  Editor!Next \/ UNCHANGED <<EditorMode, EditorLine>>
  OBVIOUS
<1>1. CASE UNCHANGED vars
  BY <1>1 DEF vars, keyVars, EditorMode, EditorLine
<1> QED
  BY <1>1, KeyRefines, ReadRefines DEF Next

\* The terminal implements the line editor, for lines of any length: what
\* read of sys/terminal.c hands to the program is the line that was edited
\* while it waited, whichever keys arrive between any two of its steps.
THEOREM TerminalIsLineEditor == Spec => ImplementsLineEditor
BY TerminalInvInit, TerminalInvStep, EditorInit, EditorStep, PTL
DEF Spec, ImplementsLineEditor, Editor!Spec

-----------------------------------------------------------------------------
(* The operations on the screen. *)

Glyphs == Letters \union Output \union Stray
            \union {"enter", "backspace", "newline", "blank"}

\* Every screen between two calls: pointer and counter agree, and only stray
\* bytes are in the clock's row.
Screens == {s \in [cells : [Cells -> Glyphs], video : Nat,
                   data_written : Nat, clock : Nat] :
              /\ s.video = s.data_written
              /\ \A i \in Cells : i >= Text => s.cells[i] \in Stray \union {"blank"}}

\* Those with the cursor in the text or just after it.
Fit == {s \in Screens : s.video <= Text}

\* The text area is two halves of whole rows, all of them cells.
LEMMA TextArea ==
    /\ Text \in Nat /\ HALF * COLS \in Nat
    /\ HALF * COLS > 0
    /\ Text = HALF * COLS + HALF * COLS
    /\ \A i \in 0..(Text - 1) : i \in Cells
    /\ \A i \in Cells : i \in Nat
<1>1. COLS \in Nat /\ HALF \in Nat /\ COLS > 0 /\ HALF > 0
  BY ScreenAssumption
<1>2. HALF * COLS \in Nat /\ HALF * COLS > 0
  BY <1>1
<1>3. Text = HALF * COLS + HALF * COLS
  BY <1>1 DEF Text
<1> QED
  BY <1>1, <1>2, <1>3 DEF Cells

\* A screen from its parts.
LEMMA ScreenMade ==
    ASSUME NEW n \in Nat, NEW c \in [Cells -> Glyphs], NEW k \in Nat,
           \A i \in Cells : i >= Text => c[i] \in Stray \union {"blank"}
    PROVE  [cells |-> c, video |-> n, data_written |-> n, clock |-> k] \in Screens
BY DEF Screens

\* The parts of a screen.
LEMMA ScreenFields ==
    ASSUME NEW s \in Screens
    PROVE  /\ s.video \in Nat /\ s.data_written = s.video
           /\ s.cells \in [Cells -> Glyphs] /\ s.clock \in Nat
           /\ \A i \in Cells : i >= Text => s.cells[i] \in Stray \union {"blank"}
BY DEF Screens

\* checkForScroll leaves room for a character, wherever the cursor was.
LEMMA ScrollKeeps ==
    ASSUME NEW s \in Screens
    PROVE  /\ checkForScroll(s) \in Screens
           /\ checkForScroll(s).video < Text
<1>1. CASE ~Scrolls(s)
  BY <1>1, TextArea DEF checkForScroll, Scrolls, Screens
<1>2. CASE Scrolls(s)
  <2> DEFINE cells == [i \in Cells |->
                         IF i < HALF * COLS THEN s.cells[i + HALF * COLS]
                         ELSE IF i < Text THEN "blank" ELSE s.cells[i]]
  <2>1. cells \in [Cells -> Glyphs]
    BY TextArea DEF Screens, Glyphs
  <2>2. \A i \in Cells : i >= Text => cells[i] \in Stray \union {"blank"}
    BY TextArea DEF Screens
  <2>3. checkForScroll(s) = [s EXCEPT !.video = HALF * COLS,
                                      !.data_written = HALF * COLS,
                                      !.cells = cells]
    BY <1>2 DEF checkForScroll
  <2>4. HALF * COLS \in Nat /\ HALF * COLS < Text
    BY TextArea
  <2> HIDE DEF cells
  <2>5. checkForScroll(s) = [cells |-> cells, video |-> HALF * COLS,
                             data_written |-> HALF * COLS, clock |-> s.clock]
    BY <2>3 DEF Screens
  <2>6. checkForScroll(s) \in Screens
    BY <2>1, <2>2, <2>4, <2>5, ScreenFields, ScreenMade
  <2> QED
    BY <2>4, <2>5, <2>6
<1> QED
  BY <1>1, <1>2

\* A string whose first character goes into the text and whose others are
\* stray bytes: only those may get into the clock's row.
LEMMA PutKeeps ==
    ASSUME NEW s \in Screens, s.video < Text, NEW text \in Seq(Glyphs),
           \A j \in 2..Len(text) : text[j] \in Stray
    PROVE  Put(s, text) \in Screens /\ Put(s, text).video = s.video + Len(text)
<1> DEFINE cells == [i \in Cells |->
                       IF s.video <= i /\ i < s.video + Len(text)
                         THEN text[i - s.video + 1] ELSE s.cells[i]]
           n == s.video + Len(text)
<1>1. /\ Len(text) \in Nat /\ s.video \in Nat /\ n \in Nat /\ Text \in Nat
      /\ \A j \in 1..Len(text) : text[j] \in Glyphs
      /\ s.cells \in [Cells -> Glyphs]
  BY TextArea, ScreenFields, LenProperties
<1>2. ASSUME NEW i \in Cells, s.video <= i, i < s.video + Len(text)
      PROVE  /\ i - s.video + 1 \in 1..Len(text)
             /\ i >= Text => i - s.video + 1 \in 2..Len(text)
  <2> DEFINE v == s.video
             l == Len(text)
  <2>1. i \in Nat /\ v \in Nat /\ l \in Nat /\ Text \in Nat /\ v < Text /\ v <= i /\ i < v + l
    BY <1>1, <1>2, TextArea
  <2> HIDE DEF v, l
  <2>2. i - v + 1 \in 1..l /\ (i >= Text => i - v + 1 \in 2..l)
    BY ONLY <2>1
  <2> QED
    BY <2>2 DEF v, l
<1>3. cells \in [Cells -> Glyphs]
  BY <1>1, <1>2
<1>4. ASSUME NEW i \in Cells, i >= Text
      PROVE  cells[i] \in Stray \union {"blank"}
  <2>1. CASE s.video <= i /\ i < s.video + Len(text)
    <3>1. cells[i] = text[i - s.video + 1]
      BY <2>1
    <3> QED
      BY <1>2, <1>4, <2>1, <3>1
  <2>2. CASE ~(s.video <= i /\ i < s.video + Len(text))
    BY <1>4, <2>2, ScreenFields
  <2> QED
    BY <2>1, <2>2
<1>5. Put(s, text) = [s EXCEPT !.video = n, !.data_written = n, !.cells = cells]
  BY DEF Put, Screens
<1> HIDE DEF cells, n
<1>6. Put(s, text) = [cells |-> cells, video |-> n, data_written |-> n,
                      clock |-> s.clock]
  BY <1>5 DEF Screens
<1>7. Put(s, text) \in Screens
  BY <1>1, <1>3, <1>4, <1>6, ScreenFields, ScreenMade
<1> QED
  BY <1>6, <1>7 DEF n

\* One character goes to the cell under the cursor, which moves on by one.
LEMMA PutOne ==
    ASSUME NEW s \in Screens, s.video < Text, NEW ch \in Glyphs
    PROVE  /\ Put(s, <<ch>>) \in Fit
           /\ Put(s, <<ch>>).video = s.video + 1
           /\ Put(s, <<ch>>).cells = [s.cells EXCEPT ![s.video] = ch]
<1> DEFINE cells == [i \in Cells |->
                       IF s.video <= i /\ i < s.video + Len(<<ch>>)
                         THEN <<ch>>[i - s.video + 1] ELSE s.cells[i]]
<1>1. s.video \in 0..(Text - 1) /\ s.video \in Cells
  BY TextArea, ScreenFields
<1>2. cells = [s.cells EXCEPT ![s.video] = ch]
  <2>1. \A i \in Cells : s.video <= i /\ i < s.video + 1 <=> i = s.video
    BY <1>1, TextArea
  <2>2. \A i \in Cells : cells[i] = IF i = s.video THEN ch ELSE s.cells[i]
    BY <1>1, <2>1, TextArea
  <2>3. s.cells \in [Cells -> Glyphs]
    BY ScreenFields
  <2> QED
    BY <2>2, <2>3
<1>3. Put(s, <<ch>>).cells = cells
  BY DEF Put, Screens
<1>4. <<ch>> \in Seq(Glyphs) /\ Len(<<ch>>) = 1
  OBVIOUS
<1>5. Put(s, <<ch>>) \in Screens /\ Put(s, <<ch>>).video = s.video + 1
  <2> DEFINE t == <<ch>>
  <2>1. t \in Seq(Glyphs) /\ Len(t) = 1 /\ \A j \in 2..Len(t) : t[j] \in Stray
    BY <1>4
  <2> HIDE DEF t
  <2>2. Put(s, t) \in Screens /\ Put(s, t).video = s.video + Len(t)
    BY <2>1, PutKeeps
  <2> QED
    BY <2>1, <2>2 DEF t
<1> HIDE DEF cells
<1> QED
  BY <1>1, <1>2, <1>3, <1>5, TextArea DEF Fit

\* flushchar brings the cursor back into the text and keeps the clock's row.
LEMMA FlushcharKeeps ==
    ASSUME NEW s \in Screens, NEW ch \in Glyphs
    PROVE  flushchar(s, ch) \in Fit
BY ScrollKeeps, PutOne DEF flushchar

\* The next multiple of a row is still in the text, or its end.
LEMMA RowEnd ==
    ASSUME NEW d \in Nat
    PROVE  LET n == (COLS - (d % COLS)) % COLS
           IN n \in Nat /\ (d < Text => d + n <= Text)
<1> DEFINE q == d \div COLS
           r == d % COLS
           n == (COLS - r) % COLS
<1>1. COLS \in Nat /\ HALF \in Nat /\ COLS > 0 /\ HALF > 0
  BY ScreenAssumption
<1>2. q \in Nat /\ r \in 0..(COLS - 1) /\ d = COLS * q + r
  BY <1>1
<1>3. n \in Nat /\ n <= COLS - r /\ (r = 0 => n = 0)
  BY <1>1, <1>2
<1>4. ASSUME d < Text
      PROVE  d + n <= Text
  <2>1. q < 2 * HALF
    <3> SUFFICES ASSUME q >= 2 * HALF
                 PROVE  FALSE
      BY <1>1, <1>2
    <3>1. COLS * q >= COLS * (2 * HALF)
      BY <1>1, <1>2
    <3> HIDE DEF q, r
    <3>2. COLS * (2 * HALF) = Text
      BY <1>1 DEF Text
    <3> QED
      BY <1>1, <1>2, <1>4, <3>1, <3>2, TextArea
  <2>2. COLS * (q + 1) <= Text
    <3> HIDE DEF q, r
    <3>1. q + 1 <= 2 * HALF
      BY <1>1, <1>2, <2>1
    <3>2. COLS * (q + 1) <= COLS * (2 * HALF)
      BY <1>1, <1>2, <3>1
    <3> QED
      BY <1>1, <3>2 DEF Text
  <2>3. COLS * (q + 1) = COLS * q + COLS
    BY <1>1, <1>2
  <2> HIDE DEF q, r, n
  <2>4. d + n <= COLS * q + COLS
    BY <1>1, <1>2, <1>3
  <2> QED
    BY <1>1, <1>2, <1>3, <2>2, <2>3, <2>4, TextArea
<1> HIDE DEF n
<1> QED
  BY <1>3, <1>4 DEF n, r

\* Moving to the next row stays in the text if the cursor was in it.
LEMMA NextRowKeeps ==
    ASSUME NEW s \in Screens
    PROVE  /\ NextRow(s) \in Screens
           /\ s.video < Text => NextRow(s) \in Fit
<1> DEFINE n == (COLS - (s.data_written % COLS)) % COLS
<1>1. s.video + n \in Nat /\ (s.video < Text => s.video + n <= Text)
  <2>1. s.video \in Nat /\ s.data_written = s.video
    BY ScreenFields
  <2>2. n \in Nat /\ (s.data_written < Text => s.data_written + n <= Text)
    BY <2>1, RowEnd
  <2> HIDE DEF n
  <2> QED
    BY <2>1, <2>2
<1>2. NextRow(s) = [s EXCEPT !.video = @ + n, !.data_written = @ + n]
  BY DEF NextRow
<1> HIDE DEF n
<1>3. NextRow(s) = [cells |-> s.cells, video |-> s.video + n,
                    data_written |-> s.video + n, clock |-> s.clock]
  BY <1>2 DEF Screens
<1>4. NextRow(s) \in Screens
  BY <1>1, <1>3, ScreenFields, ScreenMade
<1> QED
  BY <1>1, <1>3, <1>4 DEF Fit

\* flushNewLine brings the cursor back into the text and keeps the clock's row.
LEMMA FlushNewLineKeeps ==
    ASSUME NEW s \in Screens
    PROVE  flushNewLine(s) \in Fit
BY ScrollKeeps, NextRowKeeps DEF flushNewLine

\* flushbackspace blanks the cell before the cursor and moves it back.
LEMMA BackspaceKeeps ==
    ASSUME NEW s \in Fit
    PROVE  /\ flushbackspace(s) \in Fit
           /\ s.video > 0 => /\ flushbackspace(s).video = s.video - 1
                             /\ flushbackspace(s).cells
                                  = [s.cells EXCEPT ![s.video - 1] = "blank"]
<1>1. s \in Screens /\ s.video \in 0..Text
  BY ScreenFields, TextArea DEF Fit
<1>2. CASE s.data_written = 0
  BY <1>1, <1>2, ScreenFields DEF flushbackspace
<1>3. CASE s.data_written # 0
  <2> DEFINE c == [s.cells EXCEPT ![s.video - 1] = "blank"]
  <2>1. s.video - 1 \in Nat /\ s.video - 1 <= Text /\ s.video - 1 \in Cells
    BY <1>1, <1>3, TextArea, ScreenFields
  <2>2. c \in [Cells -> Glyphs]
    BY <1>1, <2>1, ScreenFields DEF Glyphs
  <2>3. \A i \in Cells : i >= Text => c[i] \in Stray \union {"blank"}
    BY <1>1, <2>1, ScreenFields
  <2>4. flushbackspace(s) = [s EXCEPT !.video = s.video - 1,
                                      !.data_written = s.video - 1, !.cells = c]
    BY <1>1, <1>3 DEF flushbackspace, Screens
  <2> HIDE DEF c
  <2>5. flushbackspace(s) = [cells |-> c, video |-> s.video - 1,
                             data_written |-> s.video - 1, clock |-> s.clock]
    BY <1>1, <2>4 DEF Screens
  <2>6. flushbackspace(s) \in Screens
    BY <1>1, <2>1, <2>2, <2>3, <2>5, ScreenFields, ScreenMade
  <2> QED
    BY <2>1, <2>5, <2>6 DEF c, Fit
<1> QED
  BY <1>2, <1>3

\* flushtime writes the clock and moves no cursor.
LEMMA FlushtimeKeeps ==
    ASSUME NEW s \in Screens, NEW k \in Nat
    PROVE  /\ flushtime(s, k) \in Screens
           /\ flushtime(s, k).video = s.video
           /\ flushtime(s, k).cells = s.cells
<1>1. flushtime(s, k) = [cells |-> s.cells, video |-> s.video,
                         data_written |-> s.video, clock |-> k]
  BY DEF flushtime, Screens
<1>2. flushtime(s, k) \in Screens
  BY <1>1, ScreenFields, ScreenMade
<1> QED
  BY <1>1, <1>2

\* A string as flush shows it, up to its first newline: a first character
\* of any kind and stray bytes behind it.
LEMMA FlushKeeps ==
    ASSUME NEW s \in Screens, NEW text \in Seq(Glyphs),
           \A j \in 2..Len(text) : text[j] \in Stray \union {"newline"}
    PROVE  /\ flush(s, text) \in Screens
           /\ Len(text) <= 1 => flush(s, text) \in Fit
<1> DEFINE ends == {i \in DOMAIN text : text[i] = "newline"}
           shown == IF ends = {} THEN text ELSE SubSeq(text, 1, Min(ends) - 1)
           u == checkForScroll(s)
<1>1. /\ Len(text) \in Nat /\ DOMAIN text = 1..Len(text)
      /\ \A j \in 1..Len(text) : text[j] \in Glyphs
  BY LenProperties
<1>2. u \in Screens /\ u.video < Text /\ u.video \in Nat /\ Text \in Nat
  BY ScrollKeeps, ScreenFields, TextArea
<1>3. flush(s, text) = IF ends = {} THEN Put(u, shown) ELSE NextRow(Put(u, shown))
  BY DEF flush
<1> HIDE DEF u
<1>4. CASE ends = {}
  <2>1. \A j \in 2..Len(text) : text[j] \in Stray
    BY <1>1, <1>4
  <2>2. flush(s, text) = Put(u, text)
    BY <1>3, <1>4
  <2> HIDE DEF ends, shown
  <2>3. Put(u, text) \in Screens /\ Put(u, text).video = u.video + Len(text)
    BY <1>2, <2>1, PutKeeps
  <2> QED
    BY <1>1, <1>2, <2>2, <2>3 DEF Fit
<1>5. CASE ends # {}
  <2> DEFINE m == Min(ends)
  <2>1. m \in ends /\ \A j \in ends : m <= j
    <3>1. ends \subseteq Nat
      BY <1>1
    <3> HIDE DEF ends
    <3>2. \E x \in ends : \A y \in ends : x <= y
      BY <1>5, <3>1, LeastOfNats
    <3> QED
      BY <3>2 DEF Min
  <2>2. m \in 1..Len(text) /\ \A j \in 1..(m - 1) : text[j] # "newline"
    <3> HIDE DEF m
    <3>1. m \in 1..Len(text)
      BY <1>1, <2>1
    <3>2. ASSUME NEW j \in 1..(m - 1), text[j] = "newline"
          PROVE  FALSE
      <4>1. j \in 1..Len(text) /\ j < m
        BY <1>1, <3>1
      <4>2. j \in ends /\ m <= j
        BY <1>1, <2>1, <3>2, <4>1
      <4> QED
        BY <1>1, <3>1, <4>1, <4>2
    <3> QED
      BY <3>1, <3>2
  <2>3. shown = SubSeq(text, 1, m - 1)
    BY <1>5
  <2>4. flush(s, text) = NextRow(Put(u, shown))
    BY <1>3, <1>5
  <2> HIDE DEF m, ends, shown
  <2>5. /\ shown \in Seq(Glyphs) /\ Len(shown) = m - 1
        /\ \A j \in 1..(m - 1) : shown[j] = text[j]
    <3>1. 1 \in Int /\ m - 1 \in Int /\ \A j \in 1..(m - 1) : text[j] \in Glyphs
      BY <1>1, <2>2
    <3>2. /\ SubSeq(text, 1, m - 1) \in Seq(Glyphs)
          /\ Len(SubSeq(text, 1, m - 1)) = IF 1 <= m - 1 THEN m - 1 - 1 + 1 ELSE 0
          /\ \A i \in 1..(m - 1 - 1 + 1) : SubSeq(text, 1, m - 1)[i] = text[1 + i - 1]
      BY <3>1, SubSeqProperties
    <3>3. m \in Nat /\ m >= 1 /\ m - 1 - 1 + 1 = m - 1
      BY <1>1, <2>2
    <3> QED
      BY <2>3, <3>2, <3>3
  <2>6. \A j \in 2..Len(shown) : shown[j] \in Stray
    BY <1>1, <2>2, <2>5
  <2>7. Put(u, shown) \in Screens /\ Put(u, shown).video = u.video + Len(shown)
    BY <1>2, <2>5, <2>6, PutKeeps
  <2>8. Len(text) <= 1 => Put(u, shown).video < Text
    BY <1>1, <1>2, <2>2, <2>5, <2>7
  <2> QED
    BY <2>4, <2>7, <2>8, NextRowKeeps
<1> QED
  BY <1>4, <1>5

\* The string at the address of a character's int.
LEMMA StringAtKeeps ==
    ASSUME NEW c \in Output, NEW rest \in Residue
    PROVE  /\ StringAt(c, rest) \in Seq(Glyphs)
           /\ \A j \in 2..Len(StringAt(c, rest)) :
                 StringAt(c, rest)[j] \in Stray \union {"newline"}
           /\ c # "negative" => Len(StringAt(c, rest)) <= 1
<1> DEFINE S == Stray \union {"newline"}
           ones == [i \in 1..(INT - 1) |-> "ones"]
           tail == ones \o rest
           text == <<c>> \o tail
<1>1. CASE c # "negative"
  <2>1. StringAt(c, rest) = <<>> \/ StringAt(c, rest) = <<c>>
    BY <1>1 DEF StringAt
  <2>2. <<>> \in Seq(Glyphs) /\ Len(<<>>) = 0
    OBVIOUS
  <2>3. <<c>> \in Seq(Glyphs) /\ Len(<<c>>) = 1
    BY DEF Glyphs
  <2>4. StringAt(c, rest) \in Seq(Glyphs) /\ Len(StringAt(c, rest)) \in {0, 1}
    BY <2>1, <2>2, <2>3
  <2> DEFINE l == Len(StringAt(c, rest))
  <2>5. l = 0 \/ l = 1
    BY <2>4
  <2> HIDE DEF l
  <2>6. l <= 1 /\ 2..l = {}
    BY ONLY <2>5
  <2> QED
    BY <2>4, <2>6 DEF l
<1>2. CASE c = "negative"
  <2>1. "ones" \in S /\ "stack" \in S /\ "newline" \in S
    BY DEF Stray
  <2>2. S \subseteq Glyphs /\ c \in Glyphs
    BY DEF Glyphs
  <2>3. INT - 1 \in Nat
    BY ConsoleAssumption
  <2> HIDE DEF S
  <2>4. ones \in Seq(S)
    BY <2>1, <2>3
  <2>5. rest \in Seq(S)
    <3>1. rest \in Seq({"stack", "newline"})
      BY ConsoleAssumption
    <3> QED
      BY <2>1, <3>1
  <2> HIDE DEF ones
  <2>6. tail \in Seq(S)
    BY <2>4, <2>5, ConcatProperties
  <2> HIDE DEF tail
  <2>7. Len(tail) \in Nat /\ \A j \in 1..Len(tail) : tail[j] \in S
    BY <2>6, LenProperties
  <2>8. tail \in Seq(Glyphs) /\ <<c>> \in Seq(Glyphs) /\ Len(<<c>>) = 1
    BY <2>2, <2>6, <2>7
  <2>9. /\ text \in Seq(Glyphs) /\ Len(text) = 1 + Len(tail)
        /\ \A j \in 1..(1 + Len(tail)) : text[j] = IF j <= 1 THEN <<c>>[j] ELSE tail[j - 1]
    BY <2>8, ConcatProperties
  <2> HIDE DEF text
  <2>10. \A j \in 2..Len(text) : text[j] \in S
    BY <2>7, <2>9
  <2>11. StringAt(c, rest) = text
    <3>1. StringAt(c, rest) = <<c>> \o ones \o rest
      BY <1>2 DEF StringAt, ones
    <3>2. <<c>> \o ones \o rest = <<c>> \o (ones \o rest)
      <4>1. <<c>> \in Seq(Glyphs \union S) /\ ones \in Seq(Glyphs \union S) /\ rest \in Seq(Glyphs \union S)
        BY <2>2, <2>4, <2>5
      <4> QED
        BY <4>1, ConcatAssociative
    <3> QED
      BY <3>1, <3>2 DEF text, tail
  <2> QED
    BY <1>2, <2>9, <2>10, <2>11 DEF S
<1> QED
  BY <1>1, <1>2

\* kprintf goes through its format, so the definition of shown has a
\* solution, and each of the screens on the way is one between two calls.
LEMMA KprintfKeeps ==
    ASSUME NEW s \in Fit, NEW fmt \in Seq(Glyphs)
    PROVE  kprintf(s, fmt) \in Fit
<1> DEFINE After(t, n) == IF fmt[n] = "newline" THEN flushNewLine(t)
                          ELSE flushchar(t, fmt[n])
           Shows(f, m) == f = [n \in 0..m |-> IF n = 0 THEN s ELSE After(f[n - 1], n)]
           Solved == {m \in Nat : \E f : Shows(f, m)}
<1>1. Len(fmt) \in Nat /\ \A n \in 1..Len(fmt) : fmt[n] \in Glyphs
  OBVIOUS
<1>2. \A t \in Fit, n \in 1..Len(fmt) : After(t, n) \in Fit
  BY <1>1, FlushcharKeeps, FlushNewLineKeeps DEF Fit
<1> HIDE DEF After
<1>3. 0 \in Solved
  <2>1. Shows([n \in 0..0 |-> s], 0)
    OBVIOUS
  <2> QED
    BY <2>1
<1>4. ASSUME NEW m \in Nat, m \in Solved
      PROVE  m + 1 \in Solved
  <2>1. PICK f : Shows(f, m)
    BY <1>4
  <2> DEFINE g == [n \in 0..(m + 1) |-> IF n = m + 1 THEN After(f[m], m + 1) ELSE f[n]]
  <2>2. \A n \in 0..(m + 1) : g[n] = IF n = 0 THEN s ELSE After(g[n - 1], n)
    <3> TAKE n \in 0..(m + 1)
    <3>1. CASE n = m + 1
      BY <3>1
    <3>2. CASE n # m + 1
      <4>1. n \in 0..m /\ g[n] = f[n] /\ (n # 0 => n - 1 \in 0..m /\ g[n - 1] = f[n - 1])
        BY <3>2
      <4>2. f[n] = IF n = 0 THEN s ELSE After(f[n - 1], n)
        BY <2>1, <4>1
      <4> QED
        BY <4>1, <4>2
    <3> QED
      BY <3>1, <3>2
  <2>3. Shows(g, m + 1)
    BY <2>2
  <2> HIDE DEF g, Shows
  <2> QED
    BY <2>3
<1>5. Len(fmt) \in Solved
  <2> HIDE DEF Solved
  <2> QED
    BY <1>1, <1>3, <1>4, NatSetInduction
<1>6. kprintf(s, fmt) = (CHOOSE f : Shows(f, Len(fmt)))[Len(fmt)]
  BY DEF kprintf, After
<1>7. PICK f : Shows(f, Len(fmt)) /\ kprintf(s, fmt) = f[Len(fmt)]
  <2> HIDE DEF Shows
  <2> QED
    BY <1>5, <1>6
<1> DEFINE Kept == {m \in Nat : m <= Len(fmt) => f[m] \in Fit}
<1>8. 0 \in Kept
  BY <1>1, <1>7
<1>9. ASSUME NEW m \in Nat, m \in Kept
      PROVE  m + 1 \in Kept
  <2> SUFFICES ASSUME m + 1 <= Len(fmt)
               PROVE  f[m + 1] \in Fit
    OBVIOUS
  <2>1. f[m] \in Fit
    BY <1>1, <1>9
  <2>2. f[m + 1] = After(f[m], m + 1) /\ m + 1 \in 1..Len(fmt)
    BY <1>1, <1>7
  <2> QED
    BY <1>2, <2>1, <2>2
<1>10. Len(fmt) \in Kept
  <2> HIDE DEF Kept
  <2> QED
    BY <1>1, <1>8, <1>9, NatSetInduction
<1> QED
  BY <1>1, <1>7, <1>10

-----------------------------------------------------------------------------
(* The clock and sleep. *)

\* The clock counts ticks up to a second, and time whole seconds.
ClockSound ==
    /\ \E j \in Nat : frac_time = j * TICK
    /\ frac_time \in 0..(SECOND - 1)
    /\ time_in_sec \in Nat /\ time = time_in_sec * SECOND

NapType ==
    /\ slept \in Nat
    /\ nap \in [pc : {"awake", "polling"}, seconds : Nat, start : Nat, time : Nat]
    /\ Asleep => nap.seconds # 0

\* The second c in which sleep was called is the one it counts from, but
\* for second 0, which counts as 1; until the loop has seen it, the clock
\* has not gone on.
CallSecond(c) ==
    /\ c * SECOND <= time + frac_time - slept
    /\ time + frac_time - slept < c * SECOND + SECOND
    /\ nap.start = 0 => /\ nap.time = 0
                        /\ time_in_sec = c \/ (c = 0 /\ time_in_sec = 1)
    /\ nap.start # 0 => nap.start = c \/ (c = 0 /\ nap.start = 1)

SleepSound == Asleep => \E c \in Nat : CallSecond(c)

TimerInv == ClockSound /\ NapType /\ SleepSound

TimerNext == timemama \/ SleepPoll \/ \E n \in Naps : SleepCall(n)

\* The timer starts in its invariant.
LEMMA TimerInvInit == TimerInit => TimerInv
<1> SUFFICES ASSUME TimerInit
             PROVE  TimerInv
  OBVIOUS
<1>1. TICK \in Nat /\ SECOND \in Nat /\ SECOND > 0
  BY TimerAssumption
<1>2. 0 = 0 * TICK /\ 0 = 0 * SECOND
  BY <1>1
<1>3. ClockSound
  BY <1>1, <1>2 DEF TimerInit, ClockSound
<1>4. NapType /\ SleepSound
  BY DEF TimerInit, NapType, SleepSound, Asleep, Awake
<1> QED
  BY <1>3, <1>4 DEF TimerInv

\* Quotient and remainder.
LEMMA Division ==
    ASSUME NEW x \in Nat, NEW y \in Nat, y > 0
    PROVE  x \div y \in Nat /\ x % y \in 0..(y - 1) /\ x = y * (x \div y) + (x % y)
OBVIOUS

\* A tick either completes the second or stays inside it.
LEMMA TickClock ==
    ASSUME ClockSound, timemama
    PROVE  /\ ClockSound'
           /\ time' + frac_time' = time + frac_time + TICK
           /\ time_in_sec' = IF Rollover THEN time_in_sec + 1 ELSE time_in_sec
<1>1. TICK \in Nat /\ SECOND \in Nat /\ TICK > 0 /\ SECOND > 0 /\ SECOND % TICK = 0
  BY TimerAssumption
<1>2. PICK m \in Nat : SECOND = m * TICK
  <2> DEFINE m == SECOND \div TICK
  <2>1. m \in Nat /\ SECOND = TICK * m + (SECOND % TICK)
    BY <1>1, Division
  <2> HIDE DEF m
  <2>2. SECOND = m * TICK
    BY <1>1, <2>1
  <2> QED
    BY <2>1, <2>2
<1>3. PICK j \in Nat : frac_time = j * TICK
  BY DEF ClockSound
<1>4. /\ frac_time \in 0..(SECOND - 1) /\ time_in_sec \in Nat
      /\ time = time_in_sec * SECOND /\ time \in Nat
  BY <1>1 DEF ClockSound
<1>5. CASE Rollover
  <2>1. time' = time + SECOND /\ frac_time' = 0 /\ time_in_sec' = time' \div SECOND
    BY <1>1, <1>4, <1>5 DEF timemama, Rollover
  <2>2. (time_in_sec + 1) * SECOND = time + SECOND
    BY <1>1, <1>4
  <2>3. ((time_in_sec + 1) * SECOND) \div SECOND = time_in_sec + 1
    BY <1>1, <1>4
  <2>4. time_in_sec' = time_in_sec + 1
    BY <2>1, <2>2, <2>3
  <2>5. 0 = 0 * TICK
    BY <1>1
  <2> QED
    BY <1>1, <1>4, <1>5, <2>1, <2>2, <2>4, <2>5 DEF ClockSound, Rollover
<1>6. CASE ~Rollover
  <2>1. frac_time' = frac_time + TICK /\ time' = time /\ time_in_sec' = time_in_sec
    BY <1>6 DEF timemama
  <2>2. frac_time + TICK = (j + 1) * TICK
    BY <1>1, <1>3
  <2>3. j < m
    <3> SUFFICES ASSUME j >= m
                 PROVE  FALSE
      BY <1>2, <1>3
    <3>1. j * TICK >= m * TICK
      BY <1>1, <1>2, <1>3
    <3> QED
      BY <1>1, <1>2, <1>3, <1>4, <3>1
  <2>4. (j + 1) * TICK <= m * TICK
    BY <1>1, <1>2, <1>3, <2>3
  <2>5. frac_time + TICK # SECOND
    BY <1>6 DEF Rollover
  <2>6. frac_time + TICK \in 0..(SECOND - 1)
    BY <1>1, <1>2, <1>4, <2>2, <2>4, <2>5
  <2> QED
    BY <1>1, <1>4, <1>6, <2>1, <2>2, <2>6 DEF ClockSound
<1> QED
  BY <1>5, <1>6

\* The handler of the timer interrupt keeps the invariant.
LEMMA TickInv ==
    ASSUME TimerInv, timemama
    PROVE  TimerInv'
<1>1. TICK \in Nat /\ SECOND \in Nat
  BY TimerAssumption
<1>2. ClockSound'
  BY TickClock DEF TimerInv
<1>3. NapType'
  BY <1>1 DEF TimerInv, NapType, timemama, Asleep
<1>4. ASSUME Asleep', NEW c \in Nat, CallSecond(c)
      PROVE  CallSecond(c)'
  <2>1. Asleep /\ slept' = slept + TICK /\ nap' = nap
    BY <1>4 DEF timemama, Asleep
  <2>2. /\ time' + frac_time' = time + frac_time + TICK
        /\ time_in_sec' = IF Rollover THEN time_in_sec + 1 ELSE time_in_sec
    BY TickClock DEF TimerInv
  <2>3. Rollover => nap.time = time_in_sec
    BY <2>1 DEF timemama, Seen
  <2>4. /\ time + frac_time \in Nat /\ slept \in Nat /\ time_in_sec \in Nat
        /\ c * SECOND \in Nat
    BY <1>1 DEF TimerInv, ClockSound, NapType
  <2>5. time' + frac_time' - slept' = time + frac_time - slept
    <3>1. time_in_sec' \in Nat /\ frac_time' \in Nat /\ time' = time_in_sec' * SECOND
      BY <1>1, <1>2 DEF ClockSound
    <3>2. time' \in Nat
      <4>1. \A a, b \in Nat : a * b \in Nat
        OBVIOUS
      <4> QED
        BY <1>1, <3>1, <4>1
    <3>3. time \in Nat /\ frac_time \in Nat
      BY <1>1 DEF TimerInv, ClockSound
    <3>4. slept \in Nat /\ slept' = slept + TICK
      BY <2>1, <2>4
    <3> QED
      BY <1>1, <2>2, <3>1, <3>2, <3>3, <3>4
  <2> QED
    BY <1>4, <2>1, <2>2, <2>3, <2>4, <2>5 DEF CallSecond
<1>5. SleepSound'
  BY <1>4 DEF TimerInv, SleepSound, timemama, Asleep
<1> QED
  BY <1>2, <1>3, <1>5 DEF TimerInv

\* The call of sleep keeps the invariant.
LEMMA SleepCallInv ==
    ASSUME TimerInv, NEW n \in Naps, SleepCall(n)
    PROVE  TimerInv'
<1>1. SECOND \in Nat /\ n \in Nat
  BY TimerAssumption
<1>2. ClockSound'
  BY DEF TimerInv, ClockSound, SleepCall
<1>3. /\ nap' = [pc |-> "polling", seconds |-> n, start |-> 0, time |-> 0]
      /\ n # 0 /\ slept' = 0
      /\ UNCHANGED <<frac_time, time, time_in_sec>>
  BY DEF SleepCall, Awake
<1>4. NapType'
  BY <1>1, <1>3 DEF NapType, Asleep
<1>5. CallSecond(time_in_sec)' /\ time_in_sec' \in Nat
  <2>1. /\ time_in_sec \in Nat /\ time = time_in_sec * SECOND /\ time \in Nat
        /\ frac_time \in 0..(SECOND - 1)
    BY <1>1 DEF TimerInv, ClockSound
  <2> QED
    BY <1>1, <1>3, <2>1 DEF CallSecond
<1>6. SleepSound'
  BY <1>5 DEF SleepSound
<1> QED
  BY <1>2, <1>4, <1>6 DEF TimerInv

\* A turn of the waiting loop of sleep keeps the invariant.
LEMMA SleepPollInv ==
    ASSUME TimerInv, SleepPoll
    PROVE  TimerInv'
<1>1. UNCHANGED <<frac_time, time, time_in_sec, slept>>
  BY DEF SleepPoll
<1>2. ClockSound' /\ time_in_sec \in Nat
  BY <1>1 DEF TimerInv, ClockSound
<1>3. CASE Over(time_in_sec)
  <2>1. nap' = Awake
    BY <1>3 DEF SleepPoll
  <2>2. NapType' /\ SleepSound'
    BY <1>1, <2>1 DEF TimerInv, NapType, SleepSound, Asleep, Awake
  <2> QED
    BY <1>2, <2>2 DEF TimerInv
<1>4. CASE ~Over(time_in_sec)
  <2>1. nap' = [nap EXCEPT !.start = StartOf(time_in_sec), !.time = time_in_sec]
    BY <1>4 DEF SleepPoll
  <2>2. /\ nap \in [pc : {"awake", "polling"}, seconds : Nat, start : Nat, time : Nat]
        /\ Asleep /\ nap.seconds # 0 /\ slept \in Nat
    BY DEF TimerInv, NapType, SleepPoll
  <2>3. StartOf(time_in_sec) \in Nat
    BY <1>2, <2>2 DEF StartOf
  <2>4. nap' = [pc |-> nap.pc, seconds |-> nap.seconds,
                start |-> StartOf(time_in_sec), time |-> time_in_sec]
    BY <2>1, <2>2
  <2>5. NapType'
    BY <1>1, <1>2, <2>2, <2>3, <2>4 DEF NapType, Asleep
  <2>6. ASSUME NEW c \in Nat, CallSecond(c)
        PROVE  CallSecond(c)'
    BY <1>1, <2>4, <2>6 DEF CallSecond, StartOf
  <2>7. SleepSound'
    BY <2>2, <2>6 DEF TimerInv, SleepSound
  <2> QED
    BY <1>2, <2>5, <2>7 DEF TimerInv
<1> QED
  BY <1>3, <1>4

\* Every step of the timer keeps its invariant.
LEMMA TimerInvStep == TimerInv /\ [TimerNext]_timerVars => TimerInv'
<1> SUFFICES ASSUME TimerInv, [TimerNext]_timerVars
             PROVE  TimerInv'
  OBVIOUS
<1>1. CASE UNCHANGED timerVars
  BY <1>1 DEF timerVars, TimerInv, ClockSound, NapType, SleepSound, CallSecond, Asleep
<1> QED
  BY <1>1, TickInv, SleepPollInv, SleepCallInv DEF TimerNext

\* What SleepLength says of a step.
SleepLengthStep ==
    Asleep /\ ~Asleep' =>
         LET early == time + frac_time - slept < SECOND
         IN /\ slept > (nap.seconds - 1) * SECOND
            /\ slept < (nap.seconds + IF early THEN 2 ELSE 1) * SECOND

\* A sleep ends in a poll, nap.seconds after the second it counts from.
LEMMA SleepLengthHolds == TimerInv /\ [TimerNext]_timerVars => SleepLengthStep
<1> SUFFICES ASSUME TimerInv, [TimerNext]_timerVars, Asleep, ~Asleep'
             PROVE  LET early == time + frac_time - slept < SECOND
                    IN /\ slept > (nap.seconds - 1) * SECOND
                       /\ slept < (nap.seconds + IF early THEN 2 ELSE 1) * SECOND
  BY DEF SleepLengthStep
<1>1. SleepPoll
  BY DEF TimerNext, timerVars, timemama, SleepCall, Asleep
<1>2. Over(time_in_sec)
  <2> SUFFICES ASSUME ~Over(time_in_sec)
               PROVE  FALSE
    OBVIOUS
  <2>1. nap' = [nap EXCEPT !.start = StartOf(time_in_sec), !.time = time_in_sec]
    BY <1>1 DEF SleepPoll
  <2> QED
    BY <2>1 DEF Asleep, TimerInv, NapType
<1>3. /\ SECOND \in Nat /\ SECOND > 0
      /\ time_in_sec \in Nat /\ time = time_in_sec * SECOND /\ time \in Nat
      /\ frac_time \in 0..(SECOND - 1) /\ slept \in Nat
      /\ nap.start \in Nat /\ nap.seconds \in Nat /\ nap.seconds # 0
  BY TimerAssumption DEF TimerInv, ClockSound, NapType
<1>4. nap.start # 0 /\ time_in_sec = nap.start + nap.seconds
  BY <1>2, <1>3 DEF Over, StartOf
<1>5. PICK c \in Nat : CallSecond(c)
  BY DEF TimerInv, SleepSound
<1> DEFINE n == nap.seconds
           st == nap.start
           now == time + frac_time
<1>6. /\ c * SECOND <= now - slept /\ now - slept < c * SECOND + SECOND
      /\ st = c \/ (c = 0 /\ st = 1)
  BY <1>3, <1>4, <1>5 DEF CallSecond
<1>7. /\ time = st * SECOND + n * SECOND
      /\ (n - 1) * SECOND = n * SECOND - SECOND
      /\ (n + 1) * SECOND = n * SECOND + SECOND
      /\ (n + 2) * SECOND = n * SECOND + SECOND + SECOND
      /\ n * SECOND \in Nat /\ c * SECOND \in Nat /\ st * SECOND \in Nat
      /\ 0 * SECOND = 0 /\ 1 * SECOND = SECOND
  <2> n \in Nat /\ st \in Nat /\ SECOND \in Nat /\ time_in_sec = st + n
    BY <1>3, <1>4
  <2>1. time = (st + n) * SECOND
    BY <1>3
  <2> HIDE DEF n, st
  <2>2. (st + n) * SECOND = st * SECOND + n * SECOND
    OBVIOUS
  <2>3. /\ (n - 1) * SECOND = n * SECOND - SECOND
        /\ (n + 1) * SECOND = n * SECOND + SECOND
        /\ (n + 2) * SECOND = n * SECOND + SECOND + SECOND
    OBVIOUS
  <2>4. n * SECOND \in Nat /\ c * SECOND \in Nat /\ st * SECOND \in Nat
    OBVIOUS
  <2>5. 0 * SECOND = 0 /\ 1 * SECOND = SECOND
    OBVIOUS
  <2> QED
    BY <2>1, <2>2, <2>3, <2>4, <2>5
<1>8. now \in Nat /\ now >= time /\ now < time + SECOND
  BY <1>3
<1> HIDE DEF n, st, now
<1>9. CASE st = c
  <2>1. slept > n * SECOND - SECOND /\ slept < n * SECOND + SECOND
    BY <1>3, <1>6, <1>7, <1>8, <1>9
  <2> QED
    BY <1>3, <1>7, <2>1 DEF n
<1>10. CASE c = 0 /\ st = 1
  <2>1. now - slept < SECOND
    BY <1>3, <1>6, <1>7, <1>8, <1>10
  <2>2. slept > n * SECOND - SECOND /\ slept < n * SECOND + SECOND + SECOND
    BY <1>3, <1>6, <1>7, <1>8, <1>10
  <2> QED
    BY <1>3, <1>7, <2>1, <2>2 DEF n, now
<1> QED
  BY <1>6, <1>9, <1>10

-----------------------------------------------------------------------------
(* The console. *)

\* The cursor is past the text only after a negative character of a program,
\* and not while a line is typed.
ScreenInv == /\ screen \in Screens
             /\ ~wide => screen \in Fit
             /\ stdinlength > 0 => ~wide

ConsoleInv == TerminalInv /\ TimerInv /\ ScreenInv

\* The screen at boot.
LEMMA BlankIsScreen == BlankScreen \in Fit
<1>1. [i \in Cells |-> "blank"] \in [Cells -> Glyphs]
  BY DEF Glyphs
<1>2. BlankScreen \in Screens
  BY <1>1, ScreenMade DEF BlankScreen
<1> QED
  BY <1>2, TextArea DEF BlankScreen, Fit

\* The console starts in its invariant.
LEMMA ConsoleInvInit == ConsoleInit => ConsoleInv
BY TerminalInvInit, TimerInvInit, BlankIsScreen
DEF ConsoleInit, ConsoleInv, ScreenInv, Init, Fit

\* Every step of the console is a step of the terminal or leaves it alone,
\* and the same for the timer.
LEMMA ConsoleSteps ==
    [ConsoleNext]_consoleVars => [Next]_vars /\ [TimerNext]_timerVars
<1> SUFFICES ASSUME [ConsoleNext]_consoleVars
             PROVE  [Next]_vars /\ [TimerNext]_timerVars
  OBVIOUS
<1>1. CASE Reading
  BY <1>1 DEF Reading, Next
<1>2. CASE Tick
  BY <1>2 DEF Tick, TimerNext
<1>3. CASE Sleeping
  BY <1>3 DEF Sleeping, TimerNext
<1>4. CASE \E k \in Keys : Keyboard(k)
  BY <1>4 DEF Keyboard, Next
<1>5. CASE \E c \in Output, rest \in Residue : putchar(c, rest)
  BY <1>5 DEF putchar
<1>6. CASE \E n \in Naps : sleep(n)
  BY <1>6 DEF sleep, TimerNext
<1>7. CASE UNCHANGED consoleVars
  BY <1>7 DEF consoleVars
<1> QED
  BY <1>1, <1>2, <1>3, <1>4, <1>5, <1>6, <1>7 DEF ConsoleNext

\* The echo of a key that tunnel takes.  A backspace is echoed as one, and
\* the message shown, only when something was typed.
LEMMA EchoKeeps ==
    ASSUME ConsoleInv, NEW k \in Keys, ~Ignored(getchar(k))
    PROVE  LET s == IF Full THEN kprintf(screen, Message) ELSE screen
           IN LocalEcho(s, getchar(k)) \in Fit
<1> DEFINE s == IF Full THEN kprintf(screen, Message) ELSE screen
           c == getchar(k)
<1>1. c \in Glyphs
  BY CharOfKey DEF Ignored, Glyphs, ConsoleInv, TerminalInv
<1>2. Message \in Seq(Glyphs)
  <2>1. Message \in Seq(Chars \union Output) /\ Chars \union Output \subseteq Glyphs
    BY ConsoleAssumption DEF Glyphs, Letters
  <2> QED
    BY <2>1
<1>3. stdinlength \in Nat /\ LIMIT \in Nat /\ LIMIT > 0
  BY TerminalAssumption DEF ConsoleInv, TerminalInv, TypeOK
<1>4. stdinlength > 0 => screen \in Fit
  BY DEF ConsoleInv, ScreenInv
<1>5. Full => s \in Fit
  BY <1>2, <1>3, <1>4, KprintfKeeps DEF Full
<1>6. s \in Screens
  BY <1>5 DEF ConsoleInv, ScreenInv, Fit
<1>7. c = "backspace" => s \in Fit
  BY <1>3, <1>4, <1>5 DEF Ignored
<1> HIDE DEF s, c
<1>8. LocalEcho(s, c) \in Fit
  BY <1>1, <1>6, <1>7, BackspaceKeeps, FlushcharKeeps DEF LocalEcho
<1> QED
  BY <1>8 DEF s, c

\* Whatever a step shows, the screen stays one between two calls.
LEMMA ScreenInvStep ==
    ConsoleInv /\ TerminalInv' /\ TimerInv' /\ [ConsoleNext]_consoleVars => ScreenInv'
<1> SUFFICES ASSUME ConsoleInv, TerminalInv', TimerInv', [ConsoleNext]_consoleVars
             PROVE  ScreenInv'
  OBVIOUS
<1> USE DEF ConsoleInv, ScreenInv
<1>1. CASE Reading
  <2>1. stdinlength' = stdinlength \/ stdinlength' = 0
    BY <1>1 DEF Reading, Read, ReadEnter, ReadOn, ReadWake, ReadCopy, ReadClear,
                ReadReturn, keyVars
  <2> QED
    BY <1>1, <2>1 DEF Reading, displayVars
<1>2. CASE Tick
  <2>1. time_in_sec' \in Nat
    BY DEF TimerInv, ClockSound
  <2>2. UNCHANGED <<wide, stdinlength>>
    BY <1>2 DEF Tick, vars, keyVars
  <2> QED
    BY <1>2, <2>1, <2>2, FlushtimeKeeps DEF Tick, Fit
<1>3. CASE Sleeping
  BY <1>3 DEF Sleeping, displayVars, vars, keyVars
<1>4. ASSUME NEW k \in Keys, Keyboard(k)
      PROVE  ScreenInv'
  <2>1. CASE Ignored(getchar(k))
    BY <1>4, <2>1 DEF Keyboard, tunnel
  <2>2. CASE ~Ignored(getchar(k))
    <3>1. screen' \in Fit
      BY <1>4, <2>2, EchoKeeps DEF Keyboard
    <3>2. ~wide'
      BY <1>4, <2>2 DEF Keyboard
    <3> QED
      BY <3>1, <3>2 DEF Fit
  <2> QED
    BY <2>1, <2>2
<1>5. ASSUME NEW c \in Output, NEW rest \in Residue, putchar(c, rest)
      PROVE  ScreenInv'
  <2> DEFINE text == StringAt(c, rest)
  <2>1. /\ text \in Seq(Glyphs)
        /\ \A j \in 2..Len(text) : text[j] \in Stray \union {"newline"}
        /\ c # "negative" => Len(text) <= 1
    BY StringAtKeeps
  <2>2. screen' = flush(screen, text) /\ wide' = (c = "negative")
    BY <1>5 DEF putchar
  <2> HIDE DEF text
  <2>3. screen' \in Screens /\ (c # "negative" => screen' \in Fit)
    BY <2>1, <2>2, FlushKeeps
  <2>4. stdinlength' = 0
    BY <1>5 DEF putchar, Computes, vars, keyVars, TerminalInv, Progress
  <2>5. ~wide' => screen' \in Fit
    BY <2>2, <2>3, Zenon
  <2>6. ~(stdinlength' > 0)
    BY <2>4
  <2> QED
    BY <2>3, <2>5, <2>6
<1>6. CASE \E n \in Naps : sleep(n)
  BY <1>6 DEF sleep, displayVars, vars, keyVars
<1>7. CASE UNCHANGED consoleVars
  BY <1>7 DEF consoleVars, displayVars, vars, keyVars
<1> QED
  BY <1>1, <1>2, <1>3, <1>4, <1>5, <1>6, <1>7 DEF ConsoleNext

\* Every step of the console keeps the invariant of its three parts.
LEMMA ConsoleInvStep == ConsoleInv /\ [ConsoleNext]_consoleVars => ConsoleInv'
BY ConsoleSteps, TerminalInvStep, TimerInvStep, ScreenInvStep DEF ConsoleInv

\* The invariant of terminal, timer and screen together.
LEMMA ConsoleInvHolds == ConsoleSpec => []ConsoleInv
BY ConsoleInvInit, ConsoleInvStep, PTL DEF ConsoleSpec

-----------------------------------------------------------------------------
(* The echo. *)

\* A character shown moves the ones before it back by one place, seen from
\* the cursor, whether the screen scrolls or not.
LEMMA FlushcharShifts ==
    ASSUME NEW s \in Screens, NEW ch \in Glyphs
    PROVE  /\ flushchar(s, ch).video > 0
           /\ flushchar(s, ch).cells[flushchar(s, ch).video - 1] = ch
           /\ \A i \in Nat : 2 <= i /\ i <= flushchar(s, ch).video /\ s \in Fit =>
                    /\ i - 1 <= s.video
                    /\ flushchar(s, ch).cells[flushchar(s, ch).video - i]
                         = s.cells[s.video - (i - 1)]
<1> DEFINE u == checkForScroll(s)
           t == flushchar(s, ch)
<1>1. /\ u \in Screens /\ u.video < Text
      /\ u.video \in 0..(Text - 1) /\ u.video \in Cells
      /\ u.cells \in [Cells -> Glyphs]
  BY TextArea, ScrollKeeps, ScreenFields
<1>2. t.video = u.video + 1 /\ t.cells = [u.cells EXCEPT ![u.video] = ch]
  BY <1>1, PutOne DEF flushchar
<1>3. ASSUME s \in Fit
      PROVE  \A i \in Nat : 2 <= i /\ i <= u.video + 1 =>
               /\ i - 1 <= s.video
               /\ u.cells[u.video + 1 - i] = s.cells[s.video - (i - 1)]
  <2>1. CASE ~Scrolls(s)
    <3>1. u = s /\ s.video \in Nat
      BY <2>1, ScreenFields, TextArea DEF checkForScroll
    <3> HIDE DEF u
    <3>2. \A i \in Nat : s.video + 1 - i = s.video - (i - 1)
      BY <3>1
    <3> QED
      BY <3>1, <3>2
  <2>2. CASE Scrolls(s)
    <3>1. s.video = Text
      BY <1>3, <2>2, ScreenFields, TextArea DEF Scrolls, Fit
    <3>2. /\ u.video = HALF * COLS
          /\ u.cells = [i \in Cells |->
                          IF i < HALF * COLS THEN s.cells[i + HALF * COLS]
                          ELSE IF i < Text THEN "blank" ELSE s.cells[i]]
      BY <2>2 DEF checkForScroll, Screens
    <3> HIDE DEF u
    <3> DEFINE h == HALF * COLS
    <3>3. h \in Nat /\ h > 0 /\ Text = h + h /\ \A i \in 0..(Text - 1) : i \in Cells
      BY TextArea
    <3>4. u.video = h /\ \A i \in Cells : i < h => u.cells[i] = s.cells[i + h]
      BY <3>2
    <3> HIDE DEF h
    <3> SUFFICES ASSUME NEW i \in Nat, 2 <= i, i <= h + 1
                 PROVE  /\ i - 1 <= s.video
                        /\ u.cells[h + 1 - i] = s.cells[s.video - (i - 1)]
      BY <3>4
    <3>5. h + 1 - i \in Cells /\ h + 1 - i < h
      BY <3>3
    <3>6. (h + 1 - i) + h = s.video - (i - 1) /\ i - 1 <= s.video
      BY <3>1, <3>3
    <3> QED
      BY <3>4, <3>5, <3>6
  <2> QED
    BY <2>1, <2>2
<1> HIDE DEF u, t
<1>4. t.video > 0 /\ t.cells[t.video - 1] = ch
  <2>1. u.video \in Nat /\ (u.video + 1) - 1 = u.video
    BY <1>1
  <2> QED
    BY <1>1, <1>2, <2>1
<1>5. ASSUME NEW i \in Nat, 2 <= i, i <= t.video, s \in Fit
      PROVE  i - 1 <= s.video /\ t.cells[t.video - i] = s.cells[s.video - (i - 1)]
  <2>1. i <= u.video + 1 /\ u.video + 1 - i # u.video /\ u.video + 1 - i \in Cells
    BY <1>1, <1>2, <1>5, TextArea
  <2>2. t.cells[t.video - i] = u.cells[u.video + 1 - i]
    BY <1>1, <1>2, <2>1
  <2> QED
    BY <1>3, <1>5, <2>1, <2>2
<1> QED
  BY <1>4, <1>5 DEF t

\* A backspace moves the characters before it on by one place, seen from the cursor.
LEMMA BackspaceShifts ==
    ASSUME NEW s \in Fit, NEW i \in Nat, 1 <= i, i <= flushbackspace(s).video
    PROVE  /\ i + 1 <= s.video
           /\ flushbackspace(s).cells[flushbackspace(s).video - i] = s.cells[s.video - (i + 1)]
<1>1. s.video \in 0..Text /\ s.data_written = s.video /\ s.cells \in [Cells -> Glyphs]
  BY ScreenFields, TextArea DEF Fit
<1>2. s.video > 0
  BY <1>1, TextArea DEF flushbackspace
<1>3. /\ flushbackspace(s).video = s.video - 1
      /\ flushbackspace(s).cells = [s.cells EXCEPT ![s.video - 1] = "blank"]
  BY <1>2, BackspaceKeeps
<1>4. s.video - 1 - i = s.video - (i + 1) /\ s.video - (i + 1) # s.video - 1
  BY <1>1, TextArea
<1>5. s.video - (i + 1) \in Cells /\ i + 1 <= s.video
  BY <1>1, <1>3, TextArea
<1> QED
  BY <1>1, <1>3, <1>4, <1>5

\* The lesser of two numbers.
LEMMA MinOfTwo ==
    ASSUME NEW a \in Nat, NEW b \in Nat
    PROVE  /\ Min({a, b}) \in Nat
           /\ \A i \in Nat : i <= Min({a, b}) <=> i <= a /\ i <= b
<1>1. CASE a <= b
  <2>1. Min({a, b}) = a
    BY <1>1 DEF Min
  <2> QED
    BY <1>1, <2>1
<1>2. CASE ~(a <= b)
  <2>1. Min({a, b}) = b
    BY <1>2 DEF Min
  <2> QED
    BY <1>2, <2>1
<1> QED
  BY <1>1, <1>2

\* EchoMatchesLine, without the minimum.
Echoed == \A i \in Nat : 1 <= i /\ i <= stdinlength /\ i <= screen.video =>
             screen.cells[screen.video - i] = stdin[stdinlength - i]

Editing == reader = "waiting" /\ READMODEON = 1 /\ ~literal

\* EchoMatchesLine with the comparison character by character.
LEMMA EchoedDef == ConsoleInv => (EchoMatchesLine <=> (Editing => Echoed))
<1> SUFFICES ASSUME ConsoleInv
             PROVE  EchoMatchesLine <=> (Editing => Echoed)
  OBVIOUS
<1>1. stdinlength \in Nat /\ screen.video \in Nat
  BY TextArea, TerminalAssumption, ScreenFields
  DEF ConsoleInv, ScreenInv, TerminalInv, TypeOK
<1> DEFINE m == Min({stdinlength, screen.video})
<1>2. m \in Nat /\ \A i \in Nat : i <= m <=> i <= stdinlength /\ i <= screen.video
  BY <1>1, MinOfTwo
<1>3. EchoMatchesLine <=> (Editing => \A i \in 1..m :
             screen.cells[screen.video - i] = stdin[stdinlength - i])
  BY DEF EchoMatchesLine, Editing
<1> HIDE DEF m
<1> QED
  BY <1>2, <1>3 DEF Echoed

EchoInv == Editing => Echoed

\* Nothing is typed at boot.
LEMMA EchoInvInit == ConsoleInit => EchoInv
BY DEF ConsoleInit, Init, EchoInv, Editing

\* A key taken while the line goes on: the message was not shown, and a
\* backspace was not a glyph.
LEMMA KeyEchoed ==
    ASSUME ConsoleInv, EchoInv, NEW k \in Keys, Keyboard(k),
           ~Ignored(getchar(k)), Editing'
    PROVE  Echoed'
<1> DEFINE c == getchar(k)
           n == stdinlength
<1>1. Buffered(c) /\ READMODEON = 1 /\ READMODEON' = 1 /\ reader = "waiting"
  BY DEF Keyboard, tunnel, Ignored, ConsoleInv, TerminalInv, TypeOK, Editing
<1>2. /\ n \in Nat /\ n \in DOMAIN stdin /\ DOMAIN stdin \subseteq Nat
      /\ stdin \in [DOMAIN stdin -> Letters \union {"blank"}]
  BY <1>1, TerminalAssumption DEF ConsoleInv, TerminalInv, TypeOK
<1>3. /\ stdin' = [stdin EXCEPT ![n] = Stored(c)]
      /\ n' = NewLength(c)
      /\ n # LIMIT /\ c # "enter"
      /\ c \in Letters \union {"backspace"}
  BY <1>1, BufferedStores DEF ConsoleInv
<1>4. ~Full
  BY <1>1, <1>2, <1>3, TerminalAssumption DEF Full, ConsoleInv, TerminalInv, Progress
<1>5. /\ screen' = LocalEcho(screen, c)
      /\ ~literal /\ ~(ctrlKey /\ c = "backspace")
  BY <1>1, <1>4 DEF Keyboard, Editing
<1>6. Echoed /\ screen \in Screens /\ (n > 0 => screen \in Fit)
  BY <1>1, <1>5 DEF EchoInv, Editing, ConsoleInv, ScreenInv
<1>7. "backspace" \notin Letters
  BY TerminalAssumption DEF Letters
<1>8. screen.video \in Nat
  BY <1>6, ScreenFields, TextArea
<1> HIDE DEF c
<1>9. CASE c = "backspace"
  <2>1. screen' = flushbackspace(screen) /\ n' = n - 1
    BY <1>3, <1>5, <1>9 DEF LocalEcho, NewLength
  <2> SUFFICES ASSUME NEW i \in Nat, 1 <= i, i <= n', i <= screen'.video
               PROVE  screen'.cells[screen'.video - i] = stdin'[n' - i]
    BY DEF Echoed
  <2>2. /\ i + 1 <= screen.video
        /\ screen'.cells[screen'.video - i] = screen.cells[screen.video - (i + 1)]
    BY <1>2, <1>6, <2>1, BackspaceShifts
  <2>3. i + 1 <= n /\ n' - i = n - (i + 1) /\ n - (i + 1) # n
    BY <1>2, <2>1
  <2>4. screen.cells[screen.video - (i + 1)] = stdin[n - (i + 1)]
    BY <1>6, <2>2, <2>3 DEF Echoed
  <2>5. stdin'[n - (i + 1)] = stdin[n - (i + 1)]
    BY <1>2, <1>3, <2>3
  <2> QED
    BY <2>2, <2>3, <2>4, <2>5
<1>10. CASE c \in Letters
  <2>1. screen' = flushchar(screen, c) /\ n' = n + 1 /\ Stored(c) = c /\ c \in Glyphs
    BY <1>3, <1>5, <1>7, <1>10 DEF LocalEcho, NewLength, Stored, Glyphs
  <2> SUFFICES ASSUME NEW i \in Nat, 1 <= i, i <= n', i <= screen'.video
               PROVE  screen'.cells[screen'.video - i] = stdin'[n' - i]
    BY DEF Echoed
  <2>2. CASE i = 1
    <3>1. screen'.cells[screen'.video - 1] = c
      BY <1>6, <2>1, FlushcharShifts
    <3>2. n' - 1 = n /\ stdin'[n] = c
      BY <1>2, <1>3, <2>1
    <3> QED
      BY <2>2, <3>1, <3>2
  <2>3. CASE i # 1
    <3>1. 2 <= i /\ i - 1 \in Nat /\ 1 <= i - 1 /\ i - 1 <= n
      BY <1>2, <2>1, <2>3
    <3> DEFINE t == screen'
    <3>2. /\ screen \in Fit /\ screen \in Screens /\ c \in Glyphs /\ t = flushchar(screen, c)
          /\ 2 <= i /\ i <= t.video
      BY <1>2, <1>6, <2>1, <3>1
    <3> HIDE DEF t
    <3>3. i - 1 <= screen.video /\ t.cells[t.video - i] = screen.cells[screen.video - (i - 1)]
      BY <3>2, FlushcharShifts
    <3>4. n' - i = n - (i - 1) /\ n - (i - 1) # n
      BY <1>2, <2>1, <3>1
    <3>5. screen.cells[screen.video - (i - 1)] = stdin[n - (i - 1)]
      BY <1>6, <3>1, <3>3 DEF Echoed
    <3>6. stdin'[n - (i - 1)] = stdin[n - (i - 1)]
      BY <1>2, <1>3, <3>4
    <3> QED
      BY <3>3, <3>4, <3>5, <3>6 DEF t
  <2> QED
    BY <2>2, <2>3
<1> QED
  BY <1>3, <1>9, <1>10

\* The echo follows the line through every step.
LEMMA EchoInvStep == ConsoleInv /\ EchoInv /\ [ConsoleNext]_consoleVars => EchoInv'
<1> SUFFICES ASSUME ConsoleInv, EchoInv, [ConsoleNext]_consoleVars, Editing'
             PROVE  Echoed'
  BY DEF EchoInv
<1>1. CASE Reading
  <2>1. ReadOn
    BY <1>1 DEF Reading, Read, ReadEnter, ReadOn, ReadWake, ReadCopy, ReadClear,
                ReadReturn, Editing
  <2>2. stdinlength' = 0
    BY <2>1 DEF ReadOn, ConsoleInv, TerminalInv, Progress
  <2> QED
    BY <2>2 DEF Echoed
<1>2. CASE Tick
  <2>1. UNCHANGED <<stdin, stdinlength, reader, READMODEON, literal>>
    BY <1>2 DEF Tick, vars, keyVars
  <2>2. screen'.video = screen.video /\ screen'.cells = screen.cells
    <3>1. time_in_sec' \in Nat
      BY <1>2, TickClock DEF Tick, ConsoleInv, TimerInv, ClockSound
    <3> QED
      BY <1>2, <3>1, FlushtimeKeeps DEF Tick, ConsoleInv, ScreenInv
  <2> QED
    BY <2>1, <2>2 DEF EchoInv, Editing, Echoed
<1>3. CASE Sleeping \/ (\E n \in Naps : sleep(n)) \/ UNCHANGED consoleVars
  BY <1>3 DEF Sleeping, sleep, consoleVars, displayVars, vars, keyVars,
              EchoInv, Editing, Echoed
<1>4. ASSUME NEW k \in Keys, Keyboard(k)
      PROVE  Echoed'
  <2>1. CASE Ignored(getchar(k))
    BY <1>4, <2>1 DEF Keyboard, tunnel, EchoInv, Editing, Echoed
  <2> QED
    BY <1>4, <2>1, KeyEchoed
<1>5. CASE \E c \in Output, rest \in Residue : putchar(c, rest)
  BY <1>5 DEF putchar, Computes, vars, keyVars, Editing
<1> QED
  BY <1>1, <1>2, <1>3, <1>4, <1>5 DEF ConsoleNext

-----------------------------------------------------------------------------
(* The theorems. *)

\* The console drives the terminal only through its own steps, so stdin and
\* its length keep their type under the timer and the echo too.
THEOREM ConsoleTypeCorrect == ConsoleSpec => []TypeOK
<1>1. ConsoleInv => TypeOK
  BY DEF ConsoleInv, TerminalInv
<1> QED
  BY <1>1, ConsoleInvHolds, PTL

\* The line that k_read hands out is terminated unless its last character is
\* negative, whichever interrupts come between the steps of its copy.
THEOREM ConsoleLineTerminated == ConsoleSpec => []LineTerminated
<1>1. ConsoleInv => LineTerminated
  BY InvTerminates DEF ConsoleInv
<1> QED
  BY <1>1, ConsoleInvHolds, PTL

\* video and data_written of sys/kprintf.c never part, and leave the text
\* only behind a negative character of a program, until the next thing is
\* shown: for every size of the screen and of an int, whatever the stack
\* holds behind it, through scrolls, newlines, backspaces and the clock.
THEOREM CursorIsSound == ConsoleSpec => []CursorSound
<1>1. ConsoleInv => CursorSound
  BY ScreenFields, TextArea DEF ConsoleInv, ScreenInv, CursorSound, Fit
<1> QED
  BY <1>1, ConsoleInvHolds, PTL

\* No echo, no message and no character of a program reaches the clock's
\* row, for every size of the screen: only the bytes that putchar did not
\* mean to write, behind a negative character, can.
THEOREM ClockRowIsFree == ConsoleSpec => []ClockRowFree
<1>1. ConsoleInv => ClockRowFree
  BY ScreenFields DEF ConsoleInv, ScreenInv, ClockRowFree
<1> QED
  BY <1>1, ConsoleInvHolds, PTL

\* The characters before the cursor are the ones in stdin: LOCAL_ECHO and
\* tunnel keep the screen and the buffer in step, over scrolls and
\* backspaces, for lines and screens of any size.
THEOREM EchoIsTheLine == ConsoleSpec => []EchoMatchesLine
<1>1. ConsoleInv /\ EchoInv => EchoMatchesLine
  BY EchoedDef DEF EchoInv
<1> QED
  BY <1>1, ConsoleInvHolds, EchoInvInit, EchoInvStep, PTL DEF ConsoleSpec

\* With the echo and the clock running the terminal is still a line editor.
THEOREM ConsoleIsLineEditor == ConsoleSpec => ImplementsLineEditor
<1>1. ConsoleInit => Editor!Init
  BY EditorInit DEF ConsoleInit
<1>2. ConsoleInv /\ ConsoleInv' /\ [ConsoleNext]_consoleVars
        => [Editor!Next]_<<EditorMode, EditorLine>>
  BY ConsoleSteps, EditorStep DEF ConsoleInv
<1> QED
  BY <1>1, <1>2, ConsoleInvHolds, PTL DEF ConsoleSpec, ImplementsLineEditor, Editor!Spec

\* sleep of libc/unistd.c lasts its seconds, to within one second and to
\* within two in the first second after boot, for every tick length that
\* divides the second and wherever between two ticks it is called.
THEOREM SleepLastsItsSeconds == ConsoleSpec => SleepLength
<1>1. ConsoleInv /\ [ConsoleNext]_consoleVars => [SleepLengthStep]_timerVars
  BY ConsoleSteps, SleepLengthHolds DEF ConsoleInv
<1> QED
  BY <1>1, ConsoleInvHolds, PTL DEF ConsoleSpec, SleepLength, SleepLengthStep
=============================================================================
