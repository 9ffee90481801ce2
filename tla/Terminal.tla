------------------------------ MODULE Terminal ------------------------------
(***************************************************************************)
(* Standard input: the read loop and the keyboard interrupt handler of     *)
(* sys/terminal.c, with the key decoding of sys/keyboardMap.c.  read turns *)
(* interrupts on and never off again, so the handler may run between any   *)
(* two of its steps; the two share stdin, stdinlength and READMODEON and   *)
(* no lock.                                                                *)
(***************************************************************************)
EXTENDS Integers, Sequences

CONSTANTS
    Chars,        \* the characters of ordinary keys
    Plain,        \* one of them, for all that are not told apart
    Keys,         \* the keys that are pressed
    LIMIT,        \* the length at which tunnel ends the line (1022)
    STDIN_SIZE,   \* characters of the buffer (1024)
    WORD          \* bytes that one store of read writes (8)

ASSUME TerminalAssumption ==
    /\ LIMIT \in Nat /\ LIMIT > 1
    /\ STDIN_SIZE \in Nat /\ LIMIT + 2 <= STDIN_SIZE
    /\ WORD \in Nat /\ WORD > 1
    /\ Plain \in Chars
    /\ Chars \cap {"enter", "backspace", "tab", "space", "star", "unmapped",
                  "shift", "ctrl", "release", "none", "negative", "nul",
                  "ones", "blank"} = {}

VARIABLES
    stdin, stdinlength, READMODEON,
    shiftKey,    \* a shift key was pressed
    reader,      \* where the reading process is in k_read
    copied,      \* the loop counter of read
    buff         \* the memory at the reader's address

keyVars == <<stdin, stdinlength, READMODEON, shiftKey>>
vars == <<keyVars, reader, copied, buff>>

\* A key may give the codes 0 and below, which are stored like characters.
Letters == Chars \union {"nul", "negative"}

\* For each key that is no ordinary character ScanCodeMap[key], and the same
\* less 32, which is what shift makes of it.  Codes below 32 are characters
\* like others.  A key that is not in the map has the code 0; the code of
\* a release is taken for one of '#', which tunnel ignores.
ScanCodeMap == [enter     |-> <<"enter", "negative">>,
                backspace |-> <<"backspace", Plain>>,
                tab       |-> <<Plain, "negative">>,
                space     |-> <<Plain, "nul">>,
                star      |-> <<Plain, "enter">>,
                unmapped  |-> <<"nul", "negative">>,
                release   |-> <<"none", Plain>>]

KeySet == Chars \union DOMAIN ScanCodeMap \union {"shift", "ctrl"}

ASSUME KeysAssumption == Keys \subseteq KeySet

getKeyBoardKey(k) == IF k \in Chars THEN k
                     ELSE ScanCodeMap[k][IF shiftKey THEN 2 ELSE 1]

\* The special keys only set their flag.
getchar(k) == IF k \in {"shift", "ctrl"} THEN "none" ELSE getKeyBoardKey(k)

Init ==
    /\ stdin = [i \in 0..(STDIN_SIZE - 1) |-> "nul"]
    /\ stdinlength = 0
    /\ READMODEON = 0
    /\ shiftKey = FALSE
    /\ reader = "idle"
    /\ copied = 0
    /\ buff = [i \in 0..(STDIN_SIZE + WORD) |-> "blank"]

-----------------------------------------------------------------------------
(* The keyboard interrupt. *)

\* Mutant of Full: the size of the buffer is taken for the limit.
FullAtSize == stdinlength >= STDIN_SIZE

\* "Cant support more than 1024 characters!"
Full == stdinlength >= LIMIT

\* What tunnel does to the buffer.  At the limit it terminates the line,
\* ends the read and then handles the key as ever.
Buffered(c) ==
    LET base == IF Full THEN [stdin EXCEPT ![stdinlength] = "nul"] ELSE stdin
    IN /\ READMODEON' = IF Full \/ c = "enter" THEN 0 ELSE READMODEON
       /\ \/ /\ c = "enter"
             /\ stdin' = [base EXCEPT ![stdinlength] = "nul"]
             /\ stdinlength' = stdinlength + 1
          \/ /\ c = "backspace"
             /\ stdin' = [base EXCEPT ![stdinlength] = "blank"]
             /\ stdinlength' = stdinlength - 1
          \/ /\ c \in Letters
             /\ stdin' = [base EXCEPT ![stdinlength] = c]
             /\ stdinlength' = stdinlength + 1

\* Mutant of Ignored: keys are kept while nobody reads.
IgnoredOnlyIfUnknown(c) == \/ c = "none"
                           \/ ~Full /\ stdinlength = 0 /\ c = "backspace"

\* The early returns of tunnel.
Ignored(c) == \/ c = "none"
              \/ READMODEON = 0
              \/ ~Full /\ stdinlength = 0 /\ c = "backspace"

\* keymama and tunnel.
tunnel(k) ==
    LET c == getchar(k)
    IN /\ shiftKey' = IF k = "ctrl" THEN shiftKey ELSE k = "shift"
       /\ \/ Ignored(c) /\ UNCHANGED <<stdin, stdinlength, READMODEON>>
          \/ ~Ignored(c) /\ Buffered(c)
       /\ UNCHANGED <<reader, copied, buff>>

-----------------------------------------------------------------------------
(* k_read on descriptor 0. *)

\* sti
ReadEnter ==
    /\ reader = "idle"
    /\ reader' = "enabled"
    /\ UNCHANGED <<keyVars, copied, buff>>

\* READMODEON = 1;
ReadOn ==
    /\ reader = "enabled"
    /\ reader' = "waiting"
    /\ READMODEON' = 1
    /\ UNCHANGED <<stdin, stdinlength, shiftKey, copied, buff>>

\* Mutant of ReadWake: the loop does not read the flag again.
ReadSpins == reader = "waiting" /\ READMODEON = 0 /\ UNCHANGED vars

\* while(READMODEON == 1) ends.
ReadWake ==
    /\ reader = "waiting"
    /\ READMODEON = 0
    /\ reader' = "copying"
    /\ copied' = 0
    /\ UNCHANGED <<keyVars, buff>>

\* Mutant of RestOfWord: the store is one byte wide.
NarrowStore(i) == FALSE

\* *(uint64_t*)addr++ = stdin[i] also stores the bytes after the character,
RestOfWord(i) == copied < i /\ i < copied + WORD

\* which are its sign: a char is signed and is extended to the word.
Extension(c) == IF c = "negative" THEN "ones" ELSE "nul"

\* One turn of the copy loop: a store of a whole word at each address.
ReadCopy ==
    /\ reader = "copying"
    /\ copied < stdinlength
    /\ buff' = [i \in DOMAIN buff |->
                  IF i = copied THEN stdin[copied]
                  ELSE IF RestOfWord(i) THEN Extension(stdin[copied])
                  ELSE buff[i]]
    /\ copied' = copied + 1
    /\ UNCHANGED <<keyVars, reader>>

\* The copy is complete, and the buffer is blanked.
ReadClear ==
    /\ reader = "copying"
    /\ copied >= stdinlength
    /\ stdin' = [i \in DOMAIN stdin |-> "blank"]
    /\ reader' = "cleared"
    /\ UNCHANGED <<stdinlength, READMODEON, shiftKey, copied, buff>>

\* stdinlength = 0 and the return.  The program takes its line.
ReadReturn ==
    /\ reader = "cleared"
    /\ stdinlength' = 0
    /\ reader' = "idle"
    /\ copied' = 0
    /\ buff' = [i \in DOMAIN buff |-> "blank"]
    /\ UNCHANGED <<stdin, READMODEON, shiftKey>>

Read == ReadEnter \/ ReadOn \/ ReadWake \/ ReadCopy \/ ReadClear \/ ReadReturn

Next == Read \/ \E k \in Keys : tunnel(k)

\* Between interrupts the reading process keeps executing.
Spec == Init /\ [][Next]_vars /\ WF_vars(Read)

-----------------------------------------------------------------------------

\* The one byte past the limit is inside the buffer: neither Enter nor a
\* letter nor a backspace ever stores outside stdin.
TypeOK ==
    /\ stdin \in [0..(STDIN_SIZE - 1) -> Letters \union {"blank"}]
    /\ stdinlength \in 0..(STDIN_SIZE - 1)
    /\ READMODEON \in {0, 1}
    /\ shiftKey \in BOOLEAN
    /\ reader \in {"idle", "enabled", "waiting", "copying", "cleared"}
    /\ copied \in 0..(STDIN_SIZE - 1)
    /\ buff \in [0..(STDIN_SIZE + WORD) -> Letters \union {"ones", "blank"}]

\* The first n bytes of a buffer.
Line(b, n) == [i \in 1..n |-> b[i - 1]]

\* The editor's variables.
EditorMode == IF reader \in {"idle", "enabled"} THEN "closed"
              ELSE IF READMODEON = 1 THEN "editing" ELSE "full"

EditorLine == IF reader \in {"idle", "enabled"} THEN <<>>
              ELSE IF reader = "cleared" THEN Line(buff, copied)
              ELSE Line(stdin, stdinlength)

Editor == INSTANCE LineEditor WITH
    Terminator <- "nul", Capacity <- LIMIT, mode <- EditorMode, line <- EditorLine

\* The terminal implements the line editor: what read has copied out when it
\* clears stdin is the line that was edited, whichever keys arrive between
\* its steps, at the limit, or between two reads.
ImplementsLineEditor == Editor!Spec

\* The copy is terminated even when the line was ended by the limit, whose
\* terminator the last key overwrites: the wide store of the last character
\* leaves a 0 behind it, unless that character is negative (shift with Enter
\* or Tab), when what follows it is ones and then whatever was there.
LineTerminated ==
    reader = "cleared" /\ buff[copied - 1] # "negative" =>
        \E i \in 0..copied : buff[i] = "nul"

\* A line that has ended reaches the program; later keys cannot hold it up.
ReadReturns == reader = "waiting" /\ READMODEON = 0 ~> reader = "idle"
=============================================================================
