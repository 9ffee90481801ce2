------------------------------ MODULE Console ------------------------------
(***************************************************************************)
(* The console: the line discipline of Terminal, the screen it echoes to,  *)
(* and the clock, which shows itself on the same screen.  Two interrupts,  *)
(* keyboard and timer, run between any two steps of the one process that   *)
(* has the CPU, which reads a line, writes characters or sleeps.           *)
(***************************************************************************)
EXTENDS Terminal, Screen, Timer

CONSTANTS
    Output,    \* the characters a program writes
    Message,   \* "Cant support more than 1024 characters!\n"
    INT,       \* bytes of an int (4)
    Residue    \* what the stack may hold behind an int, up to a 0

\* Bytes that no program means to write: the sign of a character, and what
\* follows it on the stack.
Stray == {"ones", "stack"}

ASSUME ConsoleAssumption ==
    /\ (Chars \union Output) \cap Stray = {}
    /\ Message \in Seq(Chars \union Output)
    /\ INT \in Nat \ {0}
    /\ Residue \subseteq Seq({"stack", "newline"})

VARIABLES
    screen,
    ctrlKey,   \* ctrl was pressed and no character echoed since
    literal,   \* history: a backspace in the line being typed was
               \* echoed as a glyph
    wide       \* history: the last character shown was a negative one
               \* that a program wrote

displayVars == <<screen, ctrlKey, literal, wide>>
consoleVars == <<vars, timerVars, displayVars>>

ConsoleInit == /\ Init
               /\ TimerInit
               /\ screen = BlankScreen
               /\ ctrlKey = FALSE
               /\ literal = FALSE
               /\ wide = FALSE

\* Mutant of LocalEcho: a backspace is always echoed as a glyph.
EchoGlyph(s, c) == flushchar(s, c)

\* After ctrl even a backspace is shown as a character.  Enter is shown as
\* a glyph; the next row is begun by what the program writes.
LocalEcho(s, c) == IF c = "backspace" /\ ~ctrlKey THEN flushbackspace(s)
                   ELSE flushchar(s, c)

\* The keyboard interrupt: the buffer as in Terminal, and the echo, after
\* the message at the limit.
Keyboard(k) ==
    LET c == getchar(k)
        s == IF Full THEN kprintf(screen, Message) ELSE screen
    IN /\ tunnel(k)
       /\ \/ /\ Ignored(c)
             /\ ctrlKey' = (ctrlKey \/ k = "ctrl")
             /\ UNCHANGED <<screen, literal, wide>>
          \/ /\ ~Ignored(c)
             /\ screen' = LocalEcho(s, c)
             /\ literal' = /\ READMODEON' = 1
                           /\ literal \/ (ctrlKey /\ c = "backspace")
             /\ ctrlKey' = FALSE
             /\ wide' = FALSE
       /\ UNCHANGED timerVars

\* The timer interrupt.
Tick ==
    /\ timemama
    /\ screen' = IF Rollover THEN flushtime(screen, time_in_sec') ELSE screen
    /\ UNCHANGED <<vars, ctrlKey, literal, wide>>

\* The process runs and does not read.
Computes == reader = "idle" /\ ~Asleep

\* The string at the address of an int: write of sys/terminal.c has no use
\* for the count and shows all up to a 0.  A char below 0x80 is followed by
\* one; a negative char is not, nor are the other bytes of the int, and what
\* comes behind them on the stack is not defined.
StringAt(c, rest) ==
    IF c = "nul" THEN <<>>
    ELSE IF c # "negative" THEN <<c>>
    ELSE <<c>> \o [i \in 1..(INT - 1) |-> "ones"] \o rest

\* putchar, the only way libc writes (puts, printf and echo go through it):
\* one call of k_write for each character, with the address of its int.
putchar(c, rest) ==
    /\ Computes
    /\ screen' = flush(screen, StringAt(c, rest))
    /\ wide' = (c = "negative")
    /\ UNCHANGED <<vars, timerVars, ctrlKey, literal>>

Reading ==
    /\ ~Asleep
    /\ Read
    /\ UNCHANGED <<timerVars, displayVars>>

sleep(n) == reader = "idle" /\ SleepCall(n) /\ UNCHANGED <<vars, displayVars>>

Sleeping == SleepPoll /\ UNCHANGED <<vars, displayVars>>

ConsoleNext == \/ Reading
               \/ Tick
               \/ Sleeping
               \/ \E k \in Keys : Keyboard(k)
               \/ \E c \in Output, rest \in Residue : putchar(c, rest)
               \/ \E n \in Naps : sleep(n)

\* Between interrupts the process keeps executing, and the interval timer
\* keeps ticking.  Nothing is assumed of the keyboard.
ConsoleSpec == /\ ConsoleInit /\ [][ConsoleNext]_consoleVars
               /\ WF_consoleVars(Reading)
               /\ WF_consoleVars(Tick)
               /\ WF_consoleVars(Sleeping)

-----------------------------------------------------------------------------

\* The pointer video and the counter data_written stay together, whatever
\* is written, and inside the text area or just after it: through rows,
\* scrolls in the middle of a line, and backspaces after a scroll.  Only a
\* negative character from a program, several cells after one look at the
\* scroll, takes them farther, and the next thing that is shown, a
\* character or the echo of a key, brings them back.
CursorSound == /\ screen.video = screen.data_written
               /\ screen.video \in 0..Text \/ (wide /\ screen.video > Text)

\* What is typed, echoed or written never gets into the clock's row: the
\* only bytes that do are those behind a negative character, never the
\* character itself.
ClockRowFree == \A i \in Cells : i >= Text => screen.cells[i] \in Stray \union {"blank"}

\* The user sees the line that the program will get: while a line is typed
\* the characters before the cursor are the last ones in stdin, across
\* scrolls and backspaces, unless a backspace was typed with ctrl.
EchoMatchesLine ==
    reader = "waiting" /\ READMODEON = 1 /\ ~literal =>
        \A i \in 1..Min({stdinlength, screen.video}) :
            screen.cells[screen.video - i] = stdin[stdinlength - i]
=============================================================================
