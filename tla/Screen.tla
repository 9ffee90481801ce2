------------------------------- MODULE Screen -------------------------------
(***************************************************************************)
(* Text output, sys/kprintf.c: the operations are functions from screens   *)
(* to screens.  The pointer video and the counter data_written say the     *)
(* same thing twice and are updated apart.  The last row of the screen     *)
(* belongs to the clock.  Colours, the attribute bytes of the cells, are   *)
(* left out, so that flush and flushcolor are one.                         *)
(***************************************************************************)
EXTENDS Integers, Sequences, SequencesExt, FiniteSetsExt

CONSTANTS COLS,   \* cells of a row (80)
          HALF    \* rows that a scroll moves, half of those for text (12)

ASSUME ScreenAssumption == COLS \in Nat \ {0} /\ HALF \in Nat \ {0}

\* The first cell of the clock's row.
Text == 2 * HALF * COLS

Cells == 0..(Text + COLS - 1)

BlankScreen == [cells |-> [i \in Cells |-> "blank"], video |-> 0,
                data_written |-> 0, clock |-> 0]

\* Mutant of Scrolls: one row too late.
ScrollsLate(s) == s.data_written >= Text + COLS

Scrolls(s) == s.data_written >= Text

\* Mutant of checkForScroll: the counter is not set back.
ScrollKeepsCount(s) ==
    IF ~Scrolls(s) THEN s
    ELSE [s EXCEPT !.video = HALF * COLS,
                   !.cells = [i \in Cells |->
                                IF i < HALF * COLS THEN s.cells[i + HALF * COLS]
                                ELSE IF i < Text THEN "blank" ELSE s.cells[i]]]

\* The lower half of the text moves up and the lower half is blanked.
checkForScroll(s) ==
    IF ~Scrolls(s) THEN s
    ELSE [s EXCEPT !.video = HALF * COLS,
                   !.data_written = HALF * COLS,
                   !.cells = [i \in Cells |->
                                IF i < HALF * COLS THEN s.cells[i + HALF * COLS]
                                ELSE IF i < Text THEN "blank" ELSE s.cells[i]]]

\* *video++ for each character.  Cells after the last row are not shown.
Put(s, text) ==
    [s EXCEPT !.video = @ + Len(text),
              !.data_written = @ + Len(text),
              !.cells = [i \in Cells |->
                           IF s.video <= i /\ i < s.video + Len(text)
                             THEN text[i - s.video + 1] ELSE s.cells[i]]]

\* Both go on to the next multiple of a row, told by the counter.
NextRow(s) ==
    LET n == (COLS - (s.data_written % COLS)) % COLS
    IN [s EXCEPT !.video = @ + n, !.data_written = @ + n]

\* A string is shown up to its first newline, which ends the row; what
\* comes after it is dropped.  The scroll is looked at once, before.
flush(s, text) ==
    LET ends == {i \in DOMAIN text : text[i] = "newline"}
        shown == IF ends = {} THEN text ELSE SubSeq(text, 1, Min(ends) - 1)
        written == Put(checkForScroll(s), shown)
    IN IF ends = {} THEN written ELSE NextRow(written)

flushchar(s, ch) == Put(checkForScroll(s), <<ch>>)

flushNewLine(s) == NextRow(checkForScroll(s))

\* The first cell of the screen cannot be erased.
flushbackspace(s) ==
    IF s.data_written = 0 THEN s
    ELSE [s EXCEPT !.video = @ - 1, !.data_written = @ - 1,
                   !.cells[s.video - 1] = "blank"]

\* "BOOT TIME: " and the seconds, in the clock's row.
flushtime(s, seconds) == [s EXCEPT !.clock = seconds]

\* A format of plain characters: a newline ends the row, the others are
\* shown one by one.
kprintf(s, fmt) ==
    LET shown[n \in 0..Len(fmt)] ==
          IF n = 0 THEN s
          ELSE IF fmt[n] = "newline" THEN flushNewLine(shown[n - 1])
          ELSE flushchar(shown[n - 1], fmt[n])
    IN shown[Len(fmt)]
=============================================================================
