----------------------------- MODULE LineEditor -----------------------------
(***************************************************************************)
(* What the terminal promises a program that reads a line: the keys typed  *)
(* while it reads, edited by backspaces, up to Enter or until the line is  *)
(* full, and nothing typed before or after.  A line that Enter has ended   *)
(* has a terminator; one that was full need not have one.                  *)
(***************************************************************************)
EXTENDS Sequences, SequencesExt, Naturals

CONSTANTS Letters, Terminator, Capacity

VARIABLES mode, line

Init == mode = "closed" /\ line = <<>>

Open == mode = "closed" /\ mode' = "editing" /\ UNCHANGED line

\* A key changes the line by appending a letter or by removing the last one.
Edits == {Append(line, c) : c \in Letters}
         \union (IF line = <<>> THEN {} ELSE {Front(line)})

Type ==
    /\ mode = "editing"
    /\ Len(line) < Capacity
    /\ line' \in Edits
    /\ UNCHANGED mode

\* Enter ends the line with the terminator.
Enter == mode = "editing" /\ mode' = "full" /\ line' = Append(line, Terminator)

\* The key that meets a full line is the last one, whatever it is.
Overflow ==
    /\ mode = "editing"
    /\ Len(line) = Capacity
    /\ line' \in Edits
    /\ mode' = "full"

\* The reader gets the line.
Deliver == mode = "full" /\ mode' = "closed" /\ line' = <<>>

Next == Open \/ Type \/ Enter \/ Overflow \/ Deliver

Spec == Init /\ [][Next]_<<mode, line>>
=============================================================================
