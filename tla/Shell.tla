------------------------------- MODULE Shell -------------------------------
(***************************************************************************)
(* A session of bin/sbush on the kernel of module Scheduler.  The shell in *)
(* slot 0 reads a line, splits it into words and runs a built-in command   *)
(* or a script.  ls, cat, echo and ps fork a child that execs the binary,  *)
(* and wait for it.  crt1 ends every binary with exit(0).                  *)
(*                                                                         *)
(* A line is a sequence of blanks and of pieces of words; a word is a run  *)
(* of pieces, told by its first one.  The kill command is left out: in a   *)
(* session without background jobs it has nobody to kill.                  *)
(***************************************************************************)
EXTENDS Scheduler, Sequences, SequencesExt

CONSTANTS
    Lines,     \* the lines a user types
    Scripts,   \* for the path of each sbush script, its lines
    OtherPaths \* other pieces that begin with . or /

\* A command takes two processes beside the shell, and every program ends
\* with exit(0).
ASSUME TableAssumption == PROC_SIZE > 2 /\ 0 \in Statuses
ASSUME LinesAssumption == /\ Lines \subseteq Seq(STRING)
                          /\ \A p \in DOMAIN Scripts : Scripts[p] \in Seq(Seq(STRING))

VARIABLES
    shell,   \* "ready" for its next line, or "forked" and about to wait
    line,    \* the line typed last
    started, \* history: global_pid when it was typed
    script,  \* the lines of the running script still to come
    prog     \* for each slot, the program it runs

inputVars == <<line, started>>
userVars == <<shell, inputVars, script, prog>>
shellVars == <<vars, userVars>>

ShellInit == /\ Init
             /\ shell = "ready"
             /\ line = <<>>
             /\ started = global_pid
             /\ script = <<>>
             /\ prog = [s \in Slots |-> IF s = 0 THEN "sbush" ELSE "none"]

Runs(p) == cpu = "user" /\ prog[active] = p

Ready == Runs("sbush") /\ shell = "ready"

AtPrompt == Ready /\ script = <<>>

-----------------------------------------------------------------------------
(* Lines and words. *)

\* Mutant of ValidString: a signed length, for which an empty line is not
\* valid.
ValidIfSigned(l) == Cardinality({i \in DOMAIN l : l[i] = " "}) <= Len(l) - 1

\* empty <= strlen(line)-1.  strlen is unsigned: an empty line is valid.
ValidString(l) ==
    l = <<>> \/ Cardinality({i \in DOMAIN l : l[i] = " "}) <= Len(l) - 1

\* mystrtok again and again: the words of a line.
SplitString(l) ==
    LET first == {i \in DOMAIN l : l[i] # " " /\ (i = 1 \/ l[i - 1] = " ")}
        start(n) == CHOOSE i \in first : Cardinality({j \in first : j <= i}) = n
        end(i) == CHOOSE j \in i..Len(l) :
                     /\ \A k \in i..j : l[k] # " "
                     /\ j = Len(l) \/ l[j + 1] = " "
    IN [n \in 1..Cardinality(first) |-> SubSeq(l, start(n), end(start(n)))]

\* cmd[0] == '.' || cmd[0] == '/', which looks at the line, not at the word.
IsPath(l) == l[1] \in OtherPaths \union DOMAIN Scripts

\* Bound: a line is typed only while the pids last for what it may run.
Affordable(l) ==
    LET runs == IF l = <<>> THEN 0
                ELSE IF l[1] \in DOMAIN Scripts THEN Len(Scripts[l[1]]) ELSE 1
    IN global_pid + 2 * runs <= MaxPid + 1

-----------------------------------------------------------------------------
(* Commands. *)

\* The child of cat dereferences its missing argument, echo's binary does.
Child(cmd, words) == IF Len(words) > 1 \/ cmd \in {"ls", "ps"} THEN "child"
                     ELSE IF cmd = "cat" THEN "null" ELSE "nullchild"

\* ExecuteLS, ExecuteCAT, ExecuteEcho and ExecutePS up to fork.
Command(cmd, words) ==
    \/ /\ Fork
       /\ shell' = "forked"
       /\ prog' = [prog EXCEPT ![active'] = Child(cmd, words)]
    \/ (ForkHangs \/ CreateOverflows) /\ UNCHANGED <<shell, prog>>

\* Commands are recognised by how their word begins.  cd and everything
\* that is not built in leave the processes alone.
ExecuteBuiltIn(words) ==
    LET cmd == words[1][1]
    IN \/ cmd \in {"ls", "cat", "echo", "ps"} /\ Command(cmd, words)
       \/ /\ cmd \notin {"ls", "cat", "echo", "ps"}
          /\ UNCHANGED <<vars, shell, prog>>

\* Mutant of Loaded: the lines of the script are lost.
LoadedNone(words, rest) == <<>>

\* The lines to run after a path was typed: those of the script, if the file
\* exists and begins with #!rootfs/bin/sbush, and then the rest.
Loaded(words, rest) ==
    IF \E p \in DOMAIN Scripts : words[1] = <<p>> THEN Scripts[words[1][1]] \o rest
    ELSE rest

Execute(l, rest) ==
    LET words == SplitString(l)
    IN \/ words = <<>> /\ script' = rest /\ UNCHANGED <<vars, shell, prog>>
       \/ /\ words # <<>> /\ IsPath(l)
          /\ script' = Loaded(words, rest)
          /\ UNCHANGED <<vars, shell, prog>>
       \/ /\ words # <<>> /\ ~IsPath(l)
          /\ script' = rest
          /\ ExecuteBuiltIn(words)

\* TakeInput and a turn of main's loop.  Of a line that is not valid main
\* gets NULL, and free(NULL) stops the machine with a segmentation fault.
TypeLine(l) ==
    /\ AtPrompt
    /\ Affordable(l)
    /\ line' = l
    /\ started' = global_pid
    /\ \/ ~ValidString(l) /\ Stop("hung") /\ UNCHANGED <<shell, script, prog>>
       \/ /\ ValidString(l) /\ l = <<>>
          /\ UNCHANGED <<vars, shell, script, prog>>
       \/ ValidString(l) /\ l # <<>> /\ Execute(l, <<>>)

\* A line of a script is run unless it has a comment; its last character,
\* the carriage return, is cut off.
ScriptLine ==
    /\ Ready
    /\ script # <<>>
    /\ LET l == Head(script)
       IN \/ /\ l = <<>> \/ "#" \in Range(l)
             /\ script' = Tail(script)
             /\ UNCHANGED <<vars, shell, prog>>
          \/ l # <<>> /\ "#" \notin Range(l) /\ Execute(Front(l), Tail(script))
    /\ UNCHANGED inputVars

\* The shell's wait(&status).
WaitForCommand ==
    /\ Runs("sbush")
    /\ shell = "forked"
    /\ Wait(ANY_CHILD)
    /\ shell' = "ready"
    /\ UNCHANGED <<inputVars, script, prog>>

-----------------------------------------------------------------------------
(* The other programs. *)

\* The child's execvpe; the four binaries are in the image.
ChildExecs ==
    /\ Runs("child") \/ Runs("nullchild")
    /\ \/ /\ Exec
          /\ prog' = [prog EXCEPT ![active'] =
                         IF Runs("child") THEN "binary" ELSE "null"]
       \/ (CreateOverflows \/ CreateOverruns) /\ UNCHANGED prog
    /\ UNCHANGED <<shell, inputVars, script>>

\* A read at NULL in user mode: ThrowSegmentationFault.
NullRead == Runs("null") /\ Stop("hung") /\ UNCHANGED userVars

\* The binary gives up the CPU.
BinaryYields == Runs("binary") /\ Yield /\ UNCHANGED userVars

\* main returns to _start, which calls exit(0).
BinaryExits == Runs("binary") /\ Exit(0) /\ UNCHANGED userVars

KernelSwitches == SwitchStep /\ UNCHANGED userVars

ShellHalted == Halted /\ UNCHANGED userVars

ShellNext == \/ \E l \in Lines : TypeLine(l)
             \/ ScriptLine
             \/ WaitForCommand
             \/ ChildExecs
             \/ NullRead
             \/ BinaryYields
             \/ BinaryExits
             \/ KernelSwitches
             \/ ShellHalted

\* The kernel and the shell's own code keep executing.  A binary reaches the
\* end of its main however often it yields before: strong fairness, because
\* its exit is not enabled while another process has the CPU.  Nobody has to
\* type anything.
ShellFairness == /\ WF_shellVars(KernelSwitches)
                 /\ WF_shellVars(ScriptLine)
                 /\ WF_shellVars(WaitForCommand)
                 /\ WF_shellVars(ChildExecs)
                 /\ WF_shellVars(NullRead)
                 /\ SF_shellVars(BinaryExits)

ShellSpec == ShellInit /\ [][ShellNext]_shellVars /\ ShellFairness

-----------------------------------------------------------------------------

\* cat or echo alone on a line.
Bare(l) == /\ Len(SplitString(l)) = 1
           /\ SplitString(l)[1][1] \in {"cat", "echo"}

\* The lines that stop the machine: blanks only, cat or echo alone, and a
\* path where there are scripts with cat or echo alone on a line.
Fatal(l) == \/ l # <<>> /\ Range(l) = {" "}
            \/ Bare(l)
            \/ /\ l # <<>> /\ IsPath(l)
               /\ \E p \in DOMAIN Scripts : \E n \in DOMAIN Scripts[p] :
                      Scripts[p][n] # <<>> /\ Bare(Front(Scripts[p][n]))

\* No other line stops the machine, however many were typed before it: fork,
\* exec and the two ways of dying, one command after the other, never find
\* the process table full, a report without its child, an empty run queue or
\* a zeroed kernel stack.
SessionNeverStops == cpu \in Stopped => Fatal(line)

\* Between commands, also those of a script, the shell is the only process:
\* both slots of a command, the child's and its binary's, are free again,
\* and nothing is queued.
CommandsReclaimed ==
    Ready => /\ {s \in Slots : proc_descriptor[s] = 1} = {0}
             /\ Occupied = {}

\* Every line ends with the shell back at its prompt: the exit of a binary
\* reaches its child, the death of the child reaches the shell, and a script
\* goes on to its end.
PromptReturns == ~AtPrompt ~> AtPrompt \/ cpu \in Stopped

\* bin/sbush/Assignment_One.c:20, "Check for invalid string", and
\* sbush_test.c:25, which prompts again when there is no input: after a line
\* of blanks the shell is at its prompt again.
InvalidLineReprompts == (line # <<>> /\ ~ValidString(line)) => AtPrompt
=============================================================================
