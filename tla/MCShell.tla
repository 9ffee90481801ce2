------------------------------ MODULE MCShell ------------------------------
(***************************************************************************)
(* The shell for TLC, with the script of the repository's root file        *)
(* system, rootfs/Tryme/testscript.                                        *)
(***************************************************************************)
EXTENDS Shell

TestScripts ==
    [p \in {"./testscript"} |->
        << <<"#", "cr">>, <<"cat", " ", "Jedi.txt", "cr">>, <<"ls", "cr">>,
           <<"ps", "cr">>, <<"ls", "cr">>, <<"echo", " ", "Script", "cr">>,
           <<"cr">> >>]

\* For each line, how many commands it runs.  Among the lines are commands
\* with blanks around them, with arguments and without, glued to other
\* characters, and paths of a script, of another file and of nothing.
Expected ==
    [l \in { <<" ", "ls">>, <<"ls", "x">>, <<"cat", " ", " ", "x">>,
             <<"echo", " ", "x", " ", "ls">>, <<"ps", " ", "x">> } |-> 1]
    @@ [l \in { <<>>, <<"x">>, <<"x", "ls">>, <<"cd", " ", "ls">>,
                <<" ", "./testscript">>, <<"./testscript", "x">>,
                <<"./Jedi.txt", " ", "ls">> } |-> 0]
    @@ [l \in { <<"./testscript">>, <<"./testscript", " ", "x">> } |-> 5]

\* Lines that stop the machine.
FatalLines == { <<"cat", " ">>, <<"echo">>, <<" ", " ">> }

SessionLines == FatalLines \union DOMAIN Expected

BlankLines == { <<>>, <<"x">>, <<" ">> }

\* A line runs the commands it stands for, each once: word splitting, the
\* comparison by prefix, and the script lines that wait in the shell while
\* their predecessors run in other processes lose none and repeat none.
LineRunsItsCommands == AtPrompt => global_pid = started + 2 * Expected[line]
=============================================================================
