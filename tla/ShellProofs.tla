---------------------------- MODULE ShellProofs ----------------------------
(***************************************************************************)
(* Sessions of the shell, proved for every process table with at least     *)
(* three slots, every set of lines and every set of scripts: only a fatal  *)
(* line stops the machine, every command gives back its two slots, and the *)
(* shell never waits for a child that cannot report.                       *)
(*                                                                         *)
(* The invariant says where a session is in its protocol.  What the kernel *)
(* does at each place follows from the invariant of the run queue.         *)
(***************************************************************************)
EXTENDS Shell, SchedulerProofs, SequenceTheorems

-----------------------------------------------------------------------------
(* The protocol of a command. *)

\* The shell is always a process that can be resumed.  Nobody has a slot but
\* the shell, its child in slot 1 and the binary of that child in slot 2.
ShellAndTwo == /\ Live(0)
               /\ kstack[0] = "intact"
               /\ \A s \in Slots : s \notin {0, 1, 2} => proc_descriptor[s] = 0

\* Between two commands.
Idle == /\ cpu = "user" /\ active = 0
        /\ shell = "ready"
        /\ proc_descriptor[1] = 0
        /\ proc_descriptor[2] = 0

\* The child is in the table, and the shell is about to wait or waits.
HasChild == /\ proc_descriptor[1] = 1
            /\ ppid[1] = pid[0]
            /\ shell = "forked" => waitstate[0] = 0
            /\ shell = "ready" => /\ waitstate[0] = WAITING_TO_LIVE
                                  /\ waitingfor[0] = ANY_CHILD

\* The child runs, and has not called exec.
Forked == /\ HasChild
          /\ cpu = "user" /\ active = 1
          /\ shell = "forked"
          /\ state[1] = RUNNING
          /\ proc_descriptor[2] = 0

\* The child waits to die with its binary.
Execed == /\ HasChild
          /\ state[1] = RUNNING
          /\ waitstate[1] = WAITING_TO_DIE
          /\ proc_descriptor[2] = 1
          /\ ppid[2] = pid[1]

\* The binary can run.
Busy == /\ Execed
        /\ state[2] = RUNNING
        /\ waitstate[2] = 0
        /\ kstack[2] = "intact"

\* The binary has exited, and the child has not been told by the switch loop.
Exited == Execed /\ state[2] = ZOMBIE

\* The child is dead, and the shell has not released it.
ChildDead == /\ HasChild
             /\ state[1] = ZOMBIE
             /\ proc_descriptor[2] = 0

Phase == Idle \/ Forked \/ Busy \/ Exited \/ ChildDead

AllScheduled == \A s \in Slots : Live(s) => Scheduled(s)

ProgNames == {"none", "sbush", "child", "null", "nullchild", "binary"}

LineIsFatal == Fatal(line)

\* Who reads at NULL does so because of the line that was typed.
Programs ==
    /\ prog \in [Slots -> ProgNames]
    /\ prog[0] = "sbush"
    /\ proc_descriptor[1] = 1 => prog[1] \in {"child", "null", "nullchild"}
    /\ proc_descriptor[2] = 1 => prog[2] \in {"binary", "null"}
    /\ \A s \in {1, 2} : proc_descriptor[s] = 1 /\ prog[s] \in {"null", "nullchild"}
                             => LineIsFatal

\* What is left of a script comes from the scripts, and was started by a path.
ScriptLines == UNION {Range(Scripts[p]) : p \in DOMAIN Scripts}

Started == /\ script \in Seq(ScriptLines)
           /\ script # <<>> => line # <<>> /\ IsPath(line)

Going == /\ shell \in {"ready", "forked"}
         /\ ShellAndTwo /\ Phase /\ AllScheduled /\ Programs /\ Started

PInv == QInv /\ (cpu \notin Stopped => Going) /\ SessionNeverStops

-----------------------------------------------------------------------------
(* Facts about slots and the kernel. *)

\* The three slots of a session.
LEMMA ThreeSlots == 0 \in Slots /\ 1 \in Slots /\ 2 \in Slots
BY ProcSizeAssumption, TableAssumption DEF Slots

\* Halting changes nothing that the invariant of the run queue is about.
LEMMA StopKeepsQueue ==
    ASSUME QInv, NEW how \in Stopped, Stop(how)
    PROVE  QInv'
<1>1. UNCHANGED <<queueVars, active, state, tableVars, waitVars>> /\ cpu' = how
  BY DEF Stop
<1>2. QueuedOnce' /\ Queued' = Queued
  BY <1>1, QueueUnchanged DEF QInv, RunQueueSound
<1>3. /\ SlotsSound'
      /\ ReportsAreReapable'
      /\ \A s \in Slots : Live(s)' <=> Live(s)
  BY <1>1, TableUnchanged DEF waitVars
<1>4. TInv'
  BY <1>1 DEF QInv, TInv, TypeOK, CpuOwner, Stopped, queueVars, tableVars, waitVars
<1>5. PidsUnique'
  BY <1>1, PidsUnchanged DEF QInv, tableVars
<1> QED
  BY <1>1, <1>2, <1>3, <1>4, <1>5
     DEF QInv, RunQueueSound, QueueSound, ActiveSound, InUser, Stopped

\* A step of the session is one of the kernel, or the machine stops.
LEMMA KernelSteps ==
    ASSUME ShellNext
    PROVE  NoKillNext \/ UNCHANGED vars \/ Stop("hung")
<1>1. \A words : ExecuteBuiltIn(words) => Fork \/ ForkHangs \/ CreateOverflows \/ UNCHANGED vars
  BY DEF ExecuteBuiltIn, Command
<1>2. \A l, rest : Execute(l, rest) => Fork \/ ForkHangs \/ CreateOverflows \/ UNCHANGED vars
  BY <1>1 DEF Execute
<1>3. CASE \E l \in Lines : TypeLine(l)
  BY <1>2, <1>3 DEF TypeLine, NoKillNext, CoreNext, UserStep
<1>4. CASE ScriptLine
  BY <1>2, <1>4 DEF ScriptLine, NoKillNext, CoreNext, UserStep
<1>5. CASE BinaryExits
  BY <1>5, TableAssumption DEF BinaryExits, NoKillNext, CoreNext, UserStep
<1>6. CASE WaitForCommand \/ ChildExecs \/ BinaryYields
  BY <1>6 DEF WaitForCommand, ChildExecs, BinaryYields, NoKillNext, CoreNext, UserStep
<1>7. CASE NullRead \/ KernelSwitches \/ ShellHalted
  BY <1>7 DEF NullRead, KernelSwitches, ShellHalted, NoKillNext, CoreNext, Halted
<1> QED
  BY <1>3, <1>4, <1>5, <1>6, <1>7 DEF ShellNext

\* The invariant of the run queue holds in every session.
LEMMA QueueInSession == QInv /\ [ShellNext]_shellVars => QInv'
<1> SUFFICES ASSUME QInv, [ShellNext]_shellVars
             PROVE  QInv'
  OBVIOUS
<1>1. [NoKillNext]_vars \/ Stop("hung")
  BY KernelSteps DEF shellVars
<1> QED
  BY <1>1, QStep, StopKeepsQueue DEF Stopped

\* A step of the kernel that makes nobody runnable but who gets the CPU.
LEMMA StaysScheduled ==
    ASSUME QInv, AllScheduled, NoKillNext,
           \A s \in Slots : Live(s)' => Live(s) \/ s = active'
    PROVE  AllScheduled'
<1> SUFFICES ASSUME NEW s \in Slots, Live(s)'
             PROVE  Scheduled(s)'
  BY DEF AllScheduled
<1>1. CASE s = active'
  BY <1>1 DEF Scheduled
<1>2. CASE s # active'
  BY <1>2, Keeps DEF AllScheduled, Scheduled
<1> QED
  BY <1>1, <1>2

\* Whose turn it is, by the program that runs.
LEMMA WhoRuns ==
    ASSUME QInv, Going, InUser
    PROVE  /\ Runs("sbush") => /\ active = 0
                               /\ shell = "ready" => Idle
                               /\ shell = "forked" => Busy \/ Exited \/ ChildDead
           /\ Runs("child") \/ Runs("nullchild") => Forked
           /\ Runs("binary") => Busy /\ active = 2
           /\ Runs("null") => LineIsFatal
<1>1. active \in Slots /\ Live(active) /\ waitstate[active] = 0
  BY DEF QInv, RunQueueSound, ActiveSound
<1>2. active \in {0, 1, 2}
  BY <1>1 DEF Going, ShellAndTwo, Live
<1>3. CASE active = 0
  BY <1>1, <1>3 DEF Going, Programs, Phase, Runs, Idle, Forked, Busy, Exited, Execed,
     ChildDead, HasChild, WAITING_TO_LIVE
<1>4. CASE active = 1
  BY <1>1, <1>4 DEF Going, Programs, Phase, Runs, Idle, Forked, Busy, Exited, Execed,
     ChildDead, Live, RUNNING, ZOMBIE, WAITING_TO_DIE
<1>5. CASE active = 2
  BY <1>1, <1>5 DEF Going, Programs, Phase, Runs, Idle, Forked, Busy, Exited, Execed,
     ChildDead, Live, RUNNING, ZOMBIE
<1> QED
  BY <1>2, <1>3, <1>4, <1>5

-----------------------------------------------------------------------------
(* Lines and words. *)

\* A line has a natural number of words, an empty one none.
LEMMA WordsCounted ==
    ASSUME NEW l \in Seq(STRING)
    PROVE  /\ Len(SplitString(l)) \in Nat
           /\ SplitString(l) # <<>> => Len(SplitString(l)) > 0
           /\ l = <<>> => SplitString(l) = <<>>
<1> DEFINE first == {i \in DOMAIN l : l[i] # " " /\ (i = 1 \/ l[i - 1] = " ")}
           start(n) == CHOOSE i \in first : Cardinality({j \in first : j <= i}) = n
           end(i) == CHOOSE j \in i..Len(l) :
                        /\ \A k \in i..j : l[k] # " "
                        /\ j = Len(l) \/ l[j + 1] = " "
           word(n) == SubSeq(l, start(n), end(start(n)))
<1>1. SplitString(l) = [n \in 1..Cardinality(first) |-> word(n)]
  BY DEF SplitString
<1>2. first \subseteq 1..Len(l) /\ Len(l) \in Nat
  <2>1. DOMAIN l = 1..Len(l) /\ Len(l) \in Nat
    BY LenProperties
  <2> QED
    BY <2>1
<1> HIDE DEF first
<1>3. Cardinality(first) \in Nat
  <2>1. IsFiniteSet(1..Len(l))
    BY <1>2, FS_Interval
  <2> QED
    BY <1>2, <2>1, FS_Subset, FS_CardinalityType
<1> HIDE DEF word
<1> DEFINE n == Cardinality(first)
<1>4. SplitString(l) = [m \in 1..n |-> word(m)] /\ n \in Nat
  BY <1>1, <1>3
<1> HIDE DEF n
<1>5. Len(SplitString(l)) = n
  BY <1>4
<1>6. n = 0 => SplitString(l) = <<>>
  BY <1>4
<1>7. l = <<>> => n = 0
  <2>1. l = <<>> => first = {}
    BY <1>2
  <2> QED
    BY <2>1, FS_EmptySet DEF n
<1> QED
  BY <1>4, <1>5, <1>6, <1>7

\* A line that is not valid has nothing but blanks.
LEMMA InvalidIsBlank ==
    ASSUME NEW l \in Seq(STRING), ~ValidString(l)
    PROVE  Fatal(l)
<1> DEFINE blanks == {i \in DOMAIN l : l[i] = " "}
<1>0. DOMAIN l = 1..Len(l) /\ Len(l) \in Nat
  BY LenProperties
<1>1. l # <<>> /\ ~(Cardinality(blanks) <= Len(l) - 1)
  BY DEF ValidString
<1>2. blanks \subseteq 1..Len(l)
  BY <1>0
<1>3. IsFiniteSet(1..Len(l)) /\ Cardinality(1..Len(l)) = Len(l)
  BY <1>0, FS_Interval
<1> HIDE DEF blanks
<1>4. /\ IsFiniteSet(blanks)
      /\ Cardinality(blanks) <= Len(l)
      /\ Cardinality(blanks) = Len(l) => blanks = 1..Len(l)
  BY <1>2, <1>3, FS_Subset
<1>5. Cardinality(blanks) \in Nat
  BY <1>4, FS_CardinalityType
<1>6. blanks = 1..Len(l)
  BY <1>0, <1>1, <1>4, <1>5
<1>7. \A i \in DOMAIN l : l[i] = " "
  BY <1>0, <1>6 DEF blanks
<1>8. 1 \in DOMAIN l
  BY <1>0, <1>1, EmptySeq
<1>9. Range(l) = {" "}
  BY <1>7, <1>8 DEF Range
<1> QED
  BY <1>1, <1>9 DEF Fatal

\* The child of a command that reads at NULL was forked for cat or echo
\* alone on a line.
LEMMA NullIsBare ==
    ASSUME NEW l \in Seq(STRING), SplitString(l) # <<>>,
           SplitString(l)[1][1] \in {"ls", "cat", "echo", "ps"}
    PROVE  /\ Child(SplitString(l)[1][1], SplitString(l)) \in {"child", "null", "nullchild"}
           /\ Child(SplitString(l)[1][1], SplitString(l)) # "child" => Bare(l)
<1> DEFINE n == Len(SplitString(l))
           cmd == SplitString(l)[1][1]
<1>1. n \in Nat /\ n > 0
  BY WordsCounted
<1>2. Child(cmd, SplitString(l)) = IF n > 1 \/ cmd \in {"ls", "ps"} THEN "child"
                                   ELSE IF cmd = "cat" THEN "null" ELSE "nullchild"
  BY DEF Child
<1>3. Bare(l) <=> n = 1 /\ cmd \in {"cat", "echo"}
  BY DEF Bare
<1> HIDE DEF n, cmd
<1>4. ~(n > 1) => n = 1
  BY <1>1
<1> QED
  BY <1>2, <1>3, <1>4 DEF cmd

\* The lines of scripts are lines.
LEMMA ScriptLineTypes ==
    /\ ScriptLines \subseteq Seq(STRING)
    /\ \A p \in DOMAIN Scripts : Scripts[p] \in Seq(ScriptLines)
<1>1. ASSUME NEW p \in DOMAIN Scripts
      PROVE  /\ Scripts[p] \in Seq(Seq(STRING))
             /\ \A n \in 1..Len(Scripts[p]) : Scripts[p][n] \in ScriptLines
             /\ \A n \in DOMAIN Scripts[p] : Scripts[p][n] \in Seq(STRING)
  BY LinesAssumption DEF ScriptLines, Range
<1>2. ScriptLines \subseteq Seq(STRING)
  BY <1>1 DEF ScriptLines, Range
<1>3. ASSUME NEW p \in DOMAIN Scripts
      PROVE  Scripts[p] \in Seq(ScriptLines)
  BY <1>1, <1>3
<1> QED
  BY <1>2, <1>3

\* What is to run after a line: the rest, or the lines of a script before it.
LEMMA LoadedTypes ==
    ASSUME NEW words, NEW rest \in Seq(ScriptLines)
    PROVE  Loaded(words, rest) \in Seq(ScriptLines)
<1>1. CASE \E p \in DOMAIN Scripts : words[1] = <<p>>
  <2>1. words[1][1] \in DOMAIN Scripts
    BY <1>1
  <2>2. Scripts[words[1][1]] \in Seq(ScriptLines)
    BY <2>1, ScriptLineTypes
  <2>3. Scripts[words[1][1]] \o rest \in Seq(ScriptLines)
    BY <2>2
  <2> QED
    BY <1>1, <2>3 DEF Loaded
<1>2. CASE ~\E p \in DOMAIN Scripts : words[1] = <<p>>
  BY <1>2 DEF Loaded
<1> QED
  BY <1>1, <1>2

-----------------------------------------------------------------------------
(* The steps of the shell, its child and the binary. *)

\* Execute, by what it does to the processes and to the script.
LEMMA ExecuteCases ==
    ASSUME QInv, Going, InUser, Idle, NEW l \in Seq(STRING), NEW rest \in Seq(ScriptLines),
           Execute(l, rest)
    PROVE  /\ script' \in Seq(ScriptLines)
           /\ script' # rest => l # <<>> /\ IsPath(l)
           /\ \/ UNCHANGED <<vars, shell, prog>>
              \/ \E c \in {"child", "null", "nullchild"} :
                    /\ Fork
                    /\ shell' = "forked"
                    /\ prog' = [prog EXCEPT ![active'] = c]
                    /\ c # "child" => Bare(l)
<1> DEFINE words == SplitString(l)
<1>1. words # <<>> => l # <<>>
  BY WordsCounted
<1>2. ~ForkHangs /\ ~CreateOverflows
  <2>1. ~RingFull
    BY RoomForActive DEF QInv, TInv, RunQueueSound, ActiveSound
  <2>2. ~TableFull
    BY ThreeSlots DEF TableFull, Idle
  <2> QED
    BY <2>1, <2>2 DEF ForkHangs, CreateOverflows
<1>3. Loaded(words, rest) \in Seq(ScriptLines)
  BY LoadedTypes
<1>4. CASE words = <<>> /\ script' = rest /\ UNCHANGED <<vars, shell, prog>>
  BY <1>4
<1>5. CASE /\ words # <<>> /\ IsPath(l)
           /\ script' = Loaded(words, rest)
           /\ UNCHANGED <<vars, shell, prog>>
  BY <1>1, <1>3, <1>5
<1>6. CASE /\ words # <<>> /\ ~IsPath(l)
           /\ script' = rest
           /\ ExecuteBuiltIn(words)
  <2>1. CASE words[1][1] \notin {"ls", "cat", "echo", "ps"}
    BY <1>6, <2>1 DEF ExecuteBuiltIn
  <2>2. CASE words[1][1] \in {"ls", "cat", "echo", "ps"}
    <3>1. /\ Fork
          /\ shell' = "forked"
          /\ prog' = [prog EXCEPT ![active'] = Child(words[1][1], words)]
      BY <1>2, <1>6, <2>2 DEF ExecuteBuiltIn, Command
    <3>2. /\ Child(words[1][1], words) \in {"child", "null", "nullchild"}
          /\ Child(words[1][1], words) # "child" => Bare(l)
      BY <1>6, <2>2, NullIsBare
    <3> HIDE DEF words
    <3> QED
      BY <1>6, <3>1, <3>2
  <2> QED
    BY <2>1, <2>2
<1> QED
  BY <1>4, <1>5, <1>6 DEF Execute

\* The shell forks: the child in slot 1 gets the CPU.
LEMMA ForkStarts ==
    ASSUME QInv, Going, Idle, Fork, NEW c \in {"child", "null", "nullchild"},
           shell' = "forked", prog' = [prog EXCEPT ![active'] = c],
           c # "child" => LineIsFatal', Started'
    PROVE  Going' /\ cpu' \notin Stopped
<1> USE ThreeSlots
<1>t. TypeOK /\ ShellAndTwo /\ Programs /\ active = 0 /\ waitstate[0] = 0
  BY DEF QInv, TInv, RunQueueSound, ActiveSound, Idle, InUser, Going
<1>1. PICK i \in Slots :
         /\ FirstFree(i)
         /\ NewProcess(i)
         /\ waitstate' = [waitstate EXCEPT ![i] = 0]
         /\ active' = i
  BY DEF Fork
<1>2. i = 1
  <2>1. i \in Int /\ i >= 0 /\ i # 0
    BY <1>1, <1>t, SlotFacts, ProcSizeAssumption DEF FirstFree, ShellAndTwo, Live, Slots
  <2>2. ~(1 < i)
    BY <1>1 DEF FirstFree, Idle
  <2> QED
    BY <2>1, <2>2
<1>3. /\ proc_descriptor' = [proc_descriptor EXCEPT ![1] = 1]
      /\ pid' = [pid EXCEPT ![1] = global_pid]
      /\ ppid' = [ppid EXCEPT ![1] = pid[0]]
      /\ kstack' = create_kstack(1)
      /\ state' = [state EXCEPT ![1] = RUNNING]
      /\ cpu' = "user" /\ active' = 1 /\ waitstate'[0] = 0
  BY <1>1, <1>2, <1>t DEF NewProcess, Fork, TypeOK, Idle
<1>4. \A s \in Slots : Live(s)' => Live(s) \/ s = active'
  BY <1>3, <1>t DEF Live, TypeOK
<1>5. AllScheduled'
  BY <1>4, StaysScheduled DEF Going, NoKillNext, CoreNext, UserStep
<1>6. ShellAndTwo'
  BY <1>3, <1>t DEF ShellAndTwo, Live, TypeOK, create_kstack
<1>7. Forked'
  BY <1>3, <1>t DEF Forked, HasChild, TypeOK, Idle
<1>8. Programs'
  <2>1. prog' = [prog EXCEPT ![1] = c] /\ prog \in [Slots -> ProgNames] /\ prog[0] = "sbush"
    BY <1>3, <1>t DEF Programs
  <2>2. prog' \in [Slots -> ProgNames] /\ prog'[0] = "sbush" /\ prog'[1] = c
    <3>1. c \in ProgNames
      BY DEF ProgNames
    <3> QED
      BY ONLY <2>1, <3>1, ThreeSlots
  <2>3. proc_descriptor'[2] = 0
    BY <1>3, <1>t DEF TypeOK, Idle
  <2> QED
    BY <2>2, <2>3 DEF Programs
<1> QED
  BY <1>3, <1>5, <1>6, <1>7, <1>8 DEF Going, Phase, Stopped

\* A step of a program that leaves the programs and the script alone.
LEMMA SameInputs ==
    ASSUME Going, UNCHANGED <<inputVars, script, prog>>,
           proc_descriptor'[1] = 1 => proc_descriptor[1] = 1,
           proc_descriptor'[2] = 1 => proc_descriptor[2] = 1
    PROVE  Programs' /\ Started'
<1>1. line' = line /\ script' = script /\ prog' = prog
  BY DEF inputVars
<1>2. LineIsFatal' <=> LineIsFatal
  BY <1>1 DEF LineIsFatal
<1>3. Programs'
  BY <1>1, <1>2 DEF Programs, Going
<1>4. Started'
  BY <1>1 DEF Going, Started
<1> QED
  BY <1>3, <1>4

\* The shell waits.
LEMMA WaitStep ==
    ASSUME QInv, Going, WaitForCommand
    PROVE  Going' /\ cpu' \notin Stopped
<1> USE ThreeSlots
<1>1. active = 0 /\ InUser /\ (Busy \/ Exited \/ ChildDead)
  BY WhoRuns DEF WaitForCommand, Runs, InUser
<1>t. TypeOK /\ ShellAndTwo
  BY DEF QInv, TInv, Going
<1>2. /\ waitstate' = [waitstate EXCEPT ![0] = WAITING_TO_LIVE]
      /\ waitingfor' = [waitingfor EXCEPT ![0] = ANY_CHILD]
      /\ state' = [state EXCEPT ![0] = RUNNING]
      /\ cpu' = "switch" /\ shell' = "ready"
      /\ UNCHANGED <<pid, ppid, proc_descriptor, kstack>>
  BY <1>1 DEF WaitForCommand, Wait, tableVars
<1>3. state' = state
  BY <1>2, <1>t DEF TypeOK, ShellAndTwo, Live
<1>4. AllScheduled'
  <2>1. \A s \in Slots : Live(s)' => Live(s) \/ s = active'
    BY <1>2, <1>3 DEF Live
  <2> QED
    BY <2>1, StaysScheduled DEF Going, NoKillNext, CoreNext, UserStep, WaitForCommand
<1>5. ShellAndTwo'
  BY <1>2, <1>3, <1>t DEF ShellAndTwo, Live
<1>6. HasChild'
  <2>1. HasChild
    BY <1>1 DEF Busy, Exited, Execed, ChildDead
  <2> QED
    BY <1>2, <1>t, <2>1 DEF HasChild, TypeOK
<1>7. waitstate'[1] = waitstate[1] /\ waitstate'[2] = waitstate[2]
  BY <1>2, <1>t DEF TypeOK
<1>8. Phase'
  BY <1>1, <1>2, <1>3, <1>6, <1>7 DEF Phase, Busy, Exited, Execed, ChildDead
<1>9. Programs' /\ Started'
  BY <1>2, SameInputs DEF WaitForCommand
<1> QED
  BY <1>2, <1>4, <1>5, <1>8, <1>9 DEF Going, Stopped

\* The child execs: its binary in slot 2 gets the CPU.
LEMMA ExecStep ==
    ASSUME QInv, Going, ChildExecs
    PROVE  Going' /\ cpu' \notin Stopped
<1> USE ThreeSlots
<1>1. Forked /\ InUser
  BY WhoRuns DEF ChildExecs, Runs, InUser
<1>t. TypeOK /\ ShellAndTwo /\ Programs /\ active = 1 /\ waitstate[0] = 0
  BY <1>1 DEF QInv, TInv, Going, Forked, HasChild
<1>2. ~CreateOverflows /\ ~CreateOverruns
  <2>1. ~TableFull
    BY <1>1 DEF TableFull, Forked
  <2>2. ~FirstFree(active - 1)
    BY <1>t DEF FirstFree, ShellAndTwo, Live
  <2> QED
    BY <2>1, <2>2 DEF CreateOverflows, CreateOverruns
<1>3. /\ Exec
      /\ prog' = [prog EXCEPT ![active'] = IF Runs("child") THEN "binary" ELSE "null"]
      /\ UNCHANGED <<shell, inputVars, script>>
  BY <1>2 DEF ChildExecs
<1>4. PICK i \in Slots :
         /\ FirstFree(i)
         /\ NewProcess(i)
         /\ waitstate' = [waitstate EXCEPT ![i] = 0, ![active] = WAITING_TO_DIE]
         /\ active' = i
  BY <1>3 DEF Exec
<1>5. i = 2
  <2>1. i \in Int /\ i >= 0 /\ i # 0 /\ i # 1
    BY <1>1, <1>4, <1>t, SlotFacts, ProcSizeAssumption
       DEF FirstFree, ShellAndTwo, Live, Slots, Forked, HasChild
  <2>2. ~(2 < i)
    BY <1>1, <1>4 DEF FirstFree, Forked
  <2> QED
    BY <2>1, <2>2
<1>6. /\ proc_descriptor' = [proc_descriptor EXCEPT ![2] = 1]
      /\ pid' = [pid EXCEPT ![2] = global_pid]
      /\ ppid' = [ppid EXCEPT ![2] = pid[1]]
      /\ kstack' = create_kstack(2)
      /\ state' = [state EXCEPT ![2] = RUNNING]
      /\ waitstate' = [waitstate EXCEPT ![2] = 0, ![1] = WAITING_TO_DIE]
      /\ cpu' = "user" /\ active' = 2
  BY <1>1, <1>3, <1>4, <1>5, <1>t DEF NewProcess, Exec, Forked
<1>7. AllScheduled'
  <2>1. \A s \in Slots : Live(s)' => Live(s) \/ s = active'
    BY <1>6, <1>t DEF Live, TypeOK
  <2> QED
    BY <1>3, <2>1, StaysScheduled DEF Going, NoKillNext, CoreNext, UserStep
<1>8. ShellAndTwo'
  BY <1>6, <1>t DEF ShellAndTwo, Live, TypeOK, create_kstack
<1>9. Busy'
  BY <1>1, <1>3, <1>6, <1>t DEF Forked, Busy, Execed, HasChild, TypeOK, create_kstack
<1>10. LineIsFatal' <=> LineIsFatal
  BY <1>3 DEF LineIsFatal, inputVars
<1>11. Programs'
  <2>1. prog' = [prog EXCEPT ![2] = IF Runs("child") THEN "binary" ELSE "null"]
    BY <1>3, <1>6
  <2>2. prog \in [Slots -> ProgNames] /\ prog[0] = "sbush" /\ proc_descriptor[1] = 1
        /\ prog[1] \in {"child", "null", "nullchild"}
        /\ (prog[1] # "child" => LineIsFatal)
    BY <1>1, <1>t DEF Programs, Forked, HasChild
  <2>3. Runs("child") <=> prog[1] = "child"
    BY <1>1, <1>t DEF Runs, InUser
  <2>4. /\ prog' \in [Slots -> ProgNames] /\ prog'[0] = "sbush" /\ prog'[1] = prog[1]
        /\ prog'[2] = IF prog[1] = "child" THEN "binary" ELSE "null"
    BY <2>1, <2>2, <2>3 DEF ProgNames
  <2> QED
    BY <1>10, <2>2, <2>4 DEF Programs
<1>12. Started'
  BY <1>3 DEF Going, Started, inputVars
<1> QED
  BY <1>3, <1>6, <1>7, <1>8, <1>9, <1>11, <1>12 DEF Going, Phase, Stopped

\* The binary gives up the CPU.
LEMMA YieldStep ==
    ASSUME QInv, Going, BinaryYields
    PROVE  Going' /\ cpu' \notin Stopped
<1> USE ThreeSlots
<1>1. active = 2 /\ Busy
  BY WhoRuns DEF BinaryYields, Runs, InUser
<1>t. TypeOK /\ ShellAndTwo
  BY DEF QInv, TInv, Going
<1>2. /\ state' = [state EXCEPT ![2] = RUNNING]
      /\ cpu' = "switch" /\ shell' = shell
      /\ UNCHANGED <<pid, ppid, proc_descriptor, kstack, waitstate, waitingfor>>
      /\ UNCHANGED <<inputVars, script, prog>>
  BY <1>1 DEF BinaryYields, Yield, tableVars, waitVars, userVars
<1>3. state' = state
  BY <1>1, <1>2, <1>t DEF TypeOK, Busy
<1>4. AllScheduled'
  <2>1. \A s \in Slots : Live(s)' => Live(s) \/ s = active'
    BY <1>2, <1>3 DEF Live
  <2> QED
    BY <2>1, StaysScheduled DEF Going, NoKillNext, CoreNext, UserStep, BinaryYields
<1>5. ShellAndTwo' /\ Busy'
  BY <1>1, <1>2, <1>3, <1>t DEF ShellAndTwo, Live, Busy, Execed, HasChild
<1>6. Programs' /\ Started'
  BY <1>2, SameInputs
<1> QED
  BY <1>2, <1>4, <1>5, <1>6 DEF Going, Phase, Stopped

\* The binary exits: it stays in the table as a zombie.
LEMMA ExitStep ==
    ASSUME QInv, Going, BinaryExits
    PROVE  Going' /\ cpu' \notin Stopped
<1> USE ThreeSlots
<1>1. active = 2 /\ Busy
  BY WhoRuns DEF BinaryExits, Runs, InUser
<1>t. TypeOK /\ ShellAndTwo
  BY DEF QInv, TInv, Going
<1>2. /\ state' = [state EXCEPT ![2] = ZOMBIE]
      /\ cpu' = "switch" /\ shell' = shell
      /\ UNCHANGED <<pid, ppid, proc_descriptor, kstack, waitstate, waitingfor>>
      /\ UNCHANGED <<inputVars, script, prog>>
  BY <1>1 DEF BinaryExits, Exit, tableVars, userVars
<1>3. state'[0] = state[0] /\ state'[1] = state[1] /\ state'[2] = ZOMBIE
  BY <1>2, <1>t DEF TypeOK
<1>4. AllScheduled'
  <2>1. \A s \in Slots : Live(s)' => Live(s) \/ s = active'
    BY <1>2, <1>t DEF Live, TypeOK, RUNNING, ZOMBIE
  <2> QED
    BY <2>1, StaysScheduled, TableAssumption
       DEF Going, NoKillNext, CoreNext, UserStep, BinaryExits
<1>5. ShellAndTwo' /\ Exited'
  BY <1>1, <1>2, <1>3, <1>t DEF ShellAndTwo, Live, Busy, Exited, Execed, HasChild
<1>6. Programs' /\ Started'
  BY <1>2, SameInputs
<1> QED
  BY <1>2, <1>4, <1>5, <1>6 DEF Going, Phase, Stopped

-----------------------------------------------------------------------------
(* The switch loop. *)

\* The queue holds all processes that can run, and the one at its head can.
LEMMA SwitchSees ==
    ASSUME QInv, Going, InSwitch
    PROVE  /\ proc_start # proc_end
           /\ head \in Slots
           /\ \A s \in Slots : Next_proc(s) => Live(s) /\ Accepts(s) /\ s \in {0, 1, 2}
           /\ Busy \/ Exited \/ ChildDead
<1> USE ThreeSlots
<1>1. active = NULL /\ TypeOK /\ QueueSound
  BY DEF QInv, TInv, CpuOwner, InSwitch, RunQueueSound
<1>2. 0 \in Queued
  <2>1. Scheduled(0)
    BY DEF Going, AllScheduled, ShellAndTwo
  <2> QED
    BY <1>1, <2>1, SlotFacts DEF Scheduled
<1>3. proc_start # proc_end
  BY <1>1, <1>2, ProcSizeAssumption DEF Queued, Occupied, Between, Ring, TypeOK
<1>4. head \in Queued
  <2>1. proc_start \in Occupied
    BY <1>1, <1>3, RingShrinks DEF TypeOK, Occupied
  <2> QED
    BY <2>1 DEF head, Queued
<1>5. ASSUME NEW s \in Slots, Next_proc(s)
      PROVE  Live(s) /\ Accepts(s) /\ s \in {0, 1, 2}
  <2>1. Live(s)
    BY <1>5, HeadIsLive
  <2>2. Accepts(s)
    BY <2>1 DEF Accepts, Live, QInv, SlotsSound
  <2>3. s \in {0, 1, 2}
    BY <2>1 DEF Live, Going, ShellAndTwo
  <2> QED
    BY <2>1, <2>2, <2>3
<1>6. Busy \/ Exited \/ ChildDead
  BY DEF Going, Phase, Idle, Forked, InSwitch
<1> QED
  BY <1>1, <1>3, <1>4, <1>5, <1>6 DEF QueueSound

\* The switch loop never stops the machine during a session.
LEMMA SwitchGoesOn ==
    ASSUME QInv, Going, InSwitch
    PROVE  /\ ~SwitchEmpty /\ ~SwitchGarbage /\ ~SwitchCrash /\ ~SwitchOverflow
           /\ ~SwitchSkip
<1> USE ThreeSlots
<1>1. ~SwitchEmpty /\ ~SwitchGarbage /\ ~SwitchSkip
  BY SwitchSees, SlotFacts DEF SwitchEmpty, SwitchGarbage, SwitchSkip
<1>2. ~SwitchCrash
  <2> SUFFICES ASSUME NEW s \in Slots, Next_proc(s),
                      \/ state[s] = NEW_PROC
                      \/ kstack[s] = "zeroed" /\ waitstate[s] # WAITING_TO_DIE
               PROVE  FALSE
    BY DEF SwitchCrash
  <2>1. Live(s) /\ s \in {0, 1, 2} /\ (Busy \/ Exited \/ ChildDead)
    BY SwitchSees
  <2>2. kstack[s] = "zeroed" /\ waitstate[s] # WAITING_TO_DIE
    BY <2>1 DEF Live, RUNNING, NEW_PROC
  <2>3. s # 0
    BY <2>2 DEF Going, ShellAndTwo
  <2>4. s # 1
    BY <2>1, <2>2 DEF Busy, Exited, Execed, ChildDead, Live, RUNNING, ZOMBIE
  <2>5. s # 2
    BY <2>1, <2>2 DEF Busy, Exited, Execed, ChildDead, Live, RUNNING, ZOMBIE
  <2> QED
    BY <2>1, <2>3, <2>4, <2>5
<1>3. ~SwitchOverflow
  <2> SUFFICES ASSUME NEW s \in Slots, Next_proc(s), sigchild_state[s] = 0,
                      Unheld(signalling_child[s])
               PROVE  FALSE
    BY DEF SwitchOverflow, Resumable, ChildReported, BinaryEnded
  <2>1. Live(s)
    BY SwitchSees
  <2> QED
    BY <2>1 DEF QInv, ReportsAreReapable, Unheld
<1> QED
  BY <1>1, <1>2, <1>3

\* The switch loop resumes the binary or the shell, or puts a waiter back.
LEMMA TurnStep ==
    ASSUME QInv, Going, InSwitch, SwitchRun \/ SwitchWaitAgain \/ SwitchDieAgain,
           UNCHANGED userVars
    PROVE  Going' /\ cpu' \notin Stopped
<1> USE ThreeSlots
<1>1. (Busy \/ Exited \/ ChildDead) /\ ShellAndTwo
  BY SwitchSees DEF Going
<1>2. /\ UNCHANGED <<state, tableVars, waitVars>>
      /\ cpu' \in {"user", "switch"}
  BY DEF SwitchRun, SwitchWaitAgain, SwitchDieAgain, InSwitch
<1>3. /\ UNCHANGED <<state, waitstate, waitingfor, proc_descriptor, pid, ppid, kstack>>
      /\ UNCHANGED <<shell, inputVars, script, prog>>
  BY <1>2 DEF tableVars, waitVars, userVars
<1>4. AllScheduled'
  <2>1. \A s \in Slots : Live(s)' => Live(s) \/ s = active'
    BY <1>3 DEF Live
  <2> QED
    BY <2>1, StaysScheduled DEF Going, NoKillNext, CoreNext, SwitchStep
<1>5. ShellAndTwo'
  BY <1>1, <1>3 DEF ShellAndTwo, Live
<1>6. Phase'
  BY <1>1, <1>3 DEF Phase, Busy, Exited, Execed, ChildDead, HasChild
<1>7. Programs' /\ Started'
  BY <1>3, SameInputs
<1> QED
  BY <1>2, <1>3, <1>4, <1>5, <1>6, <1>7 DEF Going, Stopped

\* The child dies with its binary, whose slot becomes free.
LEMMA DieStep ==
    ASSUME QInv, Going, kill_proc, UNCHANGED userVars
    PROVE  Going' /\ cpu' \notin Stopped
<1> USE ThreeSlots
<1>t. TypeOK /\ ShellAndTwo
  BY DEF QInv, TInv, Going
<1>1. PICK s \in Slots, i \in Slots :
         /\ Next_proc(s)
         /\ waitstate[s] = WAITING_TO_DIE
         /\ sigchild_state[s] = 0
         /\ Holds(i, signalling_child[s])
         /\ state' = [state EXCEPT ![s] = ZOMBIE, ![i] = DEAD]
         /\ proc_descriptor' = [proc_descriptor EXCEPT ![sno[i]] = 0]
         /\ UNCHANGED <<cpu, pid, ppid, kstack, waitstate, waitingfor>>
  BY DEF kill_proc, Resumable, BinaryEnded, FreedSlot
<1>2. InSwitch
  BY <1>1 DEF Next_proc
<1>3. Live(s) /\ s \in {0, 1, 2} /\ (Busy \/ Exited \/ ChildDead)
  BY <1>1, <1>2, SwitchSees
<1>4. /\ proc_descriptor[i] = 1
      /\ sno[i] = i
      /\ state[i] = ZOMBIE
      /\ ppid[i] = pid[s]
  BY <1>1, <1>3, ReportedChild
<1>5. s = 1
  BY <1>1, <1>3 DEF Busy, Exited, Execed, ChildDead, HasChild, Live, RUNNING, ZOMBIE,
     WAITING_TO_LIVE, WAITING_TO_DIE, Going
<1>6. Exited /\ i = 2
  BY <1>3, <1>4, <1>5, <1>t
     DEF Busy, Exited, Execed, ChildDead, ShellAndTwo, Live, RUNNING, ZOMBIE
<1>7. /\ state' = [state EXCEPT ![1] = ZOMBIE, ![2] = DEAD]
      /\ proc_descriptor' = [proc_descriptor EXCEPT ![2] = 0]
  BY <1>1, <1>4, <1>5, <1>6
<1>8. AllScheduled'
  <2>1. \A r \in Slots : Live(r)' => Live(r) \/ r = active'
    BY <1>7, <1>t DEF Live, TypeOK, RUNNING, ZOMBIE, DEAD
  <2> QED
    BY <2>1, StaysScheduled DEF Going, NoKillNext, CoreNext, SwitchStep
<1>9. ShellAndTwo'
  BY <1>1, <1>7, <1>t DEF ShellAndTwo, Live, TypeOK
<1>10. shell' = shell /\ UNCHANGED <<inputVars, script, prog>>
  BY DEF userVars
<1>11. ChildDead'
  BY <1>1, <1>6, <1>7, <1>10, <1>t DEF ChildDead, Exited, Execed, HasChild, TypeOK
<1>12. Programs' /\ Started'
  BY <1>7, <1>10, <1>t, SameInputs DEF TypeOK
<1> QED
  BY <1>1, <1>2, <1>8, <1>9, <1>10, <1>11, <1>12 DEF Going, Phase, Stopped, InSwitch

\* The shell releases its child, and is alone again.
LEMMA ReapStep ==
    ASSUME QInv, Going, SwitchReap, UNCHANGED userVars
    PROVE  Going' /\ cpu' \notin Stopped
<1> USE ThreeSlots
<1>t. TypeOK /\ ShellAndTwo
  BY DEF QInv, TInv, Going
<1>1. PICK s \in Slots, i \in Slots :
         /\ Next_proc(s)
         /\ waitstate[s] = WAITING_TO_LIVE
         /\ sigchild_state[s] = 0
         /\ Holds(i, signalling_child[s])
         /\ active' = s
         /\ cpu' = "user"
         /\ proc_descriptor' = [proc_descriptor EXCEPT ![sno[i]] = 0]
         /\ state' = [state EXCEPT ![i] = NEW_PROC]
         /\ UNCHANGED kstack
  BY DEF SwitchReap, Resumable, ChildReported, FreedSlot
<1>2. InSwitch
  BY <1>1 DEF Next_proc
<1>3. Live(s) /\ s \in {0, 1, 2} /\ (Busy \/ Exited \/ ChildDead)
  BY <1>1, <1>2, SwitchSees
<1>4. /\ proc_descriptor[i] = 1
      /\ sno[i] = i
      /\ state[i] = ZOMBIE
      /\ ppid[i] = pid[s]
  BY <1>1, <1>3, ReportedChild
<1>5. s = 0
  BY <1>1, <1>3 DEF Busy, Exited, Execed, ChildDead, Live, RUNNING, ZOMBIE,
     WAITING_TO_LIVE, WAITING_TO_DIE
<1>6. pid[1] # pid[0]
  BY <1>t, <1>3 DEF QInv, SlotsSound, PidsUnique, ShellAndTwo, Live
<1>7. ChildDead /\ i = 1
  BY <1>3, <1>4, <1>5, <1>6, <1>t
     DEF Busy, Exited, Execed, ChildDead, ShellAndTwo, Live, RUNNING, ZOMBIE
<1>8. /\ state' = [state EXCEPT ![1] = NEW_PROC]
      /\ proc_descriptor' = [proc_descriptor EXCEPT ![1] = 0]
  BY <1>1, <1>4, <1>7
<1>9. shell = "ready"
  BY <1>1, <1>5, <1>7 DEF Going, ChildDead, HasChild, WAITING_TO_LIVE
<1>10. AllScheduled'
  <2>1. \A r \in Slots : Live(r)' => Live(r) \/ r = active'
    BY <1>8, <1>t DEF Live, TypeOK, RUNNING, NEW_PROC
  <2> QED
    BY <2>1, StaysScheduled DEF Going, NoKillNext, CoreNext, SwitchStep
<1>11. ShellAndTwo'
  BY <1>1, <1>8, <1>t DEF ShellAndTwo, Live, TypeOK
<1>12. shell' = shell /\ UNCHANGED <<inputVars, script, prog>>
  BY DEF userVars
<1>13. Idle'
  BY <1>1, <1>5, <1>7, <1>8, <1>9, <1>12, <1>t DEF ChildDead, Idle, TypeOK
<1>14. Programs' /\ Started'
  BY <1>8, <1>12, <1>t, SameInputs DEF TypeOK
<1> QED
  BY <1>1, <1>9, <1>10, <1>11, <1>12, <1>13, <1>14 DEF Going, Phase, Stopped

-----------------------------------------------------------------------------
(* The lines. *)

\* At the prompt and between the lines of a script nothing happens to the
\* processes, or a command starts.
LEMMA LineStep ==
    ASSUME QInv, Going, Idle, Started',
           \/ UNCHANGED <<vars, shell, prog>>
           \/ \E c \in {"child", "null", "nullchild"} :
                 /\ Fork
                 /\ shell' = "forked"
                 /\ prog' = [prog EXCEPT ![active'] = c]
                 /\ c # "child" => LineIsFatal'
    PROVE  Going' /\ cpu' \notin Stopped
<1>1. CASE UNCHANGED <<vars, shell, prog>>
  <2>1. UNCHANGED <<queueVars, active, cpu, state, tableVars, waitVars>>
        /\ shell' = shell /\ prog' = prog
    BY <1>1 DEF vars
  <2>2. UNCHANGED <<proc_descriptor, kstack, proc_Q, proc_start, proc_end>>
    BY <2>1 DEF queueVars, tableVars
  <2>3. ShellAndTwo' /\ Idle'
    BY <2>1, <2>2 DEF Going, ShellAndTwo, Live, Idle
  <2>4. AllScheduled'
    BY <2>1, <2>2 DEF Going, AllScheduled, Scheduled, Live, Queued, Occupied
  <2>5. Programs'
    BY <2>1, <2>2 DEF Going, Programs, Idle
  <2>6. cpu' \notin Stopped
    BY <2>3 DEF Idle, Stopped
  <2> QED
    BY <2>1, <2>3, <2>4, <2>5, <2>6 DEF Going, Phase
<1>2. ASSUME NEW c \in {"child", "null", "nullchild"},
             Fork, shell' = "forked", prog' = [prog EXCEPT ![active'] = c],
             c # "child" => LineIsFatal'
      PROVE  Going' /\ cpu' \notin Stopped
  BY <1>2, ForkStarts
<1> QED
  BY <1>1, <1>2

\* The user types a line: a fatal one may stop the machine.
LEMMA TypeStepLine ==
    ASSUME QInv, Going, NEW l \in Lines, TypeLine(l)
    PROVE  \/ Going' /\ cpu' \notin Stopped
           \/ cpu' \in Stopped /\ LineIsFatal'
<1>1. Idle /\ InUser /\ script = <<>> /\ line' = l
  BY WhoRuns DEF TypeLine, AtPrompt, Ready, Runs, InUser
<1>2. l \in Seq(STRING)
  BY LinesAssumption
<1>3. <<>> \in Seq(ScriptLines)
  BY EmptySeq
<1>4. CASE ~ValidString(l) /\ Stop("hung")
  <2>1. Fatal(l)
    BY <1>2, <1>4, InvalidIsBlank
  <2>2. LineIsFatal'
    BY <1>1, <2>1 DEF LineIsFatal
  <2> QED
    BY <1>4, <2>2 DEF Stop, Stopped
<1>5. CASE l = <<>> /\ UNCHANGED <<vars, shell, script, prog>>
  <2>1. Started'
    BY <1>1, <1>3, <1>5 DEF Started
  <2> QED
    BY <1>1, <1>5, <2>1, LineStep
<1>6. CASE Execute(l, <<>>)
  <2>1. /\ script' \in Seq(ScriptLines)
        /\ script' # <<>> => l # <<>> /\ IsPath(l)
        /\ \/ UNCHANGED <<vars, shell, prog>>
           \/ \E c \in {"child", "null", "nullchild"} :
                 /\ Fork
                 /\ shell' = "forked"
                 /\ prog' = [prog EXCEPT ![active'] = c]
                 /\ c # "child" => Bare(l)
    BY <1>1, <1>2, <1>3, <1>6, ExecuteCases
  <2>2. Started'
    BY <1>1, <2>1 DEF Started, IsPath
  <2>3. Bare(l) => LineIsFatal'
    BY <1>1 DEF LineIsFatal, Fatal
  <2> QED
    BY <1>1, <2>1, <2>2, <2>3, LineStep
<1> QED
  BY <1>4, <1>5, <1>6 DEF TypeLine

\* The shell runs the next line of its script.
LEMMA ScriptStep ==
    ASSUME QInv, Going, ScriptLine
    PROVE  Going' /\ cpu' \notin Stopped
<1> DEFINE l == Head(script)
<1>1. Idle /\ InUser /\ script # <<>> /\ line' = line
  BY WhoRuns DEF ScriptLine, Ready, Runs, InUser, inputVars
<1>2. script \in Seq(ScriptLines) /\ line # <<>> /\ IsPath(line)
  BY <1>1 DEF Going, Started
<1>3. l \in ScriptLines /\ Tail(script) \in Seq(ScriptLines)
  BY <1>1, <1>2, HeadTailProperties
<1>4. l \in Seq(STRING)
  BY <1>3, ScriptLineTypes
<1>5. IsPath(line)' /\ line' # <<>>
  BY <1>1, <1>2 DEF IsPath
<1>6. CASE script' = Tail(script) /\ UNCHANGED <<vars, shell, prog>>
  <2>1. Started'
    BY <1>3, <1>5, <1>6 DEF Started
  <2> QED
    BY <1>1, <1>6, <2>1, LineStep
<1>7. CASE l # <<>> /\ Execute(Front(l), Tail(script))
  <2>1. Front(l) \in Seq(STRING)
    <3>1. Len(l) \in Nat /\ Len(l) # 0
      BY <1>4, <1>7, LenProperties, EmptySeq
    <3>2. 1..(Len(l) - 1) \subseteq 1..Len(l)
      BY <3>1
    <3> QED
      BY <1>4, <3>1, <3>2, SubSeqProperties DEF Front
  <2>2. /\ script' \in Seq(ScriptLines)
        /\ \/ UNCHANGED <<vars, shell, prog>>
           \/ \E c \in {"child", "null", "nullchild"} :
                 /\ Fork
                 /\ shell' = "forked"
                 /\ prog' = [prog EXCEPT ![active'] = c]
                 /\ c # "child" => Bare(Front(l))
    BY <1>1, <1>3, <1>7, <2>1, ExecuteCases
  <2>3. Started'
    BY <1>5, <2>2 DEF Started
  <2>4. Bare(Front(l)) => LineIsFatal'
    <3>1. \E p \in DOMAIN Scripts : \E n \in DOMAIN Scripts[p] : Scripts[p][n] = l
      BY <1>3 DEF ScriptLines, Range
    <3>2. Bare(Front(l)) => Fatal(line)
      BY <1>2, <1>7, <3>1 DEF Fatal
    <3> QED
      BY <1>1, <3>2 DEF LineIsFatal
  <2> HIDE DEF l
  <2> QED
    BY <1>1, <2>2, <2>3, <2>4, LineStep
<1> QED
  BY <1>6, <1>7 DEF ScriptLine

-----------------------------------------------------------------------------
(* The theorems. *)

\* At boot the shell is at its prompt and nobody waits.
LEMMA SessionInit == ShellInit => PInv
<1> SUFFICES ASSUME ShellInit
             PROVE  PInv
  OBVIOUS
<1> USE ThreeSlots
<1>1. QInv
  BY QInit DEF ShellInit
<1>2. cpu = "user" /\ active = 0 /\ shell = "ready" /\ script = <<>>
      /\ proc_descriptor = [s \in Slots |-> IF s = 0 THEN 1 ELSE 0]
      /\ prog = [s \in Slots |-> IF s = 0 THEN "sbush" ELSE "none"]
  BY DEF ShellInit, Init
<1>3. Live(0) /\ kstack[0] = "intact"
  BY DEF ShellInit, Init, Live
<1>4. ShellAndTwo /\ Idle
  BY <1>2, <1>3 DEF ShellAndTwo, Idle
<1>5. AllScheduled
  BY <1>2 DEF AllScheduled, Scheduled, Live
<1>6. Programs
  BY <1>2 DEF Programs, ProgNames
<1>7. Started
  BY <1>2, EmptySeq DEF Started
<1>8. SessionNeverStops
  BY <1>2 DEF SessionNeverStops, Stopped
<1> QED
  BY <1>1, <1>2, <1>4, <1>5, <1>6, <1>7, <1>8 DEF PInv, Going, Phase

\* Every step of a session keeps its place in the protocol, or stops the
\* machine after a fatal line.
LEMMA SessionStep == PInv /\ [ShellNext]_shellVars => PInv'
<1> SUFFICES ASSUME PInv, [ShellNext]_shellVars
             PROVE  PInv'
  OBVIOUS
<1>q. QInv /\ QInv'
  BY QueueInSession DEF PInv
<1> SUFFICES \/ Going' /\ cpu' \notin Stopped
             \/ cpu' \in Stopped /\ LineIsFatal'
  BY <1>q DEF PInv, SessionNeverStops, LineIsFatal
<1>1. ASSUME UNCHANGED shellVars
      PROVE  (Going' /\ cpu' \notin Stopped) \/ (cpu' \in Stopped /\ LineIsFatal')
  <2>1. UNCHANGED <<queueVars, active, cpu, state, tableVars, waitVars>>
        /\ UNCHANGED <<shell, inputVars, script, prog>>
    BY <1>1 DEF shellVars, vars, userVars
  <2>2. UNCHANGED <<proc_descriptor, kstack, pid, ppid, proc_Q, proc_start, proc_end,
                    waitstate, waitingfor, line>>
    BY <2>1 DEF queueVars, tableVars, waitVars, inputVars
  <2>3. CASE cpu \in Stopped
    BY <2>1, <2>2, <2>3 DEF PInv, SessionNeverStops, LineIsFatal
  <2>4. CASE cpu \notin Stopped
    <3>1. Going
      BY <2>4 DEF PInv
    <3>2. ShellAndTwo' /\ Phase'
      BY <2>1, <2>2, <3>1
         DEF Going, ShellAndTwo, Live, Phase, Idle, Forked, HasChild, Execed, Busy, Exited,
             ChildDead
    <3>3. AllScheduled'
      BY <2>1, <2>2, <3>1 DEF Going, AllScheduled, Scheduled, Live, Queued, Occupied
    <3>4. Programs' /\ Started'
      BY <2>1, <2>2, <3>1, SameInputs
    <3> QED
      BY <2>1, <2>4, <3>1, <3>2, <3>3, <3>4 DEF Going
  <2> QED
    BY <2>3, <2>4
<1>2. CASE cpu \in Stopped
  <2>1. ~InUser /\ ~InSwitch
    BY <1>2 DEF Stopped, InUser, InSwitch
  <2>2. \/ UNCHANGED shellVars
        \/ ShellHalted
    BY <2>1
       DEF ShellNext, TypeLine, ScriptLine, AtPrompt, Ready, Runs, InUser, WaitForCommand,
           ChildExecs, NullRead, BinaryYields, BinaryExits, KernelSwitches, SwitchStep,
           SwitchEmpty, SwitchGarbage, SwitchSkip, SwitchCrash, SwitchRun, SwitchWaitAgain,
           SwitchReap, SwitchDieAgain, kill_proc, SwitchOverflow, Next_proc, Resumable
  <2> QED
    BY <1>1, <2>2 DEF ShellHalted, Halted, shellVars
<1>3. CASE cpu \notin Stopped /\ ShellNext
  <2>1. Going
    BY <1>3 DEF PInv
  <2>2. CASE \E l \in Lines : TypeLine(l)
    BY <1>q, <2>1, <2>2, TypeStepLine
  <2>3. CASE ScriptLine
    BY <1>q, <2>1, <2>3, ScriptStep
  <2>4. CASE WaitForCommand
    BY <1>q, <2>1, <2>4, WaitStep
  <2>5. CASE ChildExecs
    BY <1>q, <2>1, <2>5, ExecStep
  <2>6. CASE NullRead
    <3>1. LineIsFatal /\ cpu' = "hung" /\ line' = line
      BY <1>q, <2>1, <2>6, WhoRuns DEF NullRead, Runs, InUser, Stop, userVars, inputVars
    <3> QED
      BY <3>1 DEF LineIsFatal, Stopped
  <2>7. CASE BinaryYields
    BY <1>q, <2>1, <2>7, YieldStep
  <2>8. CASE BinaryExits
    BY <1>q, <2>1, <2>8, ExitStep
  <2>9. CASE KernelSwitches
    <3>1. InSwitch
      BY <2>9
         DEF KernelSwitches, SwitchStep, SwitchEmpty, SwitchGarbage, SwitchSkip,
             SwitchCrash, SwitchRun, SwitchWaitAgain, SwitchReap, SwitchDieAgain, kill_proc,
             SwitchOverflow, Next_proc, Resumable
    <3>2. \/ SwitchRun \/ SwitchWaitAgain \/ SwitchDieAgain
          \/ kill_proc
          \/ SwitchReap
      BY <1>q, <2>1, <2>9, <3>1, SwitchGoesOn DEF KernelSwitches, SwitchStep
    <3> QED
      BY <1>q, <2>1, <2>9, <3>1, <3>2, TurnStep, DieStep, ReapStep DEF KernelSwitches
  <2>10. CASE ShellHalted
    BY <1>3, <2>10 DEF ShellHalted, Halted
  <2> QED
    BY <1>3, <2>2, <2>3, <2>4, <2>5, <2>6, <2>7, <2>8, <2>9, <2>10 DEF ShellNext
<1> QED
  BY <1>1, <1>2, <1>3

\* The invariant of a session.
LEMMA SessionInvariant == ShellSpec => []PInv
BY SessionInit, SessionStep, PTL DEF ShellSpec

\* No line but a fatal one ever stops the machine, however many were typed
\* or came from scripts before it, for every size of the process table from
\* three slots up: fork always finds slot 1 and exec slot 2 free, no switch
\* finds the queue empty, a zeroed stack or a report without its child.
THEOREM SessionsNeverStop == ShellSpec => []SessionNeverStops
BY SessionInvariant, PTL DEF PInv

\* Whenever the shell reads its next line, typed or from a script, it is the
\* only process: kill_proc and syscall_wait have freed the slots of the
\* binary and of the child, and the run queue is empty.
THEOREM CommandsAreReclaimed == ShellSpec => []CommandsReclaimed
<1>1. PInv => CommandsReclaimed
  <2> SUFFICES ASSUME PInv, Ready
               PROVE  /\ {s \in Slots : proc_descriptor[s] = 1} = {0}
                      /\ Occupied = {}
    BY DEF CommandsReclaimed
  <2> USE ThreeSlots
  <2>1. QInv /\ Going /\ Idle
    BY WhoRuns DEF PInv, Ready, Runs, InUser, Stopped
  <2>2. \A s \in Slots : proc_descriptor[s] = 1 <=> s = 0
    BY <2>1 DEF Idle, Going, ShellAndTwo, Live
  <2>3. Queued = {}
    BY <2>1, <2>2 DEF Idle, QInv, RunQueueSound, QueueSound, Live
  <2> QED
    BY <2>2, <2>3 DEF Queued
<1> QED
  BY <1>1, SessionInvariant, PTL

\* The shell, blocked in syscall_wait, waits for a child that is a zombie or
\* is scheduled; nobody else ever blocks in syscall_wait.
THEOREM WaitsCanEnd == ShellSpec => []WaitedChildCanReport
<1>1. PInv => WaitedChildCanReport
  <2> SUFFICES ASSUME PInv, cpu \notin Stopped, NEW s \in Slots,
                      Live(s), waitstate[s] = WAITING_TO_LIVE
               PROVE  \E i \in Slots : /\ proc_descriptor[i] = 1
                                       /\ ppid[i] = pid[s]
                                       /\ waitingfor[s] \in {ANY_CHILD, pid[i]}
                                       /\ \/ state[i] = ZOMBIE
                                          \/ i = active \/ i \in Queued
    BY DEF WaitedChildCanReport
  <2> USE ThreeSlots
  <2>1. QInv /\ Going
    BY DEF PInv
  <2>2. s \in {0, 1, 2} /\ s # active
    <3>1. s \in {0, 1, 2}
      BY <2>1 DEF Going, ShellAndTwo, Live
    <3>2. cpu \in {"user", "switch"} /\ (cpu = "switch" => active = NULL)
      BY <2>1 DEF QInv, TInv, CpuOwner, TypeOK
    <3>3. cpu = "user" => waitstate[active] = 0
      BY <2>1 DEF QInv, RunQueueSound, ActiveSound, InUser
    <3> QED
      BY <3>1, <3>2, <3>3, SlotFacts DEF WAITING_TO_LIVE
  <2>3. s = 0 /\ ~Idle /\ ~Forked
    BY <2>1, <2>2
       DEF Going, Phase, Idle, Forked, Busy, Exited, Execed, ChildDead, HasChild, Live,
           WAITING_TO_LIVE, WAITING_TO_DIE, RUNNING, ZOMBIE
  <2>4. HasChild /\ shell = "ready"
    BY <2>1, <2>3
       DEF Going, Phase, Busy, Exited, Execed, ChildDead, HasChild, WAITING_TO_LIVE
  <2>5. state[1] = ZOMBIE \/ Scheduled(1)
    BY <2>1, <2>3, <2>4
       DEF Going, Phase, Busy, Exited, Execed, ChildDead, HasChild, AllScheduled, Live
  <2> QED
    BY <2>3, <2>4, <2>5 DEF HasChild, Scheduled
<1> QED
  BY <1>1, SessionInvariant, PTL
=============================================================================
