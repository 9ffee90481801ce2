-------------------------- MODULE SchedulerProofs --------------------------
(***************************************************************************)
(* Proofs about module Scheduler, for every size of the process table and  *)
(* every number of processes.                                              *)
(*                                                                         *)
(* The run queue and the reports of exited children are proved for the     *)
(* kernel without kill (NoKillSpec).  The ring is first shown to behave as *)
(* a set of distinct entries; the invariant is then about that set.        *)
(***************************************************************************)
EXTENDS Scheduler, FiniteSetTheorems, TLAPS

-----------------------------------------------------------------------------
(* Type correctness, with kill and with exec that fails. *)

\* Who has the CPU: user code always runs in a process of the table, and the
\* switch loop in none.
CpuOwner == /\ cpu = "user" => active \in Slots
            /\ cpu = "switch" => active = NULL

\* The types, strengthened with the owner of the CPU: the handlers index the
\* PCB fields with active.
TInv == TypeOK /\ CpuOwner

\* Slots are positions of the ring, and NULL is none.
LEMMA SlotFacts == /\ 0 \in Slots
                   /\ 0 \in Ring
                   /\ NULL \notin Slots
                   /\ Slots \subseteq Ring
                   /\ Slots \subseteq Int
BY ProcSizeAssumption DEF Slots, Ring, NULL

\* The index of the ring wraps around.
LEMMA IncInRing == ASSUME NEW i \in Ring
                   PROVE  Inc(i) \in Ring
BY ProcSizeAssumption DEF Inc, Ring

\* Boot establishes the types and who runs.
LEMMA TypeInit == Init => TInv
BY SlotFacts, ProcSizeAssumption, MaxPidAssumption
   DEF Init, TInv, TypeOK, CpuOwner, Ring, NEW_PROC, RUNNING, ZOMBIE, DEAD,
       ANY_CHILD, Stopped

\* What the three queue operations keep.
LEMMA QueueTypes ==
    ASSUME TypeOK,
           \/ \E s \in Slots : Enqueue(s)
           \/ Dequeue
           \/ Requeue
           \/ \E t \in Slots : RemoveFromQueue(t)
           \/ UNCHANGED queueVars
    PROVE  /\ proc_Q' \in [Ring -> Slots \union {NULL}]
           /\ proc_start' \in Ring
           /\ proc_end' \in Ring
<1> USE DEF TypeOK
<1>1. Inc(proc_start) \in Ring /\ Inc(proc_end) \in Ring
  BY IncInRing
<1>2. ASSUME NEW s \in Slots, Enqueue(s)
      PROVE  /\ proc_Q' \in [Ring -> Slots \union {NULL}]
             /\ proc_start' \in Ring
             /\ proc_end' \in Ring
  BY <1>1, <1>2 DEF Enqueue
<1>3. CASE Dequeue
  BY <1>1, <1>3 DEF Dequeue
<1>4. CASE Requeue
  BY <1>1, <1>4 DEF Requeue
<1>5. ASSUME NEW t \in Slots, RemoveFromQueue(t)
      PROVE  /\ proc_Q' \in [Ring -> Slots \union {NULL}]
             /\ proc_start' \in Ring
             /\ proc_end' \in Ring
  <2>1. \A i \in Ring : i \in Shifted(t) => i - 1 \in Ring
    <3>1. proc_start \in 0..PROC_SIZE /\ t \in 0..(PROC_SIZE - 1)
      BY DEF Ring, Slots
    <3>2. \A i \in 0..PROC_SIZE : i \in Shifted(t) => i >= 1
      BY <3>1, ProcSizeAssumption DEF Shifted
    <3> QED
      BY <3>2, ProcSizeAssumption DEF Ring
  <2>2. \A i \in Ring : (IF i \in Shifted(t) THEN proc_Q[i - 1] ELSE proc_Q[i])
                            \in Slots \union {NULL}
    BY <2>1
  <2> QED
    BY <1>1, <1>5, <2>2 DEF RemoveFromQueue
<1>6. CASE UNCHANGED queueVars
  BY <1>6 DEF queueVars
<1> QED
  BY <1>2, <1>3, <1>4, <1>5, <1>6

\* What NotifyParent stores in the parent.
LEMMA NotifyTypes ==
    ASSUME TypeOK, NEW pp, NEW status \in {0} \union Statuses,
           NEW child \in 0..MaxPid, NotifyParent(pp, status, child)
    PROVE  /\ sigchild_state' \in [Slots -> {0, RUNNING, DEAD} \union Statuses]
           /\ signalling_child' \in [Slots -> 0..MaxPid]
BY DEF TypeOK, NotifyParent

\* What the creation of a process stores in its slot.
LEMMA NewProcessTypes ==
    ASSUME TypeOK, active \in Slots, NEW i \in Slots, NewProcess(i)
    PROVE  /\ global_pid' \in 1..(MaxPid + 1)
           /\ proc_descriptor' \in [Slots -> {0, 1}]
           /\ sno' \in [Slots -> Slots]
           /\ pid' \in [Slots -> 0..MaxPid]
           /\ ppid' \in [Slots -> 0..MaxPid]
           /\ state' \in [Slots -> {NEW_PROC, RUNNING, ZOMBIE, DEAD}]
           /\ signalling_child' \in [Slots -> 0..MaxPid]
           /\ kstack' \in [Slots -> {"intact", "zeroed"}]
           /\ global_pid \in 0..MaxPid
BY MaxPidAssumption DEF TypeOK, NewProcess, NextPid, create_kstack

\* Every step keeps the types and who runs.
LEMMA TypeStep == TInv /\ [Next]_vars => TInv'
<1> SUFFICES ASSUME TypeOK, CpuOwner, [Next]_vars
             PROVE  TypeOK' /\ CpuOwner'
  BY DEF TInv
<1> USE SlotFacts, MaxPidAssumption
<1>s. ASSUME NEW how \in Stopped, Stop(how)
      PROVE  TypeOK' /\ CpuOwner'
  BY <1>s DEF Stop, TypeOK, CpuOwner, Stopped, queueVars, tableVars, waitVars
<1>1. CASE Yield
  <2>1. active \in Slots
    BY <1>1 DEF Yield, InUser, CpuOwner
  <2> QED
    BY <1>1, <2>1, QueueTypes DEF Yield, TypeOK, CpuOwner, tableVars, waitVars
<1>2. ASSUME NEW status \in Statuses, Exit(status)
      PROVE  TypeOK' /\ CpuOwner'
  <2>1. active \in Slots /\ pid[active] \in 0..MaxPid
    BY <1>2 DEF Exit, InUser, CpuOwner, TypeOK
  <2> QED
    BY <1>2, <2>1, NotifyTypes
       DEF Exit, TypeOK, CpuOwner, queueVars, tableVars
<1>3. ASSUME NEW id \in {ANY_CHILD} \union 1..MaxPid, Wait(id)
      PROVE  TypeOK' /\ CpuOwner'
  <2>1. active \in Slots
    BY <1>3 DEF Wait, InUser, CpuOwner
  <2>2. id \in {ANY_CHILD} \union 0..MaxPid
    OBVIOUS
  <2> QED
    BY <1>3, <2>1, <2>2, QueueTypes DEF Wait, TypeOK, CpuOwner, tableVars
<1>4. CASE Fork
  <2>1. active \in Slots
    BY <1>4 DEF Fork, InUser, CpuOwner
  <2>2. \E s \in Slots : Enqueue(s)
    BY <1>4, <2>1 DEF Fork
  <2> QED
    BY <1>4, <2>1, <2>2, QueueTypes, NewProcessTypes DEF Fork, TypeOK, CpuOwner
<1>5. CASE Exec
  <2>1. active \in Slots
    BY <1>5 DEF Exec, InUser, CpuOwner
  <2>2. \E s \in Slots : Enqueue(s)
    BY <1>5, <2>1 DEF Exec
  <2> QED
    BY <1>5, <2>1, <2>2, QueueTypes, NewProcessTypes DEF Exec, TypeOK, CpuOwner
<1>6. CASE ExecNotFound
  <2>1. active \in Slots
    BY <1>6 DEF ExecNotFound, InUser, CpuOwner
  <2>2. PICK i \in Slots :
           /\ NewProcess(i)
           /\ waitstate' = [waitstate EXCEPT ![i] = 0]
           /\ waitingfor' = [waitingfor EXCEPT ![i] = 0]
           /\ sigchild_state' = [sigchild_state EXCEPT ![i] = DEAD]
    BY <1>6 DEF ExecNotFound
  <2>3. /\ UNCHANGED <<active, cpu>>
        /\ UNCHANGED queueVars
    BY <1>6 DEF ExecNotFound
  <2>4. /\ proc_start' \in Ring /\ proc_end' \in Ring
        /\ proc_Q' \in [Ring -> Slots \cup {NULL}]
        /\ active' \in Slots \cup {NULL}
        /\ cpu' \in {"user", "switch"} \cup Stopped
    BY <2>3 DEF TypeOK, queueVars
  <2>5. /\ waitstate' \in [Slots -> {0, WAITING_TO_LIVE, WAITING_TO_DIE}]
        /\ waitingfor' \in [Slots -> {ANY_CHILD} \cup 0..MaxPid]
        /\ sigchild_state' \in [Slots -> {0, RUNNING, DEAD} \cup Statuses]
    BY <2>2 DEF TypeOK
  <2>6. CpuOwner'
    BY <2>3 DEF CpuOwner
  <2> QED
    BY <2>1, <2>2, <2>4, <2>5, <2>6, NewProcessTypes DEF TypeOK
<1>7. ASSUME NEW p \in 2..MaxPid, Kill(p)
      PROVE  TypeOK' /\ CpuOwner'
  <2>1. PICK t \in Slots :
           /\ Holds(t, p)
           /\ state' = [state EXCEPT ![t] = DEAD]
           /\ proc_descriptor' = [proc_descriptor EXCEPT ![t] = 0]
           /\ NotifyParent(ppid[t], 0, p)
           /\ RemoveFromQueue(t)
    BY <1>7 DEF Kill
  <2>2. p \in 0..MaxPid
    OBVIOUS
  <2> QED
    BY <1>7, <2>1, <2>2, QueueTypes, NotifyTypes DEF Kill, TypeOK, CpuOwner
<1>8. CASE SwitchSkip
  BY <1>8, QueueTypes
     DEF SwitchSkip, TypeOK, CpuOwner, tableVars, waitVars
<1>9. CASE SwitchRun
  BY <1>9, QueueTypes
     DEF SwitchRun, TypeOK, CpuOwner, tableVars, waitVars
<1>10. CASE SwitchWaitAgain
  BY <1>10, QueueTypes
     DEF SwitchWaitAgain, TypeOK, CpuOwner, tableVars, waitVars
<1>11. CASE SwitchReap
  BY <1>11, QueueTypes DEF SwitchReap, FreedSlot, TypeOK, CpuOwner
<1>12. CASE SwitchDieAgain
  BY <1>12, QueueTypes
     DEF SwitchDieAgain, TypeOK, CpuOwner, tableVars, waitVars
<1>13. CASE kill_proc
  BY <1>13, QueueTypes, NotifyTypes DEF kill_proc, FreedSlot, TypeOK, CpuOwner
<1>14. CASE UNCHANGED vars
  BY <1>14
     DEF vars, TypeOK, CpuOwner, queueVars, tableVars, waitVars
<1>15. ASSUME ForkHangs \/ CreateOverflows \/ CreateOverruns \/ SwitchEmpty
              \/ SwitchGarbage \/ SwitchCrash \/ SwitchOverflow
              \/ \E p \in 2..MaxPid : KillUnheld(p)
       PROVE  \E how \in Stopped : Stop(how)
  BY <1>15
     DEF ForkHangs, CreateOverflows, CreateOverruns, SwitchEmpty, Stopped,
         SwitchGarbage, SwitchCrash, SwitchOverflow, KillUnheld
<1> QED
  BY <1>s, <1>1, <1>2, <1>3, <1>4, <1>5, <1>6, <1>7, <1>8, <1>9, <1>10,
     <1>11, <1>12, <1>13, <1>14, <1>15
     DEF Next, NoKillNext, CoreNext, UserStep, SwitchStep, KillStep, Halted

\* Every field keeps its type and user code always runs in a slot of the
\* table, whatever the programs call, kill included.
THEOREM TypeCorrect == Spec => []TypeOK
<1>1. TInv /\ [Next]_vars => TInv'
  BY TypeStep
<1>2. Init => TInv
  BY TypeInit
<1> QED
  BY <1>1, <1>2, PTL DEF Spec, TInv

-----------------------------------------------------------------------------
(* Pids, with kill and with exec that fails. *)

\* A new process gets a pid that nobody has.
LEMMA PidsNewProcess ==
    ASSUME TypeOK, PidsUnique, active \in Slots, NEW i \in Slots, NewProcess(i)
    PROVE  PidsUnique'
BY SlotFacts, MaxPidAssumption DEF TypeOK, PidsUnique, NewProcess, NextPid

\* Steps that leave the pids alone.
LEMMA PidsUnchanged ==
    ASSUME PidsUnique, UNCHANGED <<global_pid, pid, ppid>>
    PROVE  PidsUnique'
BY DEF PidsUnique

\* Every step keeps the pids distinct.
LEMMA PidsStep == TInv /\ PidsUnique /\ [Next]_vars => PidsUnique'
<1> SUFFICES ASSUME TypeOK, CpuOwner, PidsUnique, [Next]_vars
             PROVE  PidsUnique'
  BY DEF TInv
<1>1. CASE Fork \/ Exec \/ ExecNotFound
  <2>1. active \in Slots
    BY <1>1 DEF Fork, Exec, ExecNotFound, InUser, CpuOwner
  <2>2. \E i \in Slots : NewProcess(i)
    BY <1>1 DEF Fork, Exec, ExecNotFound
  <2> QED
    BY <2>1, <2>2, PidsNewProcess
<1>2. CASE SwitchReap
  BY <1>2, SlotFacts DEF SwitchReap, FreedSlot, TypeOK, PidsUnique
<1>3. CASE UNCHANGED vars \/ Halted
  BY <1>3, PidsUnchanged DEF vars, Halted, tableVars
<1>4. CASE \/ Yield
           \/ \E status \in Statuses : Exit(status)
           \/ \E id \in {ANY_CHILD} \union 1..MaxPid : Wait(id)
           \/ ForkHangs \/ CreateOverflows \/ CreateOverruns
           \/ KillStep
  BY <1>4, PidsUnchanged
     DEF Yield, Exit, Wait, ForkHangs, CreateOverflows, CreateOverruns,
         KillStep, Kill, KillUnheld, Stop, tableVars
<1>5. CASE \/ SwitchEmpty \/ SwitchGarbage \/ SwitchSkip \/ SwitchCrash
           \/ SwitchRun \/ SwitchWaitAgain \/ SwitchDieAgain \/ kill_proc
           \/ SwitchOverflow
  BY <1>5, PidsUnchanged
     DEF SwitchEmpty, SwitchGarbage, SwitchSkip, SwitchCrash, SwitchRun,
         SwitchWaitAgain, SwitchDieAgain, kill_proc, SwitchOverflow, Stop,
         tableVars
<1> QED
  BY <1>1, <1>2, <1>3, <1>4, <1>5
     DEF Next, NoKillNext, CoreNext, UserStep, SwitchStep

\* No two slots ever hold the same process, no pid is handed out twice, and
\* a parent is older than its child: the searches by pid in exit, wait, kill
\* and kill_proc cannot take one process for another.
THEOREM PidsAreUnique == Spec => []PidsUnique
<1>1. Init => TInv /\ PidsUnique
  <2>1. Init => PidsUnique
    BY SlotFacts DEF Init, PidsUnique
  <2> QED
    BY <2>1, TypeInit
<1>2. TInv /\ PidsUnique /\ [Next]_vars => TInv' /\ PidsUnique'
  BY TypeStep, PidsStep
<1> QED
  BY <1>1, <1>2, PTL DEF Spec

-----------------------------------------------------------------------------
(* The shell, and the dead, with kill and with exec that fails. *)

\* A PCB that holds a process knows its slot; a process that can run has a
\* pid, and the one on the CPU can run.
SlotsKnown == /\ \A s \in Slots : pid[s] # 0 => sno[s] = s
              /\ \A s \in Slots : state[s] = RUNNING => pid[s] # 0
              /\ InUser => state[active] = RUNNING

\* A report that a process may act on names a younger process: not itself,
\* not the shell, and not a zeroed PCB, whose sno is the shell's slot.
ReportsAreYounger ==
    \A s \in Slots : state[s] = RUNNING /\ sigchild_state[s] = 0
                         => signalling_child[s] > pid[s]

\* The shell never calls exec, so that it never waits to die.
ShellInv == /\ ShellAlive
            /\ waitstate[0] # WAITING_TO_DIE
            /\ SlotsKnown
            /\ ReportsAreYounger

SInv == TInv /\ PidsUnique /\ ShellInv

\* The shell is alive at boot.
LEMMA ShellAtBoot == Init => ShellInv
BY SlotFacts, ProcSizeAssumption
   DEF Init, ShellInv, ShellAlive, SlotsKnown, ReportsAreYounger, WAITING_TO_DIE,
       NEW_PROC, RUNNING, DEAD, InUser

\* A process created in the free slot i.
LEMMA ShellNewProcess ==
    ASSUME SInv, active \in Slots, state[active] = RUNNING,
           NEW i \in Slots, FirstFree(i), NewProcess(i),
           waitstate'[0] # WAITING_TO_DIE, active' \in {active, i},
           \A s \in Slots : \/ sigchild_state'[s] = sigchild_state[s] /\ s # i
                            \/ sigchild_state'[s] # 0
    PROVE  ShellInv'
<1> USE DEF SInv, TInv, TypeOK, ShellInv
<1>1. i # 0
  BY DEF FirstFree, ShellAlive
<1>2. ShellAlive'
  BY <1>1, SlotFacts DEF ShellAlive, NewProcess
<1>3. global_pid # 0
  OBVIOUS
<1>4. SlotsKnown'
  BY <1>3 DEF SlotsKnown, NewProcess
<1>5. ReportsAreYounger'
  BY DEF ReportsAreYounger, NewProcess
<1> QED
  BY <1>2, <1>4, <1>5

\* Steps that change neither the table nor who can run, nor a report.
LEMMA ShellUnchanged ==
    ASSUME SInv, UNCHANGED <<sno, pid, ppid, sigchild_state, signalling_child, proc_descriptor>>,
           \A s \in Slots : state'[s] = state[s],
           waitstate'[0] # WAITING_TO_DIE,
           InUser' => active' \in Slots /\ state[active'] = RUNNING
    PROVE  ShellInv'
BY SlotFacts DEF SInv, TInv, TypeOK, ShellInv, ShellAlive, SlotsKnown, ReportsAreYounger

\* The process in slot r ends and its parent is told: exit, kill, kill_proc.
LEMMA ShellNotified ==
    ASSUME SInv, NEW r \in Slots, r # 0, pid[r] # 0, state'[r] # RUNNING,
           NEW status, NotifyParent(ppid[r], status, pid[r]),
           UNCHANGED <<sno, pid, ppid>>,
           proc_descriptor'[0] = 1, state'[0] = RUNNING, waitstate'[0] # WAITING_TO_DIE,
           \A s \in Slots : state'[s] = RUNNING => state[s] = RUNNING,
           InUser' => state'[active'] = RUNNING
    PROVE  ShellInv'
<1> USE DEF SInv, TInv, TypeOK, ShellInv
<1>1. ShellAlive' /\ SlotsKnown'
  BY SlotFacts DEF ShellAlive, SlotsKnown
<1>2. ASSUME NEW s \in Slots, state'[s] = RUNNING, sigchild_state'[s] = 0
      PROVE  signalling_child'[s] > pid'[s]
  <2>1. state[s] = RUNNING
    BY <1>2
  <2>2. CASE Holds(s, ppid[r])
    <3>1. signalling_child'[s] = pid[r] /\ pid[s] = ppid[r]
      BY <2>2 DEF NotifyParent, Holds
    <3>2. ppid[r] < pid[r] /\ ppid[r] \in Nat /\ pid[r] \in Nat
      BY MaxPidAssumption DEF PidsUnique
    <3> QED
      BY <3>1, <3>2
  <2>3. CASE ~Holds(s, ppid[r])
    BY <1>2, <2>1, <2>3 DEF NotifyParent, ReportsAreYounger
  <2> QED
    BY <2>2, <2>3
<1> QED
  BY <1>1, <1>2 DEF ReportsAreYounger

\* Who is released is younger than the one that was told of it.
LEMMA ReleasedIsNotShell ==
    ASSUME SInv, NEW s \in Slots, state[s] = RUNNING, sigchild_state[s] = 0,
           NEW i \in Slots, Holds(i, signalling_child[s])
    PROVE  i # 0 /\ i # s /\ sno[i] = i /\ pid[i] # 0
<1> USE DEF SInv, TInv, TypeOK, ShellInv
<1>1. pid[i] > pid[s] /\ pid[i] \in Nat /\ pid[s] \in Nat /\ pid[s] # 0
  BY MaxPidAssumption DEF Holds, ReportsAreYounger, SlotsKnown
<1>2. pid[0] = 1
  BY DEF ShellAlive
<1>3. pid[i] # 0 /\ pid[i] # 1 /\ pid[i] # pid[s]
  BY <1>1
<1> QED
  BY <1>2, <1>3 DEF SlotsKnown

\* No step ends the shell, or leads to a report that would.
LEMMA ShellStep == SInv /\ [Next]_vars => ShellInv'
<1> SUFFICES ASSUME SInv, [Next]_vars
             PROVE  ShellInv'
  OBVIOUS
<1>t. TypeOK /\ CpuOwner /\ ShellAlive /\ waitstate[0] # WAITING_TO_DIE /\ 0 \in Slots
  BY SlotFacts DEF SInv, TInv, ShellInv
<1>u. InUser => active \in Slots /\ state[active] = RUNNING /\ pid[active] # 0
  BY DEF SInv, ShellInv, SlotsKnown, TInv, CpuOwner, InUser
<1>1. CASE Yield
  BY <1>1, <1>t, <1>u, ShellUnchanged
     DEF Yield, tableVars, waitVars, TypeOK, InUser
<1>2. ASSUME NEW status \in Statuses, Exit(status)
      PROVE  ShellInv'
  <2>1. active \in Slots /\ active # 0 /\ pid[active] # 0 /\ ~InUser'
    BY <1>2, <1>u DEF Exit, InUser
  <2>2. /\ state'[active] # RUNNING /\ proc_descriptor'[0] = 1 /\ state'[0] = RUNNING
        /\ \A s \in Slots : state'[s] = RUNNING => state[s] = RUNNING
        /\ waitstate'[0] # WAITING_TO_DIE
    BY <1>2, <1>t, <2>1 DEF Exit, TypeOK, tableVars, ShellAlive, RUNNING, ZOMBIE
  <2>3. UNCHANGED <<sno, pid, ppid>> /\ NotifyParent(ppid[active], status, pid[active])
    BY <1>2 DEF Exit, tableVars
  <2> QED
    BY <2>1, <2>2, <2>3, ShellNotified
<1>3. ASSUME NEW id, Wait(id)
      PROVE  ShellInv'
  BY <1>3, <1>t, <1>u, ShellUnchanged
     DEF Wait, tableVars, TypeOK, InUser, WAITING_TO_DIE, WAITING_TO_LIVE
<1>4. CASE Fork
  <2>0. active \in Slots /\ state[active] = RUNNING
    BY <1>4, <1>u DEF Fork
  <2>1. PICK i \in Slots :
           /\ FirstFree(i) /\ NewProcess(i) /\ active' = i
           /\ waitstate' = [waitstate EXCEPT ![i] = 0]
           /\ sigchild_state' = [sigchild_state EXCEPT ![i] = DEAD, ![active] = RUNNING]
    BY <1>4 DEF Fork
  <2>2. waitstate'[0] # WAITING_TO_DIE
    BY <1>t, <2>1 DEF TypeOK, WAITING_TO_DIE
  <2>3. \A s \in Slots : \/ sigchild_state'[s] = sigchild_state[s] /\ s # i
                         \/ sigchild_state'[s] # 0
    BY <1>t, <2>0, <2>1 DEF TypeOK, DEAD, RUNNING
  <2> QED
    BY <2>0, <2>1, <2>2, <2>3, ShellNewProcess
<1>5. CASE Exec
  <2>0. active \in Slots /\ state[active] = RUNNING /\ active # 0
    BY <1>5, <1>u DEF Exec
  <2>1. PICK i \in Slots :
           /\ FirstFree(i) /\ NewProcess(i) /\ active' = i
           /\ waitstate' = [waitstate EXCEPT ![i] = 0, ![active] = WAITING_TO_DIE]
           /\ sigchild_state' = [sigchild_state EXCEPT ![i] = DEAD]
    BY <1>5 DEF Exec
  <2>2. waitstate'[0] # WAITING_TO_DIE
    BY <1>t, <2>0, <2>1 DEF TypeOK, WAITING_TO_DIE
  <2>3. \A s \in Slots : \/ sigchild_state'[s] = sigchild_state[s] /\ s # i
                         \/ sigchild_state'[s] # 0
    BY <1>t, <2>1 DEF TypeOK, DEAD
  <2> QED
    BY <2>0, <2>1, <2>2, <2>3, ShellNewProcess
<1>6. CASE ExecNotFound
  <2>0. active \in Slots /\ state[active] = RUNNING /\ active' = active
    BY <1>6, <1>u DEF ExecNotFound
  <2>1. PICK i \in Slots :
           /\ FirstFree(i) /\ NewProcess(i)
           /\ waitstate' = [waitstate EXCEPT ![i] = 0]
           /\ sigchild_state' = [sigchild_state EXCEPT ![i] = DEAD]
    BY <1>6 DEF ExecNotFound
  <2>2. waitstate'[0] # WAITING_TO_DIE
    BY <1>t, <2>1 DEF TypeOK, WAITING_TO_DIE
  <2>3. \A s \in Slots : \/ sigchild_state'[s] = sigchild_state[s] /\ s # i
                         \/ sigchild_state'[s] # 0
    BY <1>t, <2>1 DEF TypeOK, DEAD
  <2> QED
    BY <2>0, <2>1, <2>2, <2>3, ShellNewProcess
<1>7. ASSUME NEW p \in 2..MaxPid, Kill(p)
      PROVE  ShellInv'
  <2>1. PICK t \in Slots :
           /\ Holds(t, p)
           /\ state' = [state EXCEPT ![t] = DEAD]
           /\ proc_descriptor' = [proc_descriptor EXCEPT ![t] = 0]
           /\ NotifyParent(ppid[t], 0, p)
    BY <1>7 DEF Kill
  <2>2. p # pid[active] /\ InUser /\ UNCHANGED <<active, sno, pid, ppid, waitstate>>
    BY <1>7 DEF Kill
  <2>3. pid[t] = p /\ p # 1 /\ p # 0
    BY <2>1 DEF Holds
  <2>4. t # 0 /\ t # active
    BY <1>t, <2>2, <2>3 DEF ShellAlive
  <2>5. /\ state'[t] # RUNNING /\ proc_descriptor'[0] = 1 /\ state'[0] = RUNNING
        /\ \A s \in Slots : state'[s] = RUNNING => state[s] = RUNNING
        /\ state'[active'] = RUNNING /\ waitstate'[0] # WAITING_TO_DIE
    BY <1>t, <1>u, <2>1, <2>2, <2>4 DEF TypeOK, ShellAlive, RUNNING, DEAD
  <2>6. NotifyParent(ppid[t], 0, pid[t]) /\ pid[t] # 0
    BY <2>1, <2>3
  <2> QED
    BY <2>2, <2>4, <2>5, <2>6, ShellNotified
<1>8. CASE SwitchSkip \/ SwitchWaitAgain \/ SwitchDieAgain
  <2>1. UNCHANGED <<active, cpu, state, tableVars, waitVars>> /\ InSwitch
    BY <1>8 DEF SwitchSkip, SwitchWaitAgain, SwitchDieAgain, Resumable, Next_proc
  <2> QED
    BY <1>t, <2>1, ShellUnchanged DEF tableVars, waitVars, InUser, InSwitch
<1>9. CASE SwitchRun
  <2>1. PICK s \in Slots : state[s] = RUNNING /\ active' = s
                           /\ UNCHANGED <<state, tableVars, waitVars>>
    BY <1>9 DEF SwitchRun, Resumable
  <2> QED
    BY <1>t, <2>1, ShellUnchanged DEF tableVars, waitVars
<1>10. CASE SwitchReap
  <2>1. PICK s \in Slots, i \in Slots :
           /\ state[s] = RUNNING /\ sigchild_state[s] = 0
           /\ Holds(i, signalling_child[s])
           /\ active' = s
           /\ proc_descriptor' = [proc_descriptor EXCEPT ![sno[i]] = 0]
           /\ state' = [state EXCEPT ![i] = NEW_PROC]
           /\ sno' = [sno EXCEPT ![i] = 0]
           /\ pid' = [pid EXCEPT ![i] = 0]
           /\ waitstate' = [waitstate EXCEPT ![s] = 0, ![i] = 0]
           /\ signalling_child' = [signalling_child EXCEPT ![i] = 0]
           /\ sigchild_state' = [sigchild_state EXCEPT ![i] = 0, ![s] = DEAD]
    BY <1>10 DEF SwitchReap, Resumable, ChildReported, FreedSlot
  <2>2. i # 0 /\ i # s /\ sno[i] = i
    BY <2>1, ReleasedIsNotShell
  <2>3. ShellAlive' /\ waitstate'[0] # WAITING_TO_DIE
    BY <1>t, <2>1, <2>2 DEF TypeOK, ShellAlive, WAITING_TO_DIE
  <2>4. SlotsKnown'
    BY <1>t, <2>1, <2>2 DEF SInv, ShellInv, TypeOK, SlotsKnown, NEW_PROC, RUNNING
  <2>5. ReportsAreYounger'
    BY <1>t, <2>1, <2>2 DEF SInv, ShellInv, TypeOK, ReportsAreYounger, NEW_PROC, RUNNING, DEAD
  <2> QED
    BY <2>3, <2>4, <2>5 DEF ShellInv
<1>11. CASE kill_proc
  <2>1. PICK s \in Slots, i \in Slots :
           /\ InSwitch /\ state[s] = RUNNING /\ sigchild_state[s] = 0
           /\ waitstate[s] = WAITING_TO_DIE
           /\ Holds(i, signalling_child[s])
           /\ state' = [state EXCEPT ![s] = ZOMBIE, ![i] = DEAD]
           /\ NotifyParent(ppid[s], 0, pid[s])
           /\ proc_descriptor' = [proc_descriptor EXCEPT ![sno[i]] = 0]
           /\ UNCHANGED <<cpu, sno, pid, ppid, waitstate>>
    BY <1>11 DEF kill_proc, Resumable, BinaryEnded, FreedSlot, Next_proc
  <2>2. i # 0 /\ i # s /\ sno[i] = i
    BY <2>1, ReleasedIsNotShell
  <2>3. s # 0 /\ pid[s] # 0
    BY <1>t, <2>1 DEF SInv, ShellInv, SlotsKnown
  <2>4. /\ state'[s] # RUNNING /\ proc_descriptor'[0] = 1 /\ state'[0] = RUNNING
        /\ \A r \in Slots : state'[r] = RUNNING => state[r] = RUNNING
        /\ waitstate'[0] # WAITING_TO_DIE
    BY <1>t, <2>1, <2>2, <2>3 DEF TypeOK, ShellAlive, RUNNING, DEAD, ZOMBIE
  <2>5. ~InUser'
    BY <2>1 DEF InUser, InSwitch
  <2> QED
    BY <2>1, <2>3, <2>4, <2>5, ShellNotified
<1>12. ASSUME NEW how \in Stopped, Stop(how)
       PROVE  ShellInv'
  BY <1>12, <1>t, ShellUnchanged DEF Stop, Stopped, tableVars, waitVars, InUser
<1>13. CASE UNCHANGED vars
  BY <1>13, <1>t, <1>u, ShellUnchanged DEF vars, tableVars, waitVars, InUser
<1>14. ASSUME ForkHangs \/ CreateOverflows \/ CreateOverruns \/ SwitchEmpty
              \/ SwitchGarbage \/ SwitchCrash \/ SwitchOverflow
              \/ \E p \in 2..MaxPid : KillUnheld(p)
       PROVE  \E how \in Stopped : Stop(how)
  BY <1>14
     DEF ForkHangs, CreateOverflows, CreateOverruns, SwitchEmpty, Stopped,
         SwitchGarbage, SwitchCrash, SwitchOverflow, KillUnheld
<1> QED
  BY <1>1, <1>2, <1>3, <1>4, <1>5, <1>6, <1>7, <1>8, <1>9, <1>10, <1>11, <1>12,
     <1>13, <1>14
     DEF Next, NoKillNext, CoreNext, UserStep, SwitchStep, KillStep, Halted

\* The invariant behind ShellAlive.
LEMMA SInvariant == Spec => []SInv
<1>1. Init => SInv
  <2>1. Init => PidsUnique
    BY SlotFacts DEF Init, PidsUnique
  <2> QED
    BY <2>1, TypeInit, ShellAtBoot DEF SInv
<1>2. SInv /\ [Next]_vars => SInv'
  BY TypeStep, PidsStep, ShellStep DEF SInv
<1> QED
  BY <1>1, <1>2, PTL DEF Spec

\* The shell keeps its slot and can always run, whatever is killed and
\* whoever waits: what syscall_wait and kill_proc free is younger than the
\* process that frees it, and so never the shell and never a zeroed PCB.
THEOREM ShellStaysAlive == Spec => []ShellAlive
BY SInvariant, PTL DEF SInv, ShellInv

\* A zombie or killed process is never made runnable again by syscall_switch
\* or do_wait, which write RUNNING into the PCB of whoever calls them.
THEOREM TheDeadStayDead == Spec => NoResurrection
<1>1. ASSUME SInv, Next, NEW s \in Slots, state[s] \in {ZOMBIE, DEAD}, state'[s] = RUNNING
      PROVE  pid'[s] = global_pid
  <2>1. TypeOK /\ (InUser => active \in Slots /\ state[active] = RUNNING)
    BY <1>1 DEF SInv, ShellInv, SlotsKnown, TInv, CpuOwner, InUser
  <2>2. state[s] # RUNNING /\ state'[s] # state[s]
    BY <1>1 DEF RUNNING, ZOMBIE, DEAD
  <2>3. ASSUME InUser, state' = [state EXCEPT ![active] = RUNNING]
        PROVE  FALSE
    BY <2>1, <2>2, <2>3, <1>1 DEF TypeOK
  <2>4. ASSUME NEW i \in Slots, NewProcess(i)
        PROVE  pid'[s] = global_pid
    BY <2>1, <2>2, <2>4, <1>1 DEF TypeOK, NewProcess
  <2>5. ASSUME state' = state
        PROVE  FALSE
    BY <2>2, <2>5
  <2>6. ASSUME NEW t \in Slots, NEW e \in {ZOMBIE, DEAD, NEW_PROC},
               state' = [state EXCEPT ![t] = e]
        PROVE  FALSE
    BY <2>1, <2>2, <2>6, <1>1 DEF TypeOK, RUNNING, ZOMBIE, DEAD, NEW_PROC
  <2>7. ASSUME kill_proc
        PROVE  FALSE
    BY <2>1, <2>2, <2>7, <1>1 DEF TypeOK, kill_proc, RUNNING, ZOMBIE, DEAD
  <2>8. ASSUME UserStep \/ ExecNotFound
        PROVE  pid'[s] = global_pid
    BY <2>1, <2>3, <2>4, <2>5, <2>6, <2>8
       DEF UserStep, Yield, Exit, Wait, Fork, ForkHangs, Exec, ExecNotFound,
           CreateOverflows, CreateOverruns, Stop
  <2>9. ASSUME SwitchStep
        PROVE  pid'[s] = global_pid
    BY <2>5, <2>6, <2>7, <2>9
       DEF SwitchStep, SwitchEmpty, SwitchGarbage, SwitchSkip, SwitchCrash, SwitchRun,
           SwitchWaitAgain, SwitchReap, SwitchDieAgain, SwitchOverflow, Stop
  <2>10. ASSUME KillStep
         PROVE  FALSE
    BY <2>5, <2>6, <2>10 DEF KillStep, Kill, KillUnheld, Stop
  <2>11. ASSUME Halted
         PROVE  FALSE
    BY <2>5, <2>11 DEF Halted, vars
  <2> QED
    BY <1>1, <2>8, <2>9, <2>10, <2>11 DEF Next, NoKillNext, CoreNext
<1>2. SInv /\ [Next]_vars =>
        [\A s \in Slots : state[s] \in {ZOMBIE, DEAD} /\ state'[s] = RUNNING
                              => pid'[s] = global_pid]_vars
  BY <1>1
<1> QED
  BY <1>2, SInvariant, PTL DEF Spec, NoResurrection

-----------------------------------------------------------------------------
(* The ring. *)

\* Storing at the end adds one position.
LEMMA RingGrows ==
    ASSUME NEW st \in Ring, NEW en \in Ring, Inc(en) # st
    PROVE  /\ Between(st, Inc(en)) = Between(st, en) \union {en}
           /\ en \notin Between(st, en)
BY ProcSizeAssumption DEF Ring, Inc, Between

\* Taking from the start removes one position.
LEMMA RingShrinks ==
    ASSUME NEW st \in Ring, NEW en \in Ring, st # en
    PROVE  /\ Between(Inc(st), en) = Between(st, en) \ {st}
           /\ st \in Between(st, en)
BY ProcSizeAssumption DEF Ring, Inc, Between

\* Moving the first entry to the end changes one position for another.
LEMMA RingTurns ==
    ASSUME NEW st \in Ring, NEW en \in Ring, st # en
    PROVE  /\ Between(Inc(st), Inc(en)) = (Between(st, en) \ {st}) \union {en}
           /\ st \in Between(st, en)
           /\ en \notin Between(st, en)
<1>1. Inc(st) \in Ring /\ Inc(en) # Inc(st)
  BY ProcSizeAssumption DEF Ring, Inc
<1>2. Between(Inc(st), Inc(en)) = Between(Inc(st), en) \union {en}
  BY <1>1, RingGrows
<1>3. en \notin Between(st, en)
  BY ProcSizeAssumption DEF Ring, Between
<1> QED
  BY <1>2, <1>3, RingShrinks

\* A ring whose end has come round to its start leaves out one position.
LEMMA RingFilled ==
    ASSUME NEW en \in Ring
    PROVE  Between(Inc(en), en) = Ring \ {en}
BY ProcSizeAssumption DEF Ring, Inc, Between

\* PROC_SIZE distinct entries do not leave out a slot: a ring whose entries
\* are distinct slots other than active is not full.
LEMMA RoomForActive ==
    ASSUME TypeOK, QueuedOnce, QueueSound, active \in Slots
    PROVE  ~RingFull
<1> SUFFICES ASSUME RingFull
             PROVE  FALSE
  OBVIOUS
<1>1. Occupied = Ring \ {proc_end}
  BY RingFilled DEF RingFull, Occupied, TypeOK
<1>2. /\ IsFiniteSet(Occupied)
      /\ Cardinality(Occupied) = PROC_SIZE
  <2>1. IsFiniteSet(Ring) /\ Cardinality(Ring) = PROC_SIZE + 1
    BY FS_Interval, ProcSizeAssumption DEF Ring
  <2>2. proc_end \in Ring
    BY DEF TypeOK
  <2>3. /\ IsFiniteSet(Ring \ {proc_end})
        /\ Cardinality(Ring \ {proc_end}) = Cardinality(Ring) - 1
    BY <2>1, <2>2, FS_RemoveElement
  <2> QED
    BY <1>1, <2>1, <2>3, ProcSizeAssumption
<1>3. /\ IsFiniteSet(Slots \ {active})
      /\ Cardinality(Slots \ {active}) = PROC_SIZE - 1
  <2>1. IsFiniteSet(Slots) /\ Cardinality(Slots) = PROC_SIZE
    BY FS_Interval, ProcSizeAssumption DEF Slots
  <2> QED
    BY <2>1, FS_RemoveElement, ProcSizeAssumption
<1> DEFINE f == [i \in Occupied |-> proc_Q[i]]
<1>4. f \in [Occupied -> Slots \ {active}]
  BY DEF QueueSound, Queued
<1>5. Cardinality(Slots \ {active}) < Cardinality(Occupied)
  BY <1>2, <1>3, ProcSizeAssumption
<1> HIDE DEF f
<1>6. \E x, y \in Occupied : x # y /\ f[x] = f[y]
  BY <1>2, <1>3, <1>4, <1>5, FS_PigeonHole
<1> QED
  BY <1>6 DEF f, QueuedOnce

-----------------------------------------------------------------------------
(* The queue operations, on the set of queued slots. *)

\* Storing a process that is not queued keeps the entries distinct.
LEMMA EnqueueEntry ==
    ASSUME TypeOK, QueuedOnce, ~RingFull,
           NEW s \in Slots, s \notin Queued, Enqueue(s)
    PROVE  QueuedOnce' /\ Queued' = Queued \union {s}
<1>1. /\ Occupied' = Occupied \union {proc_end}
      /\ proc_end \notin Occupied
  BY RingGrows DEF Occupied, TypeOK, Enqueue, RingFull
<1>2. /\ \A i \in Occupied : proc_Q'[i] = proc_Q[i]
      /\ proc_Q'[proc_end] = s
  BY <1>1 DEF Occupied, Between, TypeOK, Enqueue
<1> QED
  BY <1>1, <1>2 DEF QueuedOnce, Queued

\* The first entry is queued, and no more after it is taken.
LEMMA DequeueEntry ==
    ASSUME TypeOK, QueuedOnce, proc_start # proc_end, Dequeue
    PROVE  /\ QueuedOnce'
           /\ Queued' = Queued \ {head}
           /\ head \in Queued
<1>1. /\ Occupied' = Occupied \ {proc_start}
      /\ proc_start \in Occupied
  BY RingShrinks DEF Occupied, TypeOK, Dequeue
<1>2. \A i \in Occupied \ {proc_start} : proc_Q'[i] = proc_Q[i]
  BY <1>1 DEF Occupied, Between, TypeOK, Dequeue
<1> QED
  BY <1>1, <1>2 DEF QueuedOnce, Queued, head

\* Moving the first entry to the end queues the same processes.
LEMMA RequeueEntry ==
    ASSUME TypeOK, QueuedOnce, proc_start # proc_end, Requeue
    PROVE  QueuedOnce' /\ Queued' = Queued
<1>1. /\ Occupied' = (Occupied \ {proc_start}) \union {proc_end}
      /\ proc_start \in Occupied
      /\ proc_end \notin Occupied
  BY RingTurns DEF Occupied, TypeOK, Requeue
<1>2. /\ \A i \in Occupied \ {proc_start} : proc_Q'[i] = proc_Q[i]
      /\ proc_Q'[proc_end] = proc_Q[proc_start]
  BY <1>1 DEF Occupied, Between, TypeOK, Requeue
<1> QED
  BY <1>1, <1>2 DEF QueuedOnce, Queued

\* Steps that leave the ring alone.
LEMMA QueueUnchanged ==
    ASSUME QueuedOnce, UNCHANGED queueVars
    PROVE  QueuedOnce' /\ Queued' = Queued
BY DEF QueuedOnce, Queued, Occupied, queueVars

-----------------------------------------------------------------------------
(* The inductive invariant. *)

\* A slot in use knows its own number and holds a process.
SlotsSound == \A s \in Slots : proc_descriptor[s] = 1
                                   => sno[s] = s /\ pid[s] # 0

\* Reports are part of the invariant because syscall_wait and kill_proc free
\* the slot of the child that reported: only if that child has exited is its
\* slot not in the queue.
QInv == /\ TInv
        /\ PidsUnique
        /\ SlotsSound
        /\ RunQueueSound
        /\ ReportsAreReapable

\* At boot the queue is empty and the shell runs.
LEMMA QInit == Init => QInv
<1> SUFFICES ASSUME Init
             PROVE  SlotsSound /\ RunQueueSound /\ ReportsAreReapable /\ PidsUnique
  BY TypeInit DEF QInv
<1>1. Occupied = {}
  BY ProcSizeAssumption DEF Init, Occupied, Between, Ring
<1>2. RunQueueSound
  BY <1>1, SlotFacts
     DEF Init, RunQueueSound, QueuedOnce, QueueSound, Queued, ActiveSound, Live
<1>3. SlotsSound /\ ReportsAreReapable /\ PidsUnique
  BY SlotFacts DEF Init, SlotsSound, ReportsAreReapable, Live, DEAD, PidsUnique
<1> QED
  BY <1>2, <1>3

\* A new process takes a free slot: nobody's report named it, and everybody
\* who could run still can.
LEMMA NewProcessKeeps ==
    ASSUME QInv, active \in Slots, NEW i \in Slots, FirstFree(i), NewProcess(i),
           \A s \in Slots : \/ sigchild_state'[s] = sigchild_state[s] /\ s # i
                            \/ sigchild_state'[s] # 0
    PROVE  /\ SlotsSound'
           /\ ReportsAreReapable'
           /\ \A s \in Slots : Live(s) => Live(s)' /\ s # i
           /\ Live(i)'
<1> USE DEF QInv, TInv, TypeOK
<1>1. proc_descriptor[i] = 0
  BY DEF FirstFree
<1>2. /\ \A s \in Slots : Live(s) => Live(s)' /\ s # i
      /\ Live(i)'
  BY <1>1 DEF Live, NewProcess
<1>3. SlotsSound'
  BY SlotFacts DEF SlotsSound, NewProcess
<1>4. ASSUME NEW s \in Slots, Live(s)', sigchild_state'[s] = 0
      PROVE  \E j \in Slots : /\ pid'[j] = signalling_child'[s]
                              /\ proc_descriptor'[j] = 1
                              /\ sno'[j] = j
                              /\ state'[j] = ZOMBIE
                              /\ ppid'[j] = pid'[s]
  <2>1. s # i /\ sigchild_state[s] = 0 /\ Live(s)
    BY <1>4 DEF NewProcess, Live
  <2>2. PICK j \in Slots : /\ pid[j] = signalling_child[s]
                           /\ proc_descriptor[j] = 1
                           /\ sno[j] = j
                           /\ state[j] = ZOMBIE
                           /\ ppid[j] = pid[s]
    BY <2>1 DEF ReportsAreReapable
  <2>3. j # i
    BY <1>1, <2>2
  <2> QED
    BY <2>1, <2>2, <2>3 DEF NewProcess
<1> QED
  BY <1>2, <1>3, <1>4 DEF ReportsAreReapable

\* Nothing that SlotsSound, QueueSound and the reports speak of changes.
LEMMA TableUnchanged ==
    ASSUME QInv, UNCHANGED <<tableVars, signalling_child, sigchild_state>>,
           \A s \in Slots : state'[s] = state[s]
    PROVE  /\ SlotsSound'
           /\ ReportsAreReapable'
           /\ \A s \in Slots : Live(s)' <=> Live(s)
BY DEF QInv, SlotsSound, ReportsAreReapable, Live, tableVars

\* The process s, which could run, becomes a zombie and its parent is told.
LEMMA ZombieReports ==
    ASSUME QInv, NEW s \in Slots, Live(s),
           NEW status, NotifyParent(ppid[s], status, pid[s]),
           state'[s] = ZOMBIE,
           proc_descriptor'[s] = 1,
           UNCHANGED <<sno, pid, ppid>>,
           \A t \in Slots : Live(t)' => Live(t) /\ t # s,
           \A t \in Slots : Live(t)' /\ sigchild_state[t] = 0 =>
               \A j \in Slots : /\ state[j] = ZOMBIE
                                /\ proc_descriptor[j] = 1
                                /\ ppid[j] = pid[t]
                                => state'[j] = ZOMBIE /\ proc_descriptor'[j] = 1
    PROVE  ReportsAreReapable'
<1> USE DEF QInv, TInv, TypeOK
<1>1. ASSUME NEW t \in Slots, Live(t)', sigchild_state'[t] = 0
      PROVE  \E j \in Slots : /\ pid'[j] = signalling_child'[t]
                              /\ proc_descriptor'[j] = 1
                              /\ sno'[j] = j
                              /\ state'[j] = ZOMBIE
                              /\ ppid'[j] = pid'[t]
  <2>1. CASE Holds(t, ppid[s])
    <3>1. signalling_child'[t] = pid[s] /\ ppid[s] = pid[t]
      BY <2>1 DEF NotifyParent, Holds
    <3>2. sno[s] = s
      BY DEF SlotsSound, Live
    <3> QED
      BY <3>1, <3>2
  <2>2. CASE ~Holds(t, ppid[s])
    <3>1. /\ sigchild_state[t] = 0
          /\ signalling_child'[t] = signalling_child[t]
          /\ Live(t)
      BY <1>1, <2>2 DEF NotifyParent
    <3>2. PICK j \in Slots : /\ pid[j] = signalling_child[t]
                             /\ proc_descriptor[j] = 1
                             /\ sno[j] = j
                             /\ state[j] = ZOMBIE
                             /\ ppid[j] = pid[t]
      BY <3>1 DEF ReportsAreReapable
    <3> QED
      BY <1>1, <3>1, <3>2
  <2> QED
    BY <2>1, <2>2
<1> QED
  BY <1>1 DEF ReportsAreReapable

\* The slot that holds the child a live process was told of.
LEMMA ReportedChild ==
    ASSUME QInv, NEW s \in Slots, Live(s), sigchild_state[s] = 0,
           NEW i \in Slots, Holds(i, signalling_child[s])
    PROVE  /\ proc_descriptor[i] = 1
           /\ sno[i] = i
           /\ state[i] = ZOMBIE
           /\ ppid[i] = pid[s]
<1>1. PICK j \in Slots : /\ pid[j] = signalling_child[s]
                         /\ proc_descriptor[j] = 1
                         /\ sno[j] = j
                         /\ state[j] = ZOMBIE
                         /\ ppid[j] = pid[s]
  BY DEF QInv, ReportsAreReapable
<1>2. pid[j] # 0
  BY <1>1 DEF QInv, SlotsSound
<1>3. i = j
  BY <1>1, <1>2 DEF Holds, QInv, PidsUnique
<1> QED
  BY <1>1, <1>3

\* The slot at the head of the queue can run.
LEMMA HeadIsLive ==
    ASSUME QInv, NEW s \in Slots, Next_proc(s)
    PROVE  s \in Queued /\ Live(s)
<1>1. proc_start \in Occupied
  BY RingShrinks DEF QInv, TInv, TypeOK, Occupied, Next_proc
<1> QED
  BY <1>1 DEF Next_proc, head, Queued, QInv, RunQueueSound, QueueSound

\* What is left to show of a step, given the types and the pids.
QRest == SlotsSound /\ RunQueueSound /\ ReportsAreReapable

\* Steps of the running process.
LEMMA QUserStep ==
    ASSUME QInv, UserStep \/ ExecNotFound
    PROVE  QRest'
<1> USE DEF QRest
<1>t. TypeOK /\ QueuedOnce /\ QueueSound /\ SlotsSound /\ ReportsAreReapable
  BY DEF QInv, TInv, RunQueueSound
<1>u. InUser
  BY DEF UserStep, Yield, Exit, Wait, Fork, ForkHangs, Exec, CreateOverflows,
         CreateOverruns, ExecNotFound
<1>a. /\ active \in Slots
      /\ active \notin Queued
      /\ Live(active)
  BY <1>u DEF QInv, RunQueueSound, QueueSound, ActiveSound
<1>r. ~RingFull
  BY <1>t, <1>a, RoomForActive
<1>1. CASE Yield
  <2>1. QueuedOnce' /\ Queued' = Queued \union {active}
    BY <1>1, <1>t, <1>a, <1>r, EnqueueEntry DEF Yield
  <2>2. /\ SlotsSound'
        /\ ReportsAreReapable'
        /\ \A s \in Slots : Live(s)' <=> Live(s)
    BY <1>1, <1>a, TableUnchanged DEF Yield, Live, waitVars, TypeOK, QInv, TInv
  <2> QED
    BY <1>1, <1>t, <1>a, <2>1, <2>2, SlotFacts
       DEF Yield, RunQueueSound, QueueSound, ActiveSound, InUser
<1>2. ASSUME NEW status \in Statuses, Exit(status)
      PROVE  QRest'
  <2>1. QueuedOnce' /\ Queued' = Queued
    BY <1>2, <1>t, QueueUnchanged DEF Exit
  <2>2. \A s \in Slots : Live(s)' <=> Live(s) /\ s # active
    BY <1>2, <1>t, <1>a DEF Exit, Live, TypeOK, tableVars, RUNNING, ZOMBIE
  <2>3. SlotsSound'
    BY <1>2, <1>t DEF Exit, SlotsSound, tableVars
  <2>4. ReportsAreReapable'
    <3>1. \A j \in Slots : state[j] = ZOMBIE => state'[j] = ZOMBIE
      BY <1>2, <1>t, <1>a DEF Exit, TypeOK
    <3>2. /\ state'[active] = ZOMBIE
          /\ proc_descriptor'[active] = 1
          /\ UNCHANGED <<sno, pid, ppid, proc_descriptor>>
          /\ NotifyParent(ppid[active], status, pid[active])
      BY <1>2, <1>t, <1>a DEF Exit, TypeOK, Live, tableVars
    <3> QED
      BY <1>a, <2>2, <3>1, <3>2, ZombieReports
  <2> QED
    BY <1>2, <1>t, <1>a, <2>1, <2>2, <2>3, <2>4, SlotFacts
       DEF Exit, RunQueueSound, QueueSound, ActiveSound, InUser
<1>3. ASSUME NEW id, Wait(id)
      PROVE  QRest'
  <2>1. QueuedOnce' /\ Queued' = Queued \union {active}
    BY <1>3, <1>t, <1>a, <1>r, EnqueueEntry DEF Wait
  <2>2. /\ SlotsSound'
        /\ ReportsAreReapable'
        /\ \A s \in Slots : Live(s)' <=> Live(s)
    BY <1>3, <1>a, TableUnchanged DEF Wait, Live, TypeOK, QInv, TInv
  <2> QED
    BY <1>3, <1>t, <1>a, <2>1, <2>2, SlotFacts
       DEF Wait, RunQueueSound, QueueSound, ActiveSound, InUser
<1>4. CASE Fork \/ Exec
  <2>1. PICK i \in Slots :
           /\ FirstFree(i)
           /\ NewProcess(i)
           /\ waitstate'[i] = 0
           /\ \A s \in Slots : \/ sigchild_state'[s] = sigchild_state[s] /\ s # i
                               \/ sigchild_state'[s] # 0
           /\ Enqueue(active)
           /\ active' = i
    <3>1. CASE Fork
      BY <3>1, <1>t, <1>a DEF Fork, TypeOK, DEAD, RUNNING, FirstFree, Live
    <3>2. CASE Exec
      <4>1. PICK i \in Slots :
               /\ FirstFree(i)
               /\ NewProcess(i)
               /\ waitstate' = [waitstate EXCEPT ![i] = 0,
                                                 ![active] = WAITING_TO_DIE]
               /\ sigchild_state' = [sigchild_state EXCEPT ![i] = DEAD]
               /\ Enqueue(active)
               /\ active' = i
        BY <3>2 DEF Exec
      <4>2. active # i
        BY <4>1, <1>a DEF FirstFree, Live
      <4> QED
        BY <4>1, <4>2, <1>t, <1>a DEF TypeOK, DEAD
    <3> QED
      BY <1>4, <3>1, <3>2
  <2>2. QueuedOnce' /\ Queued' = Queued \union {active}
    BY <2>1, <1>t, <1>a, <1>r, EnqueueEntry
  <2>3. /\ SlotsSound'
        /\ ReportsAreReapable'
        /\ \A s \in Slots : Live(s) => Live(s)' /\ s # i
        /\ Live(i)'
    BY <2>1, <1>a, NewProcessKeeps
  <2> QED
    BY <1>t, <1>a, <2>1, <2>2, <2>3 DEF RunQueueSound, QueueSound, ActiveSound
<1>5. CASE ExecNotFound
  <2>1. PICK i \in Slots :
           /\ FirstFree(i)
           /\ NewProcess(i)
           /\ waitstate' = [waitstate EXCEPT ![i] = 0]
           /\ sigchild_state' = [sigchild_state EXCEPT ![i] = DEAD]
    BY <1>5 DEF ExecNotFound
  <2>2. \A s \in Slots : \/ sigchild_state'[s] = sigchild_state[s] /\ s # i
                         \/ sigchild_state'[s] # 0
    BY <2>1, <1>t DEF TypeOK, DEAD
  <2>3. /\ SlotsSound'
        /\ ReportsAreReapable'
        /\ \A s \in Slots : Live(s) => Live(s)' /\ s # i
    BY <2>1, <2>2, <1>a, NewProcessKeeps
  <2>4. QueuedOnce' /\ Queued' = Queued
    BY <1>5, <1>t, QueueUnchanged DEF ExecNotFound
  <2>5. active' = active /\ waitstate'[active] = 0
    BY <1>5, <2>1, <1>t, <1>a, <1>u
       DEF ExecNotFound, QInv, RunQueueSound, ActiveSound, TypeOK
  <2> QED
    BY <1>t, <1>a, <2>3, <2>4, <2>5 DEF RunQueueSound, QueueSound, ActiveSound
<1>6. CASE ForkHangs \/ CreateOverflows \/ CreateOverruns
  <2>1. /\ UNCHANGED <<queueVars, active, state, tableVars, waitVars>>
        /\ cpu' \in Stopped
    BY <1>6 DEF ForkHangs, CreateOverflows, CreateOverruns, Stop, Stopped
  <2>2. QueuedOnce' /\ Queued' = Queued
    BY <2>1, <1>t, QueueUnchanged
  <2>3. /\ SlotsSound'
        /\ ReportsAreReapable'
        /\ \A s \in Slots : Live(s)' <=> Live(s)
    BY <2>1, TableUnchanged DEF waitVars
  <2> QED
    BY <1>t, <2>1, <2>2, <2>3
       DEF RunQueueSound, QueueSound, ActiveSound, InUser, Stopped
<1> QED
  BY <1>1, <1>2, <1>3, <1>4, <1>5, <1>6 DEF UserStep

\* Turns of the switch loop.
LEMMA QSwitchStep ==
    ASSUME QInv, SwitchStep
    PROVE  QRest'
<1> USE DEF QRest
<1>t. TypeOK /\ QueuedOnce /\ QueueSound /\ SlotsSound /\ ReportsAreReapable
  BY DEF QInv, TInv, RunQueueSound
<1>u. InSwitch
  BY DEF SwitchStep, SwitchEmpty, SwitchGarbage, SwitchSkip, SwitchCrash,
         SwitchRun, SwitchWaitAgain, SwitchReap, SwitchDieAgain, kill_proc,
         SwitchOverflow, Next_proc, Resumable
<1>a. active = NULL
  BY <1>u DEF InSwitch, QInv, TInv, CpuOwner
<1>1. CASE SwitchEmpty \/ SwitchGarbage \/ SwitchCrash \/ SwitchOverflow
  <2>1. /\ UNCHANGED <<queueVars, active, state, tableVars, waitVars>>
        /\ cpu' \in Stopped
    BY <1>1
       DEF SwitchEmpty, SwitchGarbage, SwitchCrash, SwitchOverflow, Stop, Stopped
  <2>2. QueuedOnce' /\ Queued' = Queued
    BY <2>1, <1>t, QueueUnchanged
  <2>3. /\ SlotsSound'
        /\ ReportsAreReapable'
        /\ \A s \in Slots : Live(s)' <=> Live(s)
    BY <2>1, TableUnchanged DEF waitVars
  <2> QED
    BY <1>t, <2>1, <2>2, <2>3
       DEF RunQueueSound, QueueSound, ActiveSound, InUser, Stopped
<1>2. CASE SwitchSkip \/ SwitchWaitAgain \/ SwitchDieAgain
  <2>1. /\ proc_start # proc_end
        /\ Dequeue \/ Requeue
        /\ UNCHANGED <<active, cpu, state, tableVars, waitVars>>
    BY <1>2
       DEF SwitchSkip, SwitchWaitAgain, SwitchDieAgain, Resumable, Next_proc
  <2>2. QueuedOnce' /\ Queued' \subseteq Queued
    BY <2>1, <1>t, DequeueEntry, RequeueEntry
  <2>3. /\ SlotsSound'
        /\ ReportsAreReapable'
        /\ \A s \in Slots : Live(s)' <=> Live(s)
    BY <2>1, TableUnchanged DEF waitVars
  <2> QED
    BY <1>t, <1>u, <2>1, <2>2, <2>3
       DEF RunQueueSound, QueueSound, ActiveSound, InUser, InSwitch
<1>3. CASE SwitchRun
  <2>1. PICK s \in Slots : /\ Next_proc(s)
                           /\ waitstate[s] = 0
                           /\ Dequeue
                           /\ active' = s
                           /\ UNCHANGED <<state, tableVars, waitVars>>
    BY <1>3 DEF SwitchRun, Resumable
  <2>2. QueuedOnce' /\ Queued' = Queued \ {s}
    BY <2>1, <1>t, DequeueEntry DEF Next_proc
  <2>3. s \in Queued /\ Live(s)
    BY <2>1, HeadIsLive
  <2>4. /\ SlotsSound'
        /\ ReportsAreReapable'
        /\ \A r \in Slots : Live(r)' <=> Live(r)
    BY <2>1, TableUnchanged DEF waitVars
  <2> QED
    BY <1>t, <2>1, <2>2, <2>3, <2>4
       DEF RunQueueSound, QueueSound, ActiveSound, waitVars
<1>4. CASE SwitchReap
  <2>1. PICK s \in Slots, i \in Slots :
           /\ Next_proc(s)
           /\ ChildReported(s)
           /\ Holds(i, signalling_child[s])
           /\ Dequeue
           /\ active' = s
           /\ proc_descriptor' = [proc_descriptor EXCEPT ![sno[i]] = 0]
           /\ state' = [state EXCEPT ![i] = NEW_PROC]
           /\ sno' = [sno EXCEPT ![i] = 0]
           /\ pid' = [pid EXCEPT ![i] = 0]
           /\ ppid' = [ppid EXCEPT ![i] = 0]
           /\ waitstate' = [waitstate EXCEPT ![s] = 0, ![i] = 0]
           /\ signalling_child' = [signalling_child EXCEPT ![i] = 0]
           /\ sigchild_state' = [sigchild_state EXCEPT ![i] = 0, ![s] = DEAD]
    BY <1>4 DEF SwitchReap, Resumable, FreedSlot
  <2>2. s \in Queued /\ Live(s) /\ sigchild_state[s] = 0
    BY <2>1, HeadIsLive DEF ChildReported
  <2>3. /\ proc_descriptor[i] = 1
        /\ sno[i] = i
        /\ state[i] = ZOMBIE
        /\ ppid[i] = pid[s]
    BY <2>1, <2>2, ReportedChild
  <2>4. i # s /\ ~Live(i)
    BY <2>2, <2>3 DEF Live, RUNNING, ZOMBIE
  <2>5. \A r \in Slots : Live(r)' <=> Live(r)
    BY <2>1, <2>3, <2>4, <1>t DEF Live, TypeOK, RUNNING, NEW_PROC
  <2>6. QueuedOnce' /\ Queued' = Queued \ {s}
    BY <2>1, <1>t, DequeueEntry DEF Next_proc
  <2>7. SlotsSound'
    BY <2>1, <2>3, <1>t DEF SlotsSound, TypeOK
  <2>8. ASSUME NEW r \in Slots, Live(r)', sigchild_state'[r] = 0
        PROVE  \E j \in Slots : /\ pid'[j] = signalling_child'[r]
                                /\ proc_descriptor'[j] = 1
                                /\ sno'[j] = j
                                /\ state'[j] = ZOMBIE
                                /\ ppid'[j] = pid'[r]
    <3>1. /\ Live(r)
          /\ r # i
          /\ r # s
          /\ sigchild_state[r] = 0
      BY <2>1, <2>4, <2>5, <2>8, <1>t DEF TypeOK, DEAD
    <3>2. PICK j \in Slots : /\ pid[j] = signalling_child[r]
                             /\ proc_descriptor[j] = 1
                             /\ sno[j] = j
                             /\ state[j] = ZOMBIE
                             /\ ppid[j] = pid[r]
      BY <3>1, <1>t DEF ReportsAreReapable
    <3>3. j # i
      <4>1. pid[r] # pid[s]
        BY <2>2, <3>1, <1>t DEF SlotsSound, Live, QInv, PidsUnique
      <4> QED
        BY <2>3, <3>2, <4>1
    <3> QED
      BY <2>1, <2>3, <3>1, <3>2, <3>3, <1>t DEF TypeOK
  <2>9. ReportsAreReapable'
    BY <2>8 DEF ReportsAreReapable
  <2> QED
    BY <1>t, <2>1, <2>2, <2>4, <2>5, <2>6, <2>7, <2>9
       DEF RunQueueSound, QueueSound, ActiveSound, TypeOK
<1>5. CASE kill_proc
  <2>1. PICK s \in Slots, i \in Slots :
           /\ Next_proc(s)
           /\ BinaryEnded(s)
           /\ Holds(i, signalling_child[s])
           /\ Dequeue
           /\ state' = [state EXCEPT ![s] = ZOMBIE, ![i] = DEAD]
           /\ NotifyParent(ppid[s], 0, pid[s])
           /\ proc_descriptor' = [proc_descriptor EXCEPT ![sno[i]] = 0]
           /\ UNCHANGED <<active, cpu, sno, pid, ppid>>
    BY <1>5 DEF kill_proc, Resumable, FreedSlot
  <2>2. s \in Queued /\ Live(s) /\ sigchild_state[s] = 0
    BY <2>1, HeadIsLive DEF BinaryEnded
  <2>3. /\ proc_descriptor[i] = 1
        /\ sno[i] = i
        /\ state[i] = ZOMBIE
        /\ ppid[i] = pid[s]
    BY <2>1, <2>2, ReportedChild
  <2>4. i # s /\ ~Live(i)
    BY <2>2, <2>3 DEF Live, RUNNING, ZOMBIE
  <2>5. \A r \in Slots : Live(r)' <=> Live(r) /\ r # s
    BY <2>1, <2>3, <2>4, <1>t DEF Live, TypeOK, RUNNING, ZOMBIE, DEAD
  <2>6. QueuedOnce' /\ Queued' = Queued \ {s}
    BY <2>1, <1>t, DequeueEntry DEF Next_proc
  <2>7. SlotsSound'
    BY <2>1, <2>3, <1>t DEF SlotsSound, TypeOK
  <2>8. state'[s] = ZOMBIE /\ proc_descriptor'[s] = 1
    BY <2>1, <2>2, <2>3, <2>4, <1>t DEF TypeOK, Live
  <2>9. ASSUME NEW r \in Slots, Live(r)', NEW j \in Slots,
               state[j] = ZOMBIE, proc_descriptor[j] = 1, ppid[j] = pid[r]
        PROVE  state'[j] = ZOMBIE /\ proc_descriptor'[j] = 1
    <3>1. Live(r) /\ r # s
      BY <2>5, <2>9
    <3>2. pid[r] # pid[s]
      BY <2>2, <3>1, <1>t DEF SlotsSound, Live, QInv, PidsUnique
    <3>3. j # i
      BY <2>3, <2>9, <3>2
    <3> QED
      BY <2>1, <2>3, <2>9, <3>3, <1>t DEF TypeOK
  <2>10. ReportsAreReapable'
    BY <2>1, <2>2, <2>5, <2>8, <2>9, ZombieReports
  <2> QED
    BY <1>t, <1>u, <2>1, <2>5, <2>6, <2>7, <2>10
       DEF RunQueueSound, QueueSound, ActiveSound, InUser, InSwitch
<1> QED
  BY <1>1, <1>2, <1>3, <1>4, <1>5 DEF SwitchStep

\* Every step without kill keeps the invariant.
LEMMA QStep == QInv /\ [NoKillNext]_vars => QInv'
<1> SUFFICES ASSUME QInv, [NoKillNext]_vars
             PROVE  QInv'
  OBVIOUS
<1>1. TInv' /\ PidsUnique'
  BY TypeStep, PidsStep DEF QInv, Next
<1>2. CASE UserStep \/ ExecNotFound \/ SwitchStep
  BY <1>1, <1>2, QUserStep, QSwitchStep DEF QRest, QInv
<1>3. CASE UNCHANGED vars
  <2>1. UNCHANGED <<queueVars, active, cpu, state, tableVars, waitVars>>
    BY <1>3 DEF vars
  <2>2. QueuedOnce' /\ Queued' = Queued
    BY <2>1, QueueUnchanged DEF QInv, RunQueueSound
  <2>3. /\ SlotsSound'
        /\ ReportsAreReapable'
        /\ \A s \in Slots : Live(s)' <=> Live(s)
    BY <2>1, TableUnchanged DEF waitVars
  <2> QED
    BY <1>1, <2>1, <2>2, <2>3
       DEF QInv, RunQueueSound, QueueSound, ActiveSound, InUser, waitVars
<1> QED
  BY <1>2, <1>3 DEF NoKillNext, CoreNext, Halted

-----------------------------------------------------------------------------
(* The theorems. *)

\* The invariant of the run queue.
LEMMA QInvariant == NoKillSpec => []QInv
BY QInit, QStep, PTL DEF NoKillSpec

\* As long as nobody calls kill, the run queue holds every process at most
\* once, only processes that can run, and not the running one.
THEOREM RunQueueIsSound == NoKillSpec => []RunQueueSound
BY QInvariant, PTL DEF QInv

\* The ring never overflows, although only syscall_fork looks before it
\* stores: a full ring would hold PROC_SIZE distinct slots without active.
THEOREM RingIsNeverFull == NoKillSpec => []RingNeverFull
<1>1. QInv => RingNeverFull
  <2> SUFFICES ASSUME QInv, active # NULL
               PROVE  ~RingFull
    BY DEF RingNeverFull
  <2> QED
    BY RoomForActive DEF QInv, TInv, TypeOK, RunQueueSound
<1> QED
  BY <1>1, QInvariant, PTL

\* The child that syscall_wait or kill_proc releases has exited, is a child
\* of the releasing process and still holds its slot: no search by pid runs
\* past the table, and no running process loses its slot.
THEOREM ReportsNameZombieChildren == NoKillSpec => []ReportsAreReapable
BY QInvariant, PTL DEF QInv

-----------------------------------------------------------------------------
(* No step drops a process. *)

\* A scheduled process that lives on is running or queued after the step.
LEMMA Keeps ==
    ASSUME QInv, NoKillNext, NEW s \in Slots, Scheduled(s), Live(s)'
    PROVE  s = active' \/ s \in Queued'
<1>t. TypeOK /\ QueuedOnce /\ QueueSound /\ SlotsSound
  BY DEF QInv, TInv, RunQueueSound
<1>u. InUser => /\ active \in Slots
                /\ active \notin Queued
                /\ ~RingFull
  BY <1>t, RoomForActive DEF QInv, RunQueueSound, QueueSound, ActiveSound
<1>w. InSwitch => s \in Queued
  BY SlotFacts DEF InSwitch, QInv, TInv, CpuOwner, Scheduled
<1>1. ASSUME InUser, Enqueue(active)
      PROVE  s \in Queued'
  BY <1>1, <1>t, <1>u, EnqueueEntry DEF Scheduled
<1>2. ASSUME UNCHANGED <<queueVars, active>>
      PROVE  s = active' \/ s \in Queued'
  BY <1>2, <1>t, QueueUnchanged DEF Scheduled
<1>3. ASSUME NEW status, Exit(status)
      PROVE  s \in Queued'
  <2>1. s # active
    BY <1>3, <1>t, <1>u DEF Exit, Live, TypeOK, RUNNING, ZOMBIE
  <2> QED
    BY <1>3, <1>t, <2>1, QueueUnchanged DEF Exit, Scheduled
<1>4. CASE UserStep \/ ExecNotFound
  BY <1>1, <1>2, <1>3, <1>4
     DEF UserStep, Yield, Wait, Fork, ForkHangs, Exec, ExecNotFound,
         CreateOverflows, CreateOverruns, Stop
<1>5. ASSUME SwitchSkip
      PROVE  FALSE
  <2>1. PICK r \in Slots : Next_proc(r) /\ ~Accepts(r)
    BY <1>5 DEF SwitchSkip
  <2>2. Live(r)
    BY <2>1, HeadIsLive
  <2> QED
    BY <1>t, <2>1, <2>2 DEF Accepts, Live, SlotsSound
<1>6. ASSUME SwitchWaitAgain \/ SwitchDieAgain
      PROVE  s \in Queued'
  <2>1. proc_start # proc_end /\ Requeue /\ InSwitch
    BY <1>6 DEF SwitchWaitAgain, SwitchDieAgain, Resumable, Next_proc
  <2> QED
    BY <1>t, <1>w, <2>1, RequeueEntry
<1>7. ASSUME SwitchRun \/ SwitchReap \/ kill_proc
      PROVE  s = active' \/ s \in Queued'
  <2>1. PICK r \in Slots : /\ Next_proc(r)
                           /\ Dequeue
                           /\ active' = r \/ ~Live(r)'
    <3>1. CASE SwitchRun \/ SwitchReap
      BY <3>1 DEF SwitchRun, SwitchReap, Resumable
    <3>2. CASE kill_proc
      BY <3>2, <1>t DEF kill_proc, Resumable, Live, TypeOK, RUNNING, ZOMBIE, DEAD
    <3> QED
      BY <1>7, <3>1, <3>2
  <2>2. Queued' = Queued \ {r} /\ InSwitch
    BY <1>t, <2>1, DequeueEntry DEF Next_proc
  <2> QED
    BY <1>w, <2>1, <2>2
<1>8. CASE SwitchStep
  BY <1>2, <1>5, <1>6, <1>7, <1>8
     DEF SwitchStep, SwitchEmpty, SwitchGarbage, SwitchCrash, SwitchOverflow, Stop
<1>9. CASE Halted
  BY <1>2, <1>9 DEF Halted, vars
<1> QED
  BY <1>4, <1>8, <1>9 DEF NoKillNext, CoreNext

\* A process on the CPU or in the queue stays on one of them until it exits
\* or is released: exit, wait, exec, a failed exec and every turn of
\* syscall_switch put back what they take.
THEOREM NoProcessIsLost == NoKillSpec => NoProcessLost
<1>1. ASSUME QInv, [NoKillNext]_vars
      PROVE  [\A s \in Slots : Scheduled(s) /\ Live(s)' /\ pid'[s] = pid[s]
                                 => Scheduled(s)']_vars
  <2> SUFFICES ASSUME NoKillNext, NEW s \in Slots, Scheduled(s), Live(s)'
               PROVE  Scheduled(s)'
    BY <1>1
  <2>1. s = active' \/ s \in Queued'
    BY <1>1, Keeps
  <2> QED
    BY <2>1 DEF Scheduled
<1> QED
  BY <1>1, QInvariant, PTL DEF NoKillSpec, NoProcessLost
=============================================================================
