----------------------------- MODULE Scheduler -----------------------------
(***************************************************************************)
(* The process table, the run queue and the process system calls of the    *)
(* kernel: sys/task_manager.c and the process half of sys/syscall.c.       *)
(*                                                                         *)
(* The machine has one CPU and system calls run with interrupts off (int   *)
(* 0x80 is an interrupt gate), so a handler is interleaved with nothing    *)
(* until it reaches syscall_switch.  syscall_switch is a loop: it takes    *)
(* one entry off the run queue, and a sleeping waiter or a process that    *)
(* exec'ed is put straight back.  Each turn of that loop is one action     *)
(* here, and while cpu = "switch" nothing but that loop can move.          *)
(*                                                                         *)
(* A PCB field is a function from process-table slots.  A process is       *)
(* named by its slot, as in proc_Q; pids are what wait, exit and kill use. *)
(***************************************************************************)
EXTENDS Integers, FiniteSets

CONSTANTS
    PROC_SIZE,   \* entries of the process table (100 in task_manager.h)
    MaxPid,      \* bound: the largest pid global_pid hands out
    Statuses     \* the exit statuses programs use

ASSUME ProcSizeAssumption == PROC_SIZE \in Nat /\ PROC_SIZE > 1
ASSUME MaxPidAssumption == MaxPid \in Nat /\ MaxPid > 0
ASSUME StatusesAssumption == Statuses \subseteq Nat

VARIABLES
    proc_Q,           \* the ring of slots waiting for the CPU
    proc_start,       \* its first entry
    proc_end,         \* the entry after its last
    active,           \* the slot whose process owns the CPU, or NULL
    global_pid,       \* the next pid
    proc_descriptor,  \* 1 for a slot in use
    sno, pid, ppid, state, waitstate, waitingfor,
    signalling_child, \* the child that last reported to this process
    sigchild_state,   \* and what it reported
    kstack,           \* whether the slot's kernel stack still holds its context
    cpu               \* what the CPU is executing

queueVars == <<proc_Q, proc_start, proc_end>>
tableVars == <<global_pid, proc_descriptor, sno, pid, ppid, kstack>>
waitVars  == <<waitstate, waitingfor, signalling_child, sigchild_state>>
vars == <<queueVars, active, cpu, state, tableVars, waitVars>>

Slots == 0..(PROC_SIZE - 1)
Ring  == 0..PROC_SIZE
NULL  == -1

\* Process states and wait states (task_manager.h).
NEW_PROC == 0
RUNNING  == 1
ZOMBIE   == 2
DEAD     == 5
WAITING_TO_LIVE == 1
WAITING_TO_DIE  == 2
ANY_CHILD == -1

\* The ways the machine stops: a while(1) in a handler, a triple fault or a
\* return into a destroyed stack, a write past the end of the process table.
Stopped == {"hung", "crashed", "corrupt"}

\* Mutants of Inc: no modulus, and the modulus PROC_SIZE.
IncUnwrapped(i) == i + 1

IncShortRing(i) == IF i >= PROC_SIZE - 1 THEN 0 ELSE i + 1

\* (i + 1) % (PROC_SIZE + 1) on an index of the ring.
Inc(i) == IF i = PROC_SIZE THEN 0 ELSE i + 1

\* The indices of a ring that starts at st and ends before en.
Between(st, en) == {i \in Ring : IF st <= en THEN st <= i /\ i < en
                                 ELSE st <= i \/ i < en}

\* The indices that hold an entry of the run queue.
Occupied == Between(proc_start, proc_end)

Queued == {proc_Q[i] : i \in Occupied}

\* for(i=0;i<PROC_SIZE;i++) if(proc_descriptor[i]==0) break;
FirstFree(i) == /\ proc_descriptor[i] = 0
                /\ \A j \in Slots : j < i => proc_descriptor[j] # 0

TableFull == \A i \in Slots : proc_descriptor[i] # 0

\* for(i=0;i<PROC_SIZE;i++) if(all_pro[i].pid==p) break;
Holds(i, p) == /\ pid[i] = p
               /\ \A j \in Slots : j < i => pid[j] # p

Unheld(p) == \A i \in Slots : pid[i] # p

TypeOK ==
    /\ proc_Q \in [Ring -> Slots \union {NULL}]
    /\ proc_start \in Ring
    /\ proc_end \in Ring
    /\ active \in Slots \union {NULL}
    /\ global_pid \in 1..(MaxPid + 1)
    /\ proc_descriptor \in [Slots -> {0, 1}]
    /\ sno \in [Slots -> Slots]
    /\ pid \in [Slots -> 0..MaxPid]
    /\ ppid \in [Slots -> 0..MaxPid]
    /\ state \in [Slots -> {NEW_PROC, RUNNING, ZOMBIE, DEAD}]
    /\ waitstate \in [Slots -> {0, WAITING_TO_LIVE, WAITING_TO_DIE}]
    /\ waitingfor \in [Slots -> {ANY_CHILD} \union 0..MaxPid]
    /\ signalling_child \in [Slots -> 0..MaxPid]
    /\ sigchild_state \in [Slots -> {0, RUNNING, DEAD} \union Statuses]
    /\ kstack \in [Slots -> {"intact", "zeroed"}]
    /\ cpu \in {"user", "switch"} \union Stopped

-----------------------------------------------------------------------------
(* Boot. *)

\* init_proc: slot 0 holds pid 1, bin/sbush, which runs; every other slot is
\* zeroed memory.  The entry it queues is taken off again at once.
Init ==
    /\ proc_Q = [i \in Ring |-> IF i = 0 THEN 0 ELSE NULL]
    /\ proc_start = 1
    /\ proc_end = 1
    /\ active = 0
    /\ global_pid = 2
    /\ proc_descriptor = [s \in Slots |-> IF s = 0 THEN 1 ELSE 0]
    /\ sno = [s \in Slots |-> 0]
    /\ pid = [s \in Slots |-> IF s = 0 THEN 1 ELSE 0]
    /\ ppid = [s \in Slots |-> 0]
    /\ state = [s \in Slots |-> IF s = 0 THEN RUNNING ELSE NEW_PROC]
    /\ waitstate = [s \in Slots |-> 0]
    /\ waitingfor = [s \in Slots |-> 0]
    /\ signalling_child = [s \in Slots |-> 0]
    /\ sigchild_state = [s \in Slots |-> IF s = 0 THEN DEAD ELSE 0]
    /\ kstack = [s \in Slots |-> "intact"]
    /\ cpu = "user"

-----------------------------------------------------------------------------
(* The run queue. *)

\* proc_Q[proc_end]=s; proc_end=(proc_end + 1)%(PROC_SIZE + 1);  No caller
\* but syscall_fork looks whether the ring is full.
Enqueue(s) ==
    /\ proc_Q' = [proc_Q EXCEPT ![proc_end] = s]
    /\ proc_end' = Inc(proc_end)
    /\ UNCHANGED proc_start

\* get_nextproc takes the head of the queue, and only that.
Dequeue ==
    /\ proc_Q' = [proc_Q EXCEPT ![proc_start] = NULL]
    /\ proc_start' = Inc(proc_start)
    /\ UNCHANGED proc_end

\* Mutants of Requeue: the head is also left where it was, is not put back,
\* or is put back at the front.
RequeueTwice ==
    /\ proc_Q' = [proc_Q EXCEPT ![proc_end] = proc_Q[proc_start]]
    /\ proc_end' = Inc(proc_end)
    /\ UNCHANGED proc_start

RequeueNever == Dequeue

RequeueInFront == UNCHANGED queueVars

\* get_nextproc takes the head, and syscall_switch puts it back at the tail.
Requeue ==
    /\ proc_Q' = [proc_Q EXCEPT ![proc_start] = NULL,
                                ![proc_end] = proc_Q[proc_start]]
    /\ proc_start' = Inc(proc_start)
    /\ proc_end' = Inc(proc_end)

head == proc_Q[proc_start]

\* The test get_nextproc applies to the entry it took.  temp->sno is 0 in a
\* PCB that syscall_wait has zeroed.
Accepts(s) == /\ proc_descriptor[sno[s]] = 1
              /\ state[s] \in {RUNNING, NEW_PROC}

-----------------------------------------------------------------------------
(* System calls of the running process. *)

InUser == cpu = "user"

\* The handler stops the machine.
Stop(how) ==
    /\ cpu' = how
    /\ UNCHANGED <<queueVars, active, state, tableVars, waitVars>>

\* syscall_switch called by a process that does not wait.
Yield ==
    /\ InUser
    /\ Enqueue(active)
    /\ state' = [state EXCEPT ![active] = RUNNING]
    /\ active' = NULL
    /\ cpu' = "switch"
    /\ UNCHANGED <<tableVars, waitVars>>

\* Mutant of NotifyParent: the reporting child is not recorded.
NotifyStatusOnly(pp, status, child) ==
    /\ sigchild_state' = [s \in Slots |-> IF Holds(s, pp) THEN status
                                          ELSE sigchild_state[s]]
    /\ UNCHANGED signalling_child

\* sigchild_state and signalling_child of the first slot whose pid is pp.
NotifyParent(pp, status, child) ==
    /\ sigchild_state' = [s \in Slots |-> IF Holds(s, pp) THEN status
                                          ELSE sigchild_state[s]]
    /\ signalling_child' = [s \in Slots |-> IF Holds(s, pp) THEN child
                                            ELSE signalling_child[s]]

\* Mutants of Exit: without the call of syscall_switch, and with the slot
\* freed at once.
ExitReturns(status) ==
    /\ InUser
    /\ active # 0
    /\ state' = [state EXCEPT ![active] = ZOMBIE]
    /\ NotifyParent(ppid[active], status, pid[active])
    /\ UNCHANGED <<queueVars, active, cpu, tableVars, waitstate, waitingfor>>

ExitFreesSlot(status) ==
    /\ InUser
    /\ active # 0
    /\ state' = [state EXCEPT ![active] = ZOMBIE]
    /\ proc_descriptor' = [proc_descriptor EXCEPT ![active] = 0]
    /\ NotifyParent(ppid[active], status, pid[active])
    /\ active' = NULL
    /\ cpu' = "switch"
    /\ UNCHANGED <<queueVars, global_pid, sno, pid, ppid, kstack, waitstate,
                   waitingfor>>

\* syscall_exit.  bin/sbush in slot 0 loops for ever and never exits.
Exit(status) ==
    /\ InUser
    /\ active # 0
    /\ state' = [state EXCEPT ![active] = ZOMBIE]
    /\ NotifyParent(ppid[active], status, pid[active])
    /\ active' = NULL
    /\ cpu' = "switch"
    /\ UNCHANGED <<queueVars, tableVars, waitstate, waitingfor>>

\* Mutant of LiveChild: any child will do, whichever is waited for.
LiveChildOfAnyPid(id) == \E i \in Slots : /\ proc_descriptor[i] = 1
                                          /\ ppid[i] = pid[active]

\* check_live_child: a zombie counts, and so does any slot in use.
LiveChild(id) == \E i \in Slots : /\ proc_descriptor[i] = 1
                                  /\ ppid[i] = pid[active]
                                  /\ id \in {ANY_CHILD, pid[i]}

\* syscall_wait up to the first do_wait.  Without a child it returns 0 and
\* changes nothing.
Wait(id) ==
    /\ InUser
    /\ LiveChild(id)
    /\ waitstate' = [waitstate EXCEPT ![active] = WAITING_TO_LIVE]
    /\ waitingfor' = [waitingfor EXCEPT ![active] = id]
    /\ Enqueue(active)
    /\ state' = [state EXCEPT ![active] = RUNNING]
    /\ active' = NULL
    /\ cpu' = "switch"
    /\ UNCHANGED <<tableVars, signalling_child, sigchild_state>>

\* create_kstack: the loop steps both i and top, so that it zeroes every
\* second byte of 4 pages, its own two and the two of the slot above.
create_kstack(i) ==
    [s \in Slots |-> IF s = i THEN "intact"
                     ELSE IF s = i + 1 THEN "zeroed"
                     ELSE kstack[s]]

\* Mutant of NextPid.
SamePid == global_pid

\* global_pid++
NextPid == global_pid + 1

\* create_new_process and what fork and exec set beside it: the child's PCB
\* in slot i.  The waiter's fields are set by the callers.
NewProcess(i) ==
    /\ global_pid <= MaxPid
    /\ global_pid' = NextPid
    /\ proc_descriptor' = [proc_descriptor EXCEPT ![i] = 1]
    /\ sno' = [sno EXCEPT ![i] = i]
    /\ pid' = [pid EXCEPT ![i] = global_pid]
    /\ ppid' = [ppid EXCEPT ![i] = pid[active]]
    /\ kstack' = create_kstack(i)
    /\ state' = [state EXCEPT ![i] = RUNNING]
    /\ signalling_child' = [signalling_child EXCEPT ![i] = 0]

RingFull == Inc(proc_end) = proc_start

\* syscall_fork.  The child runs at once and the parent is queued.  The
\* parent's sigchild_state is overwritten with the child's state.
Fork ==
    /\ InUser
    /\ ~RingFull
    /\ \E i \in Slots :
         /\ FirstFree(i)
         /\ active # i + 1
         /\ NewProcess(i)
         /\ waitstate' = [waitstate EXCEPT ![i] = 0]
         /\ waitingfor' = [waitingfor EXCEPT ![i] = 0]
         /\ sigchild_state' = [sigchild_state EXCEPT ![i] = DEAD,
                                                     ![active] = RUNNING]
         /\ Enqueue(active)
         /\ active' = i
    /\ UNCHANGED cpu

\* kprintf("child can not be queued\n"); while(1);
ForkHangs == InUser /\ RingFull /\ Stop("hung")

\* syscall_exec: the binary runs in a new process, and the caller waits in
\* the queue to die with it.
Exec ==
    /\ InUser
    /\ active # 0
    /\ \E i \in Slots :
         /\ FirstFree(i)
         /\ active # i + 1
         /\ NewProcess(i)
         /\ waitstate' = [waitstate EXCEPT ![i] = 0, ![active] = WAITING_TO_DIE]
         /\ waitingfor' = [waitingfor EXCEPT ![i] = 0, ![active] = global_pid]
         /\ sigchild_state' = [sigchild_state EXCEPT ![i] = DEAD]
         /\ Enqueue(active)
         /\ active' = i
    /\ UNCHANGED cpu

\* syscall_exec when no path holds the file: page table and stack are
\* restored and the call returns 0.  The slot taken for the binary stays.
ExecNotFound ==
    /\ InUser
    /\ active # 0
    /\ \E i \in Slots :
         /\ FirstFree(i)
         /\ active # i + 1
         /\ NewProcess(i)
         /\ waitstate' = [waitstate EXCEPT ![i] = 0]
         /\ waitingfor' = [waitingfor EXCEPT ![i] = 0]
         /\ sigchild_state' = [sigchild_state EXCEPT ![i] = DEAD]
    /\ UNCHANGED <<queueVars, active, cpu>>

\* fork or exec with every slot in use: i is PROC_SIZE, and the PCB and the
\* descriptor are written past the end of their arrays.
CreateOverflows ==
    /\ InUser
    /\ active # 0 \/ ~RingFull
    /\ TableFull
    /\ Stop("corrupt")

\* fork or exec by the process in the slot above the one it takes:
\* create_kstack zeroes the stack it is running on and returns into it.
CreateOverruns ==
    /\ InUser
    /\ active # 0
    /\ FirstFree(active - 1)
    /\ Stop("crashed")

-----------------------------------------------------------------------------
(* syscall_kill. *)

\* The indices that the loop walking down from sno to proc_start overwrites.
\* It uses the slot number as an index of the ring, and skips index 0.
Shifted(t) == IF proc_start <= t THEN (proc_start + 1)..t
              ELSE 1..t \union (proc_start + 1)..PROC_SIZE

RemoveFromQueue(t) ==
    /\ proc_Q' = [i \in Ring |-> IF i \in Shifted(t) THEN proc_Q[i - 1]
                                 ELSE proc_Q[i]]
    /\ proc_start' = Inc(proc_start)
    /\ UNCHANGED proc_end

\* The process holding pid p is killed by another one (libc's kill refuses
\* pid 1; sbush runs bin/kill in a process of its own).
Kill(p) ==
    /\ InUser
    /\ active # 0
    /\ p # pid[active]
    /\ \E t \in Slots :
         /\ Holds(t, p)
         /\ state' = [state EXCEPT ![t] = DEAD]
         /\ proc_descriptor' = [proc_descriptor EXCEPT ![t] = 0]
         /\ NotifyParent(ppid[t], 0, p)
         /\ RemoveFromQueue(t)
    /\ UNCHANGED <<active, cpu, global_pid, sno, pid, ppid, kstack,
                   waitstate, waitingfor>>

\* kill of a pid that no slot holds: sno is PROC_SIZE, past the table.
KillUnheld(p) ==
    /\ InUser
    /\ active # 0
    /\ Unheld(p)
    /\ Stop("corrupt")

-----------------------------------------------------------------------------
(* syscall_switch: one turn per entry of the queue. *)

InSwitch == cpu = "switch"

\* "0 process in the queue": get_nextproc returns NULL and cr3 is loaded
\* with the 0 found at address 0.
SwitchEmpty == InSwitch /\ proc_start = proc_end /\ Stop("crashed")

\* An entry -1: all_pro[-1] is whatever lies before the table.
SwitchGarbage ==
    /\ InSwitch
    /\ proc_start # proc_end
    /\ head = NULL
    /\ Stop("corrupt")

\* The head of the queue is the slot s.
Next_proc(s) == InSwitch /\ proc_start # proc_end /\ head = s

SwitchSkip ==
    \E s \in Slots :
      /\ Next_proc(s)
      /\ ~Accepts(s)
      /\ Dequeue
      /\ UNCHANGED <<active, cpu, state, tableVars, waitVars>>

\* A zeroed PCB has cr3 0; a context on a zeroed kernel stack cannot be
\* resumed.  A process waiting to die never returns to its stack.
SwitchCrash ==
    \E s \in Slots :
      /\ Next_proc(s)
      /\ Accepts(s)
      /\ \/ state[s] = NEW_PROC
         \/ kstack[s] = "zeroed" /\ waitstate[s] # WAITING_TO_DIE
      /\ Stop("crashed")

Resumable(s) == Next_proc(s) /\ Accepts(s) /\ state[s] = RUNNING

\* The iretq into a process that does not wait.
SwitchRun ==
    \E s \in Slots :
      /\ Resumable(s)
      /\ waitstate[s] = 0
      /\ kstack[s] = "intact"
      /\ Dequeue
      /\ active' = s
      /\ cpu' = "user"
      /\ UNCHANGED <<state, tableVars, waitVars>>

\* The condition of the loop in syscall_wait.
ChildReported(s) == /\ sigchild_state[s] = 0
                    /\ waitingfor[s] \in {ANY_CHILD, signalling_child[s]}

\* A waiter resumes in its do_wait and goes round the loop.
SwitchWaitAgain ==
    \E s \in Slots :
      /\ Resumable(s)
      /\ waitstate[s] = WAITING_TO_LIVE
      /\ kstack[s] = "intact"
      /\ ~ChildReported(s)
      /\ Requeue
      /\ UNCHANGED <<active, cpu, state, tableVars, waitVars>>

\* Mutants of FreedSlot: the PCB is zeroed before its sno is read, and the
\* index has moved on.
FreedAfterZeroing(i) == 0

FreedNext(i) == i + 1

\* The slot that is freed for the PCB i: proc_descriptor[all_pro[i].sno]=0
FreedSlot(i) == sno[i]

\* A waiter whose child has reported leaves syscall_wait: the child's slot
\* is freed and its PCB zeroed.
SwitchReap ==
    \E s, i \in Slots :
      /\ Resumable(s)
      /\ waitstate[s] = WAITING_TO_LIVE
      /\ kstack[s] = "intact"
      /\ ChildReported(s)
      /\ Holds(i, signalling_child[s])
      /\ Dequeue
      /\ active' = s
      /\ cpu' = "user"
      /\ proc_descriptor' = [proc_descriptor EXCEPT ![FreedSlot(i)] = 0]
      /\ state' = [state EXCEPT ![i] = NEW_PROC]
      /\ sno' = [sno EXCEPT ![i] = 0]
      /\ pid' = [pid EXCEPT ![i] = 0]
      /\ ppid' = [ppid EXCEPT ![i] = 0]
      /\ waitstate' = [waitstate EXCEPT ![s] = 0, ![i] = 0]
      /\ waitingfor' = [waitingfor EXCEPT ![i] = 0]
      /\ signalling_child' = [signalling_child EXCEPT ![i] = 0]
      /\ sigchild_state' = [sigchild_state EXCEPT ![i] = 0, ![s] = DEAD]
      /\ UNCHANGED <<global_pid, kstack>>

\* Mutant of BinaryEnded: the process compares with its own pid.
BinaryEndedItself(s) == signalling_child[s] = pid[s] /\ sigchild_state[s] = 0

\* The condition under which a process waiting to die calls kill_proc.
BinaryEnded(s) == /\ signalling_child[s] = waitingfor[s]
                  /\ sigchild_state[s] = 0

SwitchDieAgain ==
    \E s \in Slots :
      /\ Resumable(s)
      /\ waitstate[s] = WAITING_TO_DIE
      /\ ~BinaryEnded(s)
      /\ Requeue
      /\ UNCHANGED <<active, cpu, state, tableVars, waitVars>>

\* kill_proc: the process that exec'ed becomes a zombie, its parent is told
\* that it exited with 0, and the slot of the binary is freed.
kill_proc ==
    \E s, i \in Slots :
      /\ Resumable(s)
      /\ waitstate[s] = WAITING_TO_DIE
      /\ BinaryEnded(s)
      /\ Holds(i, signalling_child[s])
      /\ Dequeue
      /\ state' = [state EXCEPT ![s] = ZOMBIE, ![i] = DEAD]
      /\ NotifyParent(ppid[s], 0, pid[s])
      /\ proc_descriptor' = [proc_descriptor EXCEPT ![FreedSlot(i)] = 0]
      /\ UNCHANGED <<active, cpu, global_pid, sno, pid, ppid, kstack,
                     waitstate, waitingfor>>

\* The search for the child's slot finds none: i is PROC_SIZE, and the slot
\* past the table is marked DEAD, and in syscall_wait zeroed.
SwitchOverflow ==
    \E s \in Slots :
      /\ Resumable(s)
      /\ \/ /\ waitstate[s] = WAITING_TO_LIVE
            /\ kstack[s] = "intact"
            /\ ChildReported(s)
         \/ waitstate[s] = WAITING_TO_DIE /\ BinaryEnded(s)
      /\ Unheld(signalling_child[s])
      /\ Stop("corrupt")

-----------------------------------------------------------------------------
(* The specifications. *)

SwitchStep == \/ SwitchEmpty
              \/ SwitchGarbage
              \/ SwitchSkip
              \/ SwitchCrash
              \/ SwitchRun
              \/ SwitchWaitAgain
              \/ SwitchReap
              \/ SwitchDieAgain
              \/ kill_proc
              \/ SwitchOverflow

UserStep == \/ Yield
            \/ \E status \in Statuses : Exit(status)
            \/ \E id \in {ANY_CHILD} \union 1..MaxPid : Wait(id)
            \/ Fork
            \/ ForkHangs
            \/ Exec
            \/ CreateOverflows
            \/ CreateOverruns

KillStep == \E p \in 2..MaxPid : Kill(p) \/ KillUnheld(p)

\* The machine has stopped: while(1), or the CPU is gone.
Halted == cpu \in Stopped /\ UNCHANGED vars

\* Every exec finds its binary and nobody calls kill.
CoreNext == SwitchStep \/ UserStep \/ Halted

\* Nobody calls kill.
NoKillNext == CoreNext \/ ExecNotFound

Next == NoKillNext \/ KillStep

CoreSpec == Init /\ [][CoreNext]_vars

NoKillSpec == Init /\ [][NoKillNext]_vars

Spec == Init /\ [][Next]_vars

\* The kernel keeps executing its switch loop, and a program that has the
\* CPU goes on to its next system call: nothing preempts it, and all
\* programs of the image wait, exec or exit.
Fairness == WF_vars(SwitchStep) /\ WF_vars(UserStep)

FairCoreSpec == CoreSpec /\ Fairness

FairNoKillSpec == NoKillSpec /\ Fairness
-----------------------------------------------------------------------------
(* Properties of the kernel without kill. *)

Live(s) == proc_descriptor[s] = 1 /\ state[s] = RUNNING

\* The run queue holds each process at most once, only processes that can
\* run, and never the one that has the CPU: neither do_wait followed by
\* syscall_switch, nor the requeueing of processes waiting to die, nor the
\* reuse of slots leaves a second or a stale entry behind.
QueuedOnce == \A i, j \in Occupied : proc_Q[i] = proc_Q[j] => i = j

QueueSound == \A s \in Queued : s \in Slots /\ Live(s) /\ s # active

ActiveSound == InUser => /\ active \in Slots
                         /\ Live(active)
                         /\ waitstate[active] = 0

RunQueueSound == QueuedOnce /\ QueueSound /\ ActiveSound

\* The ring has room whenever the kernel stores into it, although only
\* syscall_fork looks: its PROC_SIZE + 1 entries never hold PROC_SIZE.
\* With it, fork's "child can not be queued" is never reached.
RingNeverFull == active # NULL => ~RingFull

\* A process that has the CPU or is queued stays so for as long as it lives:
\* no path through exit, wait, exec and the switch loop, and no exec that
\* fails, drops one.
Scheduled(s) == Live(s) /\ (s = active \/ s \in Queued)

NoProcessLost ==
    [][\A s \in Slots :
         Scheduled(s) /\ Live(s)' /\ pid'[s] = pid[s] => Scheduled(s)']_vars

\* A report that a live process has not consumed names a child of its own
\* that has exited and still holds its slot.  So the slot that syscall_wait
\* zeroes and kill_proc frees is that child's, and both searches find it.
ReportsAreReapable ==
    \A s \in Slots :
        Live(s) /\ sigchild_state[s] = 0 =>
            \E i \in Slots : /\ pid[i] = signalling_child[s]
                             /\ proc_descriptor[i] = 1
                             /\ sno[i] = i
                             /\ state[i] = ZOMBIE
                             /\ ppid[i] = pid[s]

\* A process blocked in syscall_wait waits for a child that runs, will run or
\* has exited, so that its wait can end.  sys/syscall.c:628 says of an exec
\* that does not find its binary "the stack will be restored and program will
\* return safely"; this is what safe means to the caller's next wait.
WaitedChildCanReport ==
    cpu \notin Stopped =>
        \A s \in Slots :
            Live(s) /\ waitstate[s] = WAITING_TO_LIVE =>
                \E i \in Slots : /\ proc_descriptor[i] = 1
                                 /\ ppid[i] = pid[s]
                                 /\ waitingfor[s] \in {ANY_CHILD, pid[i]}
                                 /\ \/ state[i] = ZOMBIE
                                    \/ i = active \/ i \in Queued

\* A process that is ready to run gets the CPU, however many waiters and
\* exec'ed processes go round in the queue (unless the machine stops).
ReadyRuns ==
    \A s \in Slots :
        s \in Queued /\ waitstate[s] = 0 ~> active = s \/ cpu \in Stopped

-----------------------------------------------------------------------------
(* Properties of the kernel with kill and with exec that fails. *)

\* No two slots hold the same process, pids are not handed out again, and
\* a parent is older than its child: the searches by pid cannot take one
\* process for another, even with stale PCBs left in freed slots.
PidsUnique ==
    /\ \A i, j \in Slots : pid[i] = pid[j] /\ pid[i] # 0 => i = j
    /\ \A i \in Slots : pid[i] < global_pid /\ (pid[i] # 0 => ppid[i] < pid[i])

\* The shell keeps its slot and stays runnable: freeing a slot through
\* all_pro[i].sno never frees slot 0, the sno of every zeroed PCB.
ShellAlive == proc_descriptor[0] = 1 /\ pid[0] = 1 /\ state[0] = RUNNING

\* A process that has exited or was killed never runs again: its state only
\* returns to RUNNING for a new process in its slot.
NoResurrection ==
    [][\A s \in Slots : state[s] \in {ZOMBIE, DEAD} /\ state'[s] = RUNNING
                            => pid'[s] = global_pid]_vars

-----------------------------------------------------------------------------
(* What comments and tests of the repository say of the kernel. *)

\* sys/syscall.c:1313, "If the process being killed is active, remove it
\* from schedule queue": kill takes its victim off the run queue, and only
\* its victim.
KillRemovesVictim ==
    [][\A t \in Slots : KillStep /\ state[t] = RUNNING /\ state'[t] = DEAD
                            => Queued' = Queued \ {t}]_vars

\* sys/syscall.c:605, "new process is created so that it doesnt interfere
\* with the current processes address space": creating a process leaves the
\* kernel stacks of the others, mapped in every address space, alone.
ContextsIntact ==
    \A s \in Slots : Live(s) /\ waitstate[s] # WAITING_TO_DIE
                         => kstack[s] = "intact"

\* bin/sbush/sbush.c:359-362 forks two children and calls waitpid(-1) twice:
\* a parent waiting for any child returns once one of them has exited.
WaitReturns ==
    \A s \in Slots :
        (/\ Live(s)
         /\ waitstate[s] = WAITING_TO_LIVE
         /\ waitingfor[s] = ANY_CHILD
         /\ \E i \in Slots : /\ proc_descriptor[i] = 1
                             /\ state[i] = ZOMBIE
                             /\ ppid[i] = pid[s])
            ~> (active = s \/ cpu \in Stopped)
=============================================================================
