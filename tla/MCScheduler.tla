---------------------------- MODULE MCScheduler ----------------------------
(***************************************************************************)
(* The scheduler for TLC, and the refinement mapping that forgets slots,   *)
(* the run queue and pending reports.                                      *)
(***************************************************************************)
EXTENDS Scheduler

SlotOf(p) == CHOOSE i \in Slots : pid[i] = p /\ proc_descriptor[i] = 1

\* A process is in the table while its slot is in use.
InTable(p) == \E i \in Slots : pid[i] = p /\ proc_descriptor[i] = 1

\* The process of a pid: not created, released, or in the table.
Process(p) ==
    IF p >= global_pid THEN [life |-> "unborn", parent |-> 0]
    ELSE IF ~InTable(p) THEN [life |-> "gone", parent |-> 0]
    ELSE [life |-> IF state[SlotOf(p)] = ZOMBIE THEN "zombie" ELSE "alive",
          parent |-> ppid[SlotOf(p)]]

Processes == [p \in 1..MaxPid |-> Process(p)]

Life == INSTANCE ProcessLife WITH proc <- Processes

\* The process calls keep the promise of ProcessLife: in particular fork and
\* exec create one process each, and a slot is freed only after its process
\* exited, by that process's parent, whichever of syscall_wait and kill_proc
\* does it.
ImplementsProcessLife == Life!Spec
=============================================================================
