------------------------- MODULE ProcessLifeProofs -------------------------
(***************************************************************************)
(* The process calls implement ProcessLife, for every size of the process  *)
(* table and every number of processes, as long as nobody calls kill.      *)
(*                                                                         *)
(* The invariant is that of the run queue: the process that syscall_wait   *)
(* and kill_proc release is a zombie and a child of the releasing one      *)
(* because its report said so.                                             *)
(***************************************************************************)
EXTENDS SchedulerProofs, MCScheduler

-----------------------------------------------------------------------------
(* The mapping, as a function of the fields it reads. *)

EntryIn(p, g, pd, pi, st, pp) ==
    LET i == CHOOSE i \in Slots : pi[i] = p /\ pd[i] = 1
    IN IF p >= g THEN [life |-> "unborn", parent |-> 0]
       ELSE IF ~\E j \in Slots : pi[j] = p /\ pd[j] = 1
         THEN [life |-> "gone", parent |-> 0]
       ELSE [life |-> IF st[i] = ZOMBIE THEN "zombie" ELSE "alive", parent |-> pp[i]]

Unique(pi) == \A i, j \in Slots : pi[i] = pi[j] /\ pi[i] # 0 => i = j

\* The mapping of a process, as a function of the variables.
LEMMA MappedNow ==
    \A p \in 1..MaxPid :
        Processes[p] = EntryIn(p, global_pid, proc_descriptor, pid, state, ppid)
BY DEF Processes, Process, InTable, SlotOf, EntryIn

\* The same for the state after a step.
LEMMA MappedThen ==
    \A p \in 1..MaxPid :
        Processes'[p] = EntryIn(p, global_pid', proc_descriptor', pid', state', ppid')
BY DEF Processes, Process, InTable, SlotOf, EntryIn

\* p is the process in slot i, and what the mapping makes of that slot.
HeldBy(i, p, pd, pi) == pi[i] = p /\ pd[i] = 1

EntryOf(i, st, pp) ==
    [life |-> IF st[i] = ZOMBIE THEN "zombie" ELSE "alive", parent |-> pp[i]]

\* A process in a slot is mapped to what the slot says of it.
LEMMA InSlot ==
    ASSUME NEW p, p # 0, NEW g, NEW pd, NEW pi, NEW st, NEW pp, Unique(pi),
           NEW i \in Slots, HeldBy(i, p, pd, pi), ~(p >= g)
    PROVE  EntryIn(p, g, pd, pi, st, pp) = EntryOf(i, st, pp)
<1> DEFINE c == CHOOSE j \in Slots : pi[j] = p /\ pd[j] = 1
<1>1. c \in Slots /\ pi[c] = p
  BY DEF HeldBy
<1>2. c = i
  BY <1>1 DEF Unique, HeldBy
<1> QED
  BY <1>2 DEF EntryIn, EntryOf, HeldBy

\* The entry of p does not change.
Kept(p, g, pd, pi, st, pp, g2, pd2, pi2, st2, pp2) ==
    /\ p >= g <=> p >= g2
    /\ \A i \in Slots : HeldBy(i, p, pd, pi) <=> HeldBy(i, p, pd2, pi2)
    /\ \A i \in Slots : HeldBy(i, p, pd, pi) =>
           /\ st[i] = ZOMBIE <=> st2[i] = ZOMBIE
           /\ pp[i] = pp2[i]

\* A process whose slot and fields are kept is mapped to the same entry.
LEMMA EntryKept ==
    ASSUME NEW p, p # 0, NEW g, NEW pd, NEW pi, NEW st, NEW pp,
           NEW g2, NEW pd2, NEW pi2, NEW st2, NEW pp2,
           Unique(pi), Unique(pi2),
           Kept(p, g, pd, pi, st, pp, g2, pd2, pi2, st2, pp2)
    PROVE  EntryIn(p, g, pd, pi, st, pp) = EntryIn(p, g2, pd2, pi2, st2, pp2)
<1>1. CASE p >= g
  BY <1>1 DEF EntryIn, Kept
<1>2. CASE ~(p >= g) /\ \E i \in Slots : HeldBy(i, p, pd, pi)
  <2>1. PICK i \in Slots : HeldBy(i, p, pd, pi)
    BY <1>2
  <2>2. /\ HeldBy(i, p, pd2, pi2)
        /\ ~(p >= g2)
        /\ st[i] = ZOMBIE <=> st2[i] = ZOMBIE
        /\ pp[i] = pp2[i]
    BY <1>2, <2>1 DEF Kept
  <2>3. EntryIn(p, g, pd, pi, st, pp) = EntryOf(i, st, pp)
    BY <1>2, <2>1, InSlot
  <2>4. EntryIn(p, g2, pd2, pi2, st2, pp2) = EntryOf(i, st2, pp2)
    BY <2>2, InSlot
  <2>5. EntryOf(i, st, pp) = EntryOf(i, st2, pp2)
    BY <2>2 DEF EntryOf
  <2> QED
    BY <2>3, <2>4, <2>5
<1>3. CASE ~(p >= g) /\ \A i \in Slots : ~HeldBy(i, p, pd, pi)
  BY <1>3 DEF EntryIn, Kept, HeldBy
<1> QED
  BY <1>1, <1>2, <1>3

-----------------------------------------------------------------------------
(* The mapping at both ends of a step. *)

\* No two slots in use have the same pid.
LEMMA UniqueNow == ASSUME QInv PROVE Unique(pid)
BY DEF QInv, PidsUnique, Unique

\* The same for the state after a step.
LEMMA UniqueThen == ASSUME QInv' PROVE Unique(pid')
BY DEF QInv, PidsUnique, Unique

\* The entry of the process in a slot in use.
LEMMA EntryNow ==
    ASSUME QInv, NEW s \in Slots, proc_descriptor[s] = 1
    PROVE  /\ pid[s] \in 1..MaxPid
           /\ pid[s] < global_pid
           /\ Processes[pid[s]] = EntryOf(s, state, ppid)
<1>1. pid[s] # 0 /\ pid[s] < global_pid
  BY DEF QInv, SlotsSound, PidsUnique
<1>2. pid[s] \in 1..MaxPid /\ global_pid \in Int
  BY <1>1, MaxPidAssumption DEF QInv, TInv, TypeOK
<1>3. /\ HeldBy(s, pid[s], proc_descriptor, pid)
      /\ ~(pid[s] >= global_pid)
  BY <1>1, <1>2 DEF HeldBy
<1>4. Unique(pid)
  BY UniqueNow
<1>5. EntryIn(pid[s], global_pid, proc_descriptor, pid, state, ppid)
        = EntryOf(s, state, ppid)
  BY <1>1, <1>3, <1>4, InSlot
<1> QED
  BY <1>1, <1>2, <1>5, MappedNow

\* The entry of the process in a slot in use after a step.
LEMMA EntryThen ==
    ASSUME QInv', NEW s \in Slots, proc_descriptor'[s] = 1
    PROVE  Processes'[pid'[s]] = EntryOf(s, state', ppid')
<1>1. pid'[s] # 0 /\ pid'[s] < global_pid'
  BY DEF QInv, SlotsSound, PidsUnique
<1>2. pid'[s] \in 1..MaxPid /\ global_pid' \in Int
  BY <1>1, MaxPidAssumption DEF QInv, TInv, TypeOK
<1>3. /\ HeldBy(s, pid'[s], proc_descriptor', pid')
      /\ ~(pid'[s] >= global_pid')
  BY <1>1, <1>2 DEF HeldBy
<1>4. Unique(pid')
  BY UniqueThen
<1>5. EntryIn(pid'[s], global_pid', proc_descriptor', pid', state', ppid')
        = EntryOf(s, state', ppid')
  BY <1>1, <1>3, <1>4, InSlot
<1> QED
  BY <1>2, <1>5, MappedThen

\* A process that no slot in use holds any more.
LEMMA GoneThen ==
    ASSUME QInv', NEW p \in 1..MaxPid, ~(p >= global_pid'),
           \A i \in Slots : ~HeldBy(i, p, proc_descriptor', pid')
    PROVE  Processes'[p] = [life |-> "gone", parent |-> 0]
<1>1. EntryIn(p, global_pid', proc_descriptor', pid', state', ppid')
        = [life |-> "gone", parent |-> 0]
  BY DEF EntryIn, HeldBy
<1> QED
  BY <1>1, MappedThen

KeptNow(p) == Kept(p, global_pid, proc_descriptor, pid, state, ppid,
                   global_pid', proc_descriptor', pid', state', ppid')

\* A step that keeps what the table holds of p keeps its entry.
LEMMA EntryUnchanged ==
    ASSUME QInv, QInv', NEW p \in 1..MaxPid, KeptNow(p)
    PROVE  Processes'[p] = Processes[p]
<1>1. Unique(pid) /\ Unique(pid') /\ p # 0
  BY UniqueNow, UniqueThen
<1>2. EntryIn(p, global_pid, proc_descriptor, pid, state, ppid)
        = EntryIn(p, global_pid', proc_descriptor', pid', state', ppid')
  BY <1>1, EntryKept DEF KeptNow
<1> QED
  BY <1>2, MappedNow, MappedThen

\* The mapping is a function of the pids.
LEMMA ProcessesIsFunction ==
    /\ Processes = [p \in 1..MaxPid |-> Processes[p]]
    /\ Processes' = [p \in 1..MaxPid |-> Processes'[p]]
BY DEF Processes

\* A step that neither creates nor releases a process, and after which only
\* who was a zombie is one.
LEMMA Stutters ==
    ASSUME QInv, QInv', UNCHANGED <<global_pid, proc_descriptor, pid, ppid>>,
           \A i \in Slots : proc_descriptor[i] = 1
               => (state[i] = ZOMBIE <=> state'[i] = ZOMBIE)
    PROVE  Processes' = Processes
<1>1. ASSUME NEW p \in 1..MaxPid
      PROVE  Processes'[p] = Processes[p]
  <2>1. KeptNow(p)
    BY DEF KeptNow, Kept, HeldBy
  <2> QED
    BY <2>1, EntryUnchanged
<1> QED
  BY <1>1, ProcessesIsFunction
-----------------------------------------------------------------------------
(* The steps. *)

\* fork and exec: the running process creates the one in the slot i.
LEMMA CreateMaps ==
    ASSUME QInv, QInv', InUser, NEW i \in Slots, FirstFree(i), NewProcess(i)
    PROVE  Life!Create(pid[active], global_pid) /\ pid[active] \in 1..MaxPid
                                                /\ global_pid \in 1..MaxPid
<1> DEFINE p == global_pid
           q == pid[active]
<1>t. TypeOK /\ PidsUnique /\ SlotsSound
  BY DEF QInv, TInv
<1>1. active \in Slots /\ Live(active)
  BY DEF QInv, RunQueueSound, ActiveSound
<1>2. /\ q \in 1..MaxPid
      /\ q < p
      /\ Processes[q] = EntryOf(active, state, ppid)
  BY <1>1, EntryNow DEF Live
<1>3. Processes[q].life = "alive"
  BY <1>1, <1>2 DEF EntryOf, Live, RUNNING, ZOMBIE
<1>4. p \in 1..MaxPid /\ p \in Int /\ p > 1 /\ p - 1 \in 1..MaxPid
  BY <1>2, <1>t, MaxPidAssumption DEF NewProcess, TypeOK
<1>5. Processes[p] = [life |-> "unborn", parent |-> 0]
  <2>1. p >= global_pid
    BY <1>4
  <2>2. EntryIn(p, global_pid, proc_descriptor, pid, state, ppid)
          = [life |-> "unborn", parent |-> 0]
    BY <2>1 DEF EntryIn
  <2> QED
    BY <1>4, <2>2, MappedNow
<1>6. Processes[p - 1] # [life |-> "unborn", parent |-> 0]
  <2> DEFINE e == EntryIn(p - 1, global_pid, proc_descriptor, pid, state, ppid)
  <2>1. ~(p - 1 >= global_pid)
    BY <1>4
  <2>2. Processes[p - 1] = e
    BY <1>4, MappedNow
  <2>3. CASE \E j \in Slots : HeldBy(j, p - 1, proc_descriptor, pid)
    <3>1. PICK j \in Slots : HeldBy(j, p - 1, proc_descriptor, pid)
      BY <2>3
    <3>2. e = EntryOf(j, state, ppid)
      BY <1>4, <2>1, <3>1, InSlot, UniqueNow
    <3>3. EntryOf(j, state, ppid).life # "unborn"
      BY DEF EntryOf
    <3> QED
      BY <2>2, <3>2, <3>3
  <2>4. CASE ~\E j \in Slots : HeldBy(j, p - 1, proc_descriptor, pid)
    <3>1. e = [life |-> "gone", parent |-> 0]
      BY <2>1, <2>4 DEF EntryIn, HeldBy
    <3>2. e.life # "unborn"
      BY <3>1
    <3> QED
      BY <2>2, <3>2
  <2> QED
    BY <2>3, <2>4
<1>7. Processes'[p] = [life |-> "alive", parent |-> q]
  <2>1. proc_descriptor'[i] = 1 /\ pid'[i] = p /\ state'[i] = RUNNING /\ ppid'[i] = q
    BY <1>t DEF NewProcess, TypeOK
  <2>2. Processes'[pid'[i]] = EntryOf(i, state', ppid')
    BY <2>1, EntryThen
  <2> QED
    BY <2>1, <2>2 DEF EntryOf, RUNNING, ZOMBIE
<1>8. ASSUME NEW r \in 1..MaxPid, r # p
      PROVE  Processes'[r] = Processes[r]
  <2>1. r >= p <=> r >= global_pid'
    BY <1>4, <1>8 DEF NewProcess, NextPid
  <2>2. ~HeldBy(i, r, proc_descriptor, pid) /\ ~HeldBy(i, r, proc_descriptor', pid')
    BY <1>8, <1>t DEF HeldBy, FirstFree, NewProcess, TypeOK
  <2>3. ASSUME NEW j \in Slots, j # i
        PROVE  /\ proc_descriptor'[j] = proc_descriptor[j] /\ pid'[j] = pid[j]
               /\ state'[j] = state[j] /\ ppid'[j] = ppid[j]
    BY <2>3, <1>t DEF NewProcess, TypeOK
  <2>4. KeptNow(r)
    BY <2>1, <2>2, <2>3 DEF KeptNow, Kept, HeldBy
  <2> QED
    BY <2>4, EntryUnchanged
<1>9. Processes' = [Processes EXCEPT ![p] = [life |-> "alive", parent |-> q]]
  BY <1>4, <1>7, <1>8, ProcessesIsFunction
<1> QED
  BY <1>2, <1>3, <1>4, <1>5, <1>6, <1>9 DEF Life!Create, Life!Unborn, Life!Process

\* syscall_exit: the running process becomes a zombie.
LEMMA ExitMaps ==
    ASSUME QInv, QInv', NEW status, Exit(status)
    PROVE  Life!Exit(pid[active]) /\ pid[active] \in 1..MaxPid
<1> DEFINE q == pid[active]
<1>t. TypeOK /\ PidsUnique /\ SlotsSound
  BY DEF QInv, TInv
<1>1. active \in Slots /\ Live(active)
  BY DEF QInv, RunQueueSound, ActiveSound, Exit
<1>2. q \in 1..MaxPid /\ q # 0 /\ Processes[q] = EntryOf(active, state, ppid)
  BY <1>1, EntryNow DEF Live
<1>3. Processes[q] = [life |-> "alive", parent |-> ppid[active]]
  BY <1>1, <1>2 DEF EntryOf, Live, RUNNING, ZOMBIE
<1>4. /\ proc_descriptor' = proc_descriptor /\ pid' = pid /\ ppid' = ppid
      /\ global_pid' = global_pid
      /\ state'[active] = ZOMBIE
      /\ \A j \in Slots \ {active} : state'[j] = state[j]
  BY <1>1, <1>t DEF Exit, tableVars, TypeOK
<1>5. Processes'[q] = [life |-> "zombie", parent |-> ppid[active]]
  <2>1. Processes'[pid'[active]] = EntryOf(active, state', ppid')
    BY <1>1, <1>4, EntryThen DEF Live
  <2> QED
    BY <1>4, <2>1 DEF EntryOf
<1>6. ASSUME NEW r \in 1..MaxPid, r # q
      PROVE  Processes'[r] = Processes[r]
  <2>1. KeptNow(r)
    BY <1>4, <1>6 DEF KeptNow, Kept, HeldBy
  <2> QED
    BY <2>1, EntryUnchanged
<1>7. [Processes[q] EXCEPT !.life = "zombie"] = [life |-> "zombie", parent |-> ppid[active]]
  BY <1>3
<1>8. Processes' = [Processes EXCEPT ![q].life = "zombie"]
  BY <1>2, <1>5, <1>6, <1>7, ProcessesIsFunction
<1> QED
  BY <1>2, <1>3, <1>8 DEF Life!Exit

\* What syscall_wait and kill_proc find: the process in slot s runs, and the
\* one in slot i is a child of it that has exited.
LEMMA ReleasableNow ==
    ASSUME QInv, NEW s \in Slots, NEW i \in Slots, Resumable(s),
           sigchild_state[s] = 0, Holds(i, signalling_child[s])
    PROVE  /\ Life!Releasable(pid[s], pid[i])
           /\ pid[s] \in 1..MaxPid /\ pid[i] \in 1..MaxPid
           /\ pid[s] # pid[i] /\ s # i
           /\ ~(pid[i] >= global_pid)
           /\ proc_descriptor[s] = 1 /\ proc_descriptor[i] = 1
           /\ sno[i] = i
           /\ Processes[pid[s]] = [life |-> "alive", parent |-> ppid[s]]
<1>1. Live(s)
  BY HeadIsLive DEF Resumable
<1>2. proc_descriptor[i] = 1 /\ sno[i] = i /\ state[i] = ZOMBIE /\ ppid[i] = pid[s]
  BY <1>1, ReportedChild
<1>3. pid[s] \in 1..MaxPid /\ Processes[pid[s]] = EntryOf(s, state, ppid)
  BY <1>1, EntryNow DEF Live
<1>4. pid[i] \in 1..MaxPid /\ pid[i] < global_pid /\ Processes[pid[i]] = EntryOf(i, state, ppid)
  BY <1>2, EntryNow
<1>5. Processes[pid[s]] = [life |-> "alive", parent |-> ppid[s]]
  BY <1>1, <1>3 DEF EntryOf, Live, RUNNING, ZOMBIE
<1>6. Processes[pid[i]] = [life |-> "zombie", parent |-> pid[s]]
  BY <1>2, <1>4 DEF EntryOf
<1>7. pid[s] # pid[i] /\ s # i
  BY <1>5, <1>6
<1>8. ~(pid[i] >= global_pid)
  BY <1>4 DEF QInv, TInv, TypeOK
<1> QED
  BY <1>1, <1>2, <1>3, <1>4, <1>5, <1>6, <1>7, <1>8
     DEF Life!Releasable, Life!Process, Live

\* syscall_wait releases the child that reported.
LEMMA ReapMaps ==
    ASSUME QInv, QInv', SwitchReap
    PROVE  \E q, p \in 1..MaxPid : Life!Release(q, p)
<1>t. TypeOK /\ PidsUnique /\ SlotsSound
  BY DEF QInv, TInv
<1>1. PICK s \in Slots, i \in Slots :
         /\ Resumable(s) /\ sigchild_state[s] = 0 /\ Holds(i, signalling_child[s])
         /\ proc_descriptor' = [proc_descriptor EXCEPT ![sno[i]] = 0]
         /\ state' = [state EXCEPT ![i] = NEW_PROC]
         /\ pid' = [pid EXCEPT ![i] = 0]
         /\ ppid' = [ppid EXCEPT ![i] = 0]
         /\ global_pid' = global_pid
  BY DEF SwitchReap, ChildReported, FreedSlot
<1> DEFINE p == pid[i]
<1>2. /\ Life!Releasable(pid[s], p)
      /\ pid[s] \in 1..MaxPid /\ p \in 1..MaxPid
      /\ ~(p >= global_pid)
      /\ proc_descriptor[i] = 1 /\ sno[i] = i
  BY <1>1, ReleasableNow
<1>3. /\ proc_descriptor'[i] = 0 /\ pid'[i] = 0
      /\ \A j \in Slots \ {i} : /\ proc_descriptor'[j] = proc_descriptor[j]
                                /\ pid'[j] = pid[j]
                                /\ state'[j] = state[j]
                                /\ ppid'[j] = ppid[j]
  BY <1>1, <1>2, <1>t DEF TypeOK
<1>4. \A j \in Slots : ~HeldBy(j, p, proc_descriptor', pid')
  BY <1>2, <1>3, <1>t DEF HeldBy, PidsUnique
<1>5. Processes'[p] = [life |-> "gone", parent |-> 0]
  BY <1>1, <1>2, <1>4, GoneThen
<1>6. ASSUME NEW r \in 1..MaxPid, r # p
      PROVE  Processes'[r] = Processes[r]
  <2>1. ~HeldBy(i, r, proc_descriptor, pid) /\ ~HeldBy(i, r, proc_descriptor', pid')
    BY <1>3, <1>6 DEF HeldBy
  <2>2. KeptNow(r)
    BY <1>1, <1>3, <2>1 DEF KeptNow, Kept, HeldBy
  <2> QED
    BY <2>2, EntryUnchanged
<1>7. Processes' = [Processes EXCEPT ![p] = [life |-> "gone", parent |-> 0]]
  BY <1>2, <1>5, <1>6, ProcessesIsFunction
<1>8. Life!Release(pid[s], p)
  BY <1>2, <1>7 DEF Life!Release, Life!Gone
<1> QED
  BY <1>2, <1>8

\* kill_proc releases the binary and ends the process that exec'ed it.
LEMMA KillProcMaps ==
    ASSUME QInv, QInv', kill_proc
    PROVE  \E q, p \in 1..MaxPid : Life!ReleaseAndExit(q, p)
<1>t. TypeOK /\ PidsUnique /\ SlotsSound
  BY DEF QInv, TInv
<1>1. PICK s \in Slots, i \in Slots :
         /\ Resumable(s) /\ sigchild_state[s] = 0 /\ Holds(i, signalling_child[s])
         /\ proc_descriptor' = [proc_descriptor EXCEPT ![sno[i]] = 0]
         /\ state' = [state EXCEPT ![s] = ZOMBIE, ![i] = DEAD]
         /\ UNCHANGED <<global_pid, pid, ppid>>
  BY DEF kill_proc, BinaryEnded, FreedSlot
<1> DEFINE p == pid[i]
           q == pid[s]
<1>2. /\ Life!Releasable(q, p)
      /\ q \in 1..MaxPid /\ p \in 1..MaxPid /\ q # p /\ s # i
      /\ ~(p >= global_pid)
      /\ proc_descriptor[s] = 1 /\ proc_descriptor[i] = 1 /\ sno[i] = i
      /\ Processes[q] = [life |-> "alive", parent |-> ppid[s]]
  BY <1>1, ReleasableNow
<1>3. /\ proc_descriptor'[i] = 0 /\ proc_descriptor'[s] = 1 /\ state'[s] = ZOMBIE
      /\ \A j \in Slots \ {i} : proc_descriptor'[j] = proc_descriptor[j]
      /\ \A j \in Slots \ {i, s} : state'[j] = state[j]
  BY <1>1, <1>2, <1>t DEF TypeOK
<1>4. \A j \in Slots : ~HeldBy(j, p, proc_descriptor', pid')
  BY <1>1, <1>2, <1>3, <1>t DEF HeldBy, PidsUnique
<1>5. Processes'[p] = [life |-> "gone", parent |-> 0]
  BY <1>1, <1>2, <1>4, GoneThen
<1>6. Processes'[q] = [life |-> "zombie", parent |-> ppid[s]]
  <2>1. Processes'[pid'[s]] = EntryOf(s, state', ppid')
    BY <1>3, EntryThen
  <2> QED
    BY <1>1, <1>3, <2>1 DEF EntryOf
<1>7. ASSUME NEW r \in 1..MaxPid, r # p, r # q
      PROVE  Processes'[r] = Processes[r]
  <2>1. /\ ~HeldBy(i, r, proc_descriptor, pid) /\ ~HeldBy(i, r, proc_descriptor', pid')
        /\ ~HeldBy(s, r, proc_descriptor, pid) /\ ~HeldBy(s, r, proc_descriptor', pid')
    BY <1>1, <1>3, <1>7 DEF HeldBy
  <2>2. KeptNow(r)
    BY <1>1, <1>3, <2>1 DEF KeptNow, Kept, HeldBy
  <2> QED
    BY <2>2, EntryUnchanged
<1>8. [Processes[q] EXCEPT !.life = "zombie"] = [life |-> "zombie", parent |-> ppid[s]]
  BY <1>2
<1>9. Processes' = [Processes EXCEPT ![p] = [life |-> "gone", parent |-> 0],
                                     ![q].life = "zombie"]
  BY <1>2, <1>5, <1>6, <1>7, <1>8, ProcessesIsFunction
<1>10. Life!ReleaseAndExit(q, p)
  BY <1>2, <1>9 DEF Life!ReleaseAndExit, Life!Gone
<1> QED
  BY <1>2, <1>10

\* At boot the table is that of a system with only the shell.
LEMMA LifeInit == Init => Life!Init
<1> SUFFICES ASSUME Init
             PROVE  Life!Init
  OBVIOUS
<1>1. QInv
  BY QInit
<1>2. ASSUME NEW p \in 1..MaxPid
      PROVE  Processes[p] = IF p = 1 THEN [life |-> "alive", parent |-> 0]
                            ELSE [life |-> "unborn", parent |-> 0]
  <2>1. CASE p = 1
    <3>1. proc_descriptor[0] = 1 /\ pid[0] = 1 /\ state[0] = RUNNING /\ ppid[0] = 0
      BY SlotFacts DEF Init
    <3>2. Processes[pid[0]] = EntryOf(0, state, ppid)
      BY <1>1, <3>1, EntryNow, SlotFacts
    <3> QED
      BY <2>1, <3>1, <3>2 DEF EntryOf, RUNNING, ZOMBIE
  <2>2. CASE p # 1
    <3>1. p >= global_pid
      BY <2>2, MaxPidAssumption DEF Init
    <3> QED
      BY <2>2, <3>1, MappedNow DEF EntryIn
  <2> QED
    BY <2>1, <2>2
<1> QED
  BY <1>2, ProcessesIsFunction DEF Life!Init, Life!Pids, Life!Process, Life!Unborn

\* Every step of the scheduler is a step in the life of one process or of none.
LEMMA LifeStep == QInv /\ QInv' /\ [NoKillNext]_vars => [Life!Next]_Processes
<1> SUFFICES ASSUME QInv, QInv', [NoKillNext]_vars
             PROVE  Life!Next \/ Processes' = Processes
  OBVIOUS
<1> USE DEF Life!Next, Life!Pids
<1>u. InUser => active \in Slots /\ Live(active)
  BY DEF QInv, RunQueueSound, ActiveSound
<1>1. CASE Fork \/ Exec \/ ExecNotFound
  <2>1. PICK i \in Slots : FirstFree(i) /\ NewProcess(i)
    BY <1>1 DEF Fork, Exec, ExecNotFound
  <2>2. InUser
    BY <1>1 DEF Fork, Exec, ExecNotFound
  <2> QED
    BY <2>1, <2>2, CreateMaps
<1>2. CASE \E status \in Statuses : Exit(status)
  BY <1>2, ExitMaps
<1>3. CASE SwitchReap
  BY <1>3, ReapMaps
<1>4. CASE kill_proc
  BY <1>4, KillProcMaps
<1>5. ASSUME UNCHANGED <<state, tableVars>>
      PROVE  Processes' = Processes
  BY <1>5, Stutters DEF tableVars
<1>6. CASE Yield \/ \E id \in {ANY_CHILD} \union 1..MaxPid : Wait(id)
  <2>1. /\ InUser
        /\ state' = [state EXCEPT ![active] = RUNNING]
        /\ UNCHANGED tableVars
    BY <1>6 DEF Yield, Wait
  <2>2. state[active] = RUNNING /\ state \in [Slots -> {NEW_PROC, RUNNING, ZOMBIE, DEAD}]
    BY <1>u, <2>1 DEF Live, QInv, TInv, TypeOK
  <2>3. state' = state
    BY <2>1, <2>2
  <2> QED
    BY <1>5, <2>1, <2>3
<1>7. CASE ForkHangs \/ CreateOverflows \/ CreateOverruns
  BY <1>5, <1>7 DEF ForkHangs, CreateOverflows, CreateOverruns, Stop
<1>8. CASE \/ SwitchEmpty \/ SwitchGarbage \/ SwitchSkip \/ SwitchCrash \/ SwitchRun
           \/ SwitchWaitAgain \/ SwitchDieAgain \/ SwitchOverflow
  BY <1>5, <1>8 DEF SwitchEmpty, SwitchGarbage, SwitchSkip, SwitchCrash, SwitchRun,
                    SwitchWaitAgain, SwitchDieAgain, SwitchOverflow, Stop
<1>9. CASE UNCHANGED vars
  BY <1>5, <1>9 DEF vars
<1> QED
  BY <1>1, <1>2, <1>3, <1>4, <1>6, <1>7, <1>8, <1>9
     DEF NoKillNext, CoreNext, UserStep, SwitchStep, Halted

\* fork, exec, exit, wait and kill_proc implement ProcessLife for a process
\* table of any size, as long as nobody calls kill: a process is created
\* once, by a living one, and its slot is released once, after it exited and
\* by its own parent.
THEOREM ProcessCallsImplementLife == NoKillSpec => ImplementsProcessLife
<1>1. QInv /\ QInv' /\ [NoKillNext]_vars => [Life!Next]_Processes
  BY LifeStep
<1> QED
  BY <1>1, LifeInit, QInvariant, PTL DEF NoKillSpec, ImplementsProcessLife, Life!Spec
=============================================================================
