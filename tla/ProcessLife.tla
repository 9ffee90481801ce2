---------------------------- MODULE ProcessLife ----------------------------
(***************************************************************************)
(* What the process calls promise, without slots, queues or pending        *)
(* reports: every process is created once by a living one, exits once, and *)
(* is then released once, by its own parent and by nobody else.            *)
(***************************************************************************)
EXTENDS Integers

CONSTANT MaxPid

VARIABLE proc   \* for each pid, the stage of its life and its parent

Pids == 1..MaxPid

Unborn == [life |-> "unborn", parent |-> 0]
Gone   == [life |-> "gone", parent |-> 0]

Process(stage, q) == [life |-> stage, parent |-> q]

Init == proc = [p \in Pids |-> IF p = 1 THEN Process("alive", 0) ELSE Unborn]

\* q creates p, and pids are given out in order.
Create(q, p) ==
    /\ proc[q].life = "alive"
    /\ proc[p] = Unborn
    /\ p > 1 /\ proc[p - 1] # Unborn
    /\ proc' = [proc EXCEPT ![p] = Process("alive", q)]

Exit(p) ==
    /\ proc[p].life = "alive"
    /\ proc' = [proc EXCEPT ![p].life = "zombie"]

\* p is a child of q that has exited, and q releases it.
Releasable(q, p) == proc[q].life = "alive" /\ proc[p] = Process("zombie", q)

Release(q, p) ==
    /\ Releasable(q, p)
    /\ proc' = [proc EXCEPT ![p] = Gone]

\* q, which exec'ed the binary p, releases it and exits with it.
ReleaseAndExit(q, p) ==
    /\ Releasable(q, p)
    /\ proc' = [proc EXCEPT ![p] = Gone, ![q].life = "zombie"]

Next == \E q, p \in Pids : \/ Create(q, p)
                           \/ Exit(p)
                           \/ Release(q, p)
                           \/ ReleaseAndExit(q, p)

Spec == Init /\ [][Next]_proc
=============================================================================
