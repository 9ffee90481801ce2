------------------------------- MODULE Timer -------------------------------
(***************************************************************************)
(* The clock of sys/yomama.c, ticked by the timer interrupt, and sleep of  *)
(* libc/unistd.c, which polls it from user mode and never yields: while a  *)
(* process sleeps nobody else runs.                                        *)
(***************************************************************************)
EXTENDS Integers

CONSTANTS
    TICK,      \* milliseconds from one interrupt to the next (50)
    SECOND,    \* milliseconds of a second (1000)
    MaxTime,   \* bound: the largest value of time; the code's int ends
               \* after 24 days
    Naps       \* the arguments of sleep

ASSUME TimerAssumption ==
    /\ TICK \in Nat \ {0} /\ SECOND \in Nat \ {0} /\ SECOND % TICK = 0
    /\ MaxTime \in Nat /\ Naps \subseteq Nat

VARIABLES
    frac_time, time, time_in_sec,
    nap,       \* the sleep call of the process that has the CPU: its
               \* argument, its local variables start and time
    slept      \* history: milliseconds of ticks since the call

timerVars == <<frac_time, time, time_in_sec, nap, slept>>

Awake == [pc |-> "awake", seconds |-> 0, start |-> 0, time |-> 0]

Asleep == nap.pc = "polling"

TimerInit == /\ frac_time = 0 /\ time = 0 /\ time_in_sec = 0
             /\ nap = Awake /\ slept = 0

\* Thousands of polls fit into a second: the clock does not reach the next
\* one before the sleeper has seen this one.
Seen == Asleep => nap.time = time_in_sec

\* Mutant of Rollover: the test comes before the addition.
RolloverLate == frac_time = SECOND

\* frac_time==1000 after the addition.
Rollover == frac_time + TICK = SECOND

timemama ==
    /\ IF Rollover
         THEN /\ time + frac_time + TICK <= MaxTime
              /\ Seen
              /\ time' = time + frac_time + TICK
              /\ frac_time' = 0
              /\ time_in_sec' = time' \div SECOND
         ELSE /\ frac_time' = frac_time + TICK
              /\ UNCHANGED <<time, time_in_sec>>
    /\ slept' = IF Asleep THEN slept + TICK ELSE 0
    /\ UNCHANGED nap

\* The first test of the loop is 0 - 0 == seconds.
SleepCall(n) ==
    /\ ~Asleep
    /\ n # 0
    /\ nap' = [Awake EXCEPT !.pc = "polling", !.seconds = n]
    /\ slept' = 0
    /\ UNCHANGED <<frac_time, time, time_in_sec>>

\* Mutant of StartOf: the start is what was read last.
StartMoves(t) == IF nap.start = 0 THEN t ELSE nap.time

\* if(start==0) start=time;  In the first second after boot this is not yet
\* the start.
StartOf(t) == IF nap.start = 0 THEN t ELSE nap.start

\* Mutant of Over: the sleep ends one poll into its second.
OverEarly(t) == t - StartOf(t) + 1 = nap.seconds

\* (time - start)==seconds
Over(t) == t - StartOf(t) = nap.seconds

\* syscall_time and the turn of the loop that uses its answer.
SleepPoll ==
    /\ Asleep
    /\ nap' = IF Over(time_in_sec) THEN Awake
              ELSE [nap EXCEPT !.start = StartOf(time_in_sec), !.time = time_in_sec]
    /\ UNCHANGED <<frac_time, time, time_in_sec, slept>>

-----------------------------------------------------------------------------

\* sleep(n) returns after more than n - 1 and less than n + 1 seconds,
\* wherever between two ticks it is called.  In the first second after boot
\* the clock's 0 is taken for "not started", which adds up to one second.
SleepLength ==
    [][Asleep /\ ~Asleep' =>
         LET early == time + frac_time - slept < SECOND
         IN /\ slept > (nap.seconds - 1) * SECOND
            /\ slept < (nap.seconds + IF early THEN 2 ELSE 1) * SECOND]_timerVars

\* The second that a sleep counts from; in second 0 it has not started.
Start == IF nap.start # 0 THEN nap.start
         ELSE IF time_in_sec = 0 THEN 1 ELSE time_in_sec

\* The sleeps that can end before the clock's last value.
Endable == {n \in Naps : (Start + n) * SECOND <= MaxTime}

\* They do end: the equality test of the loop meets its second although the
\* clock does not stop for it.
SleepEnds == Asleep /\ nap.seconds \in Endable ~> ~Asleep
=============================================================================
