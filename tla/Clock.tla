------------------------------- MODULE Clock -------------------------------
(***************************************************************************)
(* sys_sleep() and the timer interrupt of CPU 0: ticks, its lock, and the  *)
(* processes that sleep on it.  ticks is an unsigned int, and so is the     *)
(* argument of sleep() once it is compared.                                *)
(***************************************************************************)
EXTENDS Integers, FiniteSets

CONSTANTS
  Sleeper,   \* processes
  HALF,      \* 2^31, half of the range of an unsigned int
  Interval,  \* arguments of sleep()
  MAXDELAY   \* bound: ticks a runnable process waits for a CPU

ASSUME ClockAssumption ==
  /\ HALF \in Nat \ {0} /\ MAXDELAY \in 0..HALF
  /\ Interval \subseteq -HALF..HALF - 1

UINT == 2 * HALF
Uint(n) == n % UINT

VARIABLES
  ticks,
  sl,     \* each process: where it is, n, ticks0, killed and the value returned
  real,   \* not in the code: ticks since the call, up to UINT,
  late    \* and ticks in which the process was runnable, or slept on although killed
clockvars == <<ticks, sl, real, late>>

Awake == [pc |-> "user", n |-> 0, ticks0 |-> 0, killed |-> FALSE, ret |-> 0]

\* The types of the clock and the sleepers.
ClockTypeOK ==
  /\ ticks \in 0..UINT - 1
  /\ sl \in [Sleeper -> [pc : {"user", "runnable", "sleep", "asleep", "returned"}, n : Interval \cup {0},
                         ticks0 : 0..UINT - 1, killed : BOOLEAN, ret : {0, -1}]]
  /\ real \in [Sleeper -> 0..UINT] /\ late \in [Sleeper -> 0..MAXDELAY]

\* The clock has run for any time before.
ClockInit ==
  /\ ticks \in 0..UINT - 1
  /\ sl = [p \in Sleeper |-> Awake]
  /\ real = [p \in Sleeper |-> 0] /\ late = [p \in Sleeper |-> 0]

Tick(now) == Uint(now + 1)

\* Mutant of Before: the comparison is of signed numbers without wrap-around.
Before_signed(now, ticks0, n) == now < ticks0 + n

\* ticks - ticks0 < n
Before(now, ticks0, n) == Uint(now - ticks0) < Uint(n)

\* tickslock is taken where sys_sleep() calls sleep() after its tests.
tickslock == {p \in Sleeper : sl[p].pc = "sleep"}

\* From one look at the clock, under tickslock, to the call of sleep() or the return.
Loop(p, ticks0, n) ==
  \/ /\ Before(ticks, ticks0, n) /\ ~sl[p].killed
     /\ sl' = [sl EXCEPT ![p] = [@ EXCEPT !.pc = "sleep", !.n = n, !.ticks0 = ticks0]]
  \/ /\ Before(ticks, ticks0, n) /\ sl[p].killed
     /\ sl' = [sl EXCEPT ![p] = [@ EXCEPT !.pc = "returned", !.n = n, !.ret = -1]]
  \/ /\ ~Before(ticks, ticks0, n)
     /\ sl' = [sl EXCEPT ![p] = [@ EXCEPT !.pc = "returned", !.n = n, !.ret = 0]]

sys_sleep(p, n) ==
  /\ sl[p].pc = "user" /\ tickslock = {}
  /\ Loop(p, ticks, n)
  /\ UNCHANGED <<ticks, real, late>>

\* sleep(): kill() can have come since the test, for it does not take tickslock.
sleep(p) ==
  /\ sl[p].pc = "sleep"
  /\ sl' = [sl EXCEPT ![p].pc = "asleep"]
  /\ UNCHANGED <<ticks, real, late>>

\* sleep() returns and the loop goes round.
wakes(p) ==
  /\ sl[p].pc = "runnable" /\ tickslock = {}
  /\ Loop(p, sl[p].ticks0, sl[p].n)
  /\ late' = [late EXCEPT ![p] = 0]
  /\ UNCHANGED <<ticks, real>>

\* Back in trap(): a killed process exits, and another takes its place.
leaves(p) ==
  /\ sl[p].pc = "returned"
  /\ sl' = [sl EXCEPT ![p] = Awake] /\ real' = [real EXCEPT ![p] = 0]
  /\ UNCHANGED <<ticks, late>>

\* wakeup(&ticks)
Woken(s, now) == IF s.pc = "asleep" THEN "runnable" ELSE s.pc

\* The timer interrupt: ticks++ and wakeup(&ticks) under tickslock.
timer ==
  /\ tickslock = {} /\ \A p \in Sleeper : sl[p].pc = "runnable" => late[p] < MAXDELAY
  /\ ticks' = Tick(ticks)
  /\ sl' = [p \in Sleeper |-> [sl[p] EXCEPT !.pc = Woken(sl[p], Tick(ticks))]]
  /\ real' = [p \in Sleeper |-> IF sl[p].pc \in {"asleep", "runnable"} /\ real[p] < UINT
                               THEN real[p] + 1 ELSE real[p]]
  /\ late' = [p \in Sleeper |-> IF sl[p].pc = "runnable" THEN late[p] + 1
                               ELSE IF sl'[p].pc = "asleep" /\ sl[p].killed THEN 1 ELSE late[p]]

\* kill() marks the process and makes it runnable if it sleeps.
Killed(s) == [s EXCEPT !.killed = TRUE, !.pc = IF @ = "asleep" THEN "runnable" ELSE @]

kill(p) ==
  /\ sl[p].pc # "returned"
  /\ sl' = [sl EXCEPT ![p] = Killed(@)]
  /\ UNCHANGED <<ticks, real, late>>

ClockNext ==
  \/ timer
  \/ \E p \in Sleeper : sleep(p) \/ wakes(p) \/ leaves(p) \/ kill(p) \/ \E n \in Interval : sys_sleep(p, n)

ClockSpec == ClockInit /\ [][ClockNext]_clockvars

-----------------------------------------------------------------------------
(* Properties                                                              *)

\* sleep(n) counts ticks, not the seconds describe() speaks of.  One that was not killed
\* returns 0 after n ticks at least, and late by no
\* more than the process waited for a CPU, also where ticks wraps around between;
\* a negative n counts as the unsigned number it is compared as.  No process is left
\* asleep when its time has passed; one that was killed just before it went to sleep
\* is woken by the next tick.
SleepsItsTime ==
  /\ ClockTypeOK
  /\ \A p \in Sleeper :
       /\ sl[p].pc = "returned" /\ sl[p].ret = 0 /\ sl[p].n >= 0 =>
            sl[p].n <= real[p] /\ real[p] <= sl[p].n + MAXDELAY
       /\ sl[p].pc = "asleep" =>
            (sl[p].killed => late[p] = 0) /\ (sl[p].n >= 0 => real[p] < sl[p].n)
=============================================================================
