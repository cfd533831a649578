----------------------------- MODULE MCSpinlock -----------------------------
(***************************************************************************)
(* Spinlock with the lock paths of the console and of cps() only.          *)
(***************************************************************************)
EXTENDS Spinlock

Printing == {cps, consoleread, scheduler}

\* The interrupt handlers.
Interrupts == {trap_timer, consoleintr, ideintr}
=============================================================================
