------------------------------ MODULE HwTimer ------------------------------
(***************************************************************************)
(* The hardware timer driver of platform/bsp/hw_timer.c in the only mode   *)
(* the kernel uses, free-running (lib/time/time.c:87).  The platform       *)
(* counter has 32 bits and interrupts when it wraps around; the driver     *)
(* then adds 2^32 to base_counter, so that the time between the wrap and   *)
(* the interrupt is read one period short.                                 *)
(*                                                                         *)
(* ticks is the time since the counter was started, which the hardware     *)
(* shows modulo Period.  No callback is ever set by the repository.        *)
(***************************************************************************)
EXTENDS Integers

CONSTANTS
  Period,      \* number of values of the platform counter, 2^32
  MaxTicks     \* bound on the time

ASSUME PeriodAssumption == Period \in Nat \ {0} /\ MaxTicks \in Nat

VARIABLES
  timer,       \* g_hw_timer_state: initialized and base_counter
  ticks

timerVars == <<timer, ticks>>

TimerType == [initialized : BOOLEAN, base : Nat]
TimerStatic == [initialized |-> FALSE, base |-> 0]

\* A wrap of the platform counter that the driver has not been told of.
WrapPending == ticks \div Period > timer.base \div Period

\* A faulty counter that leaves out the base.
CounterBare == IF timer.initialized THEN ticks % Period ELSE 0

\* hw_timer_get_counter
Counter == IF timer.initialized THEN (ticks % Period) + timer.base ELSE 0

\* hw_timer_init; the platform or the self-test may fail.
HwTimerInit ==
  /\ ~timer.initialized
  /\ timer' \in {TimerStatic, [TimerStatic EXCEPT !.initialized = TRUE]}
  /\ UNCHANGED ticks

\* hw_timer_interrupt_handler
TimerInterrupt ==
  /\ WrapPending
  /\ timer' = [timer EXCEPT !.base = @ + Period]
  /\ UNCHANGED ticks

\* The hardware counts; a wrap is served before the next one.
Count ==
  /\ timer.initialized
  /\ ticks < MaxTicks
  /\ (ticks + 1) \div Period <= timer.base \div Period + 1
  /\ ticks' = ticks + 1
  /\ UNCHANGED timer
=============================================================================
