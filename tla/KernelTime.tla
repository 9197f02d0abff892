---------------------------- MODULE KernelTime ----------------------------
(***************************************************************************)
(* The redundant time sources of lib/time/time.c: their initialization and *)
(* kernel_time_get_tick_count, which every reading of the time goes        *)
(* through.                                                                *)
(*                                                                         *)
(* kernel_time_get_tick_count calls validate_time_sources, whose first     *)
(* statement calls kernel_time_get_tick_count again (time.c:155, 273).     *)
(* No statement between the two calls changes anything, so that once the   *)
(* active source is initialized a call only nests deeper, and the rest of  *)
(* validate_time_sources (the drift, the fail counts and the switch to a   *)
(* backup) is never reached.  calls is the depth of that nesting; when the *)
(* stack is exhausted nothing further is executed.                         *)
(***************************************************************************)
EXTENDS HwTimer

CONSTANTS
  StackDepth   \* the nested calls for which the stack has room

Source == {"primary", "secondary", "software"}

VARIABLES
  sources,     \* the sources with source_initialized set
  active,      \* active_source
  calls        \* nested calls of kernel_time_get_tick_count

timeVars == <<timerVars, sources, active, calls>>

TimeInit ==
  /\ timer = TimerStatic /\ ticks = 0
  /\ sources = {}
  /\ active = "primary"         \* the first member of time_source_t
  /\ calls = 0

\* init_primary_time_source; when it fails, kernel_time_init goes on with
\* active_source as it was.
InitPrimary ==
  /\ HwTimerInit
  /\ sources' = IF timer'.initialized THEN sources \cup {"primary"} ELSE sources
  /\ UNCHANGED <<active, calls>>

\* init_secondary_time_source; the clock of the platform may fail.
InitSecondary ==
  /\ sources' \in {sources, sources \cup {"secondary"}}
  /\ UNCHANGED <<timerVars, active, calls>>

InitSoftware ==
  /\ sources' = sources \cup {"software"}
  /\ UNCHANGED <<timerVars, active, calls>>

\* kernel_time_get_tick_count with an active source that is not initialized
\* reads 0.
TickReadsZero ==
  /\ active \notin sources
  /\ UNCHANGED timeVars

\* kernel_time_get_tick_count and validate_time_sources call each other.
TickRecurses ==
  /\ active \in sources
  /\ calls < StackDepth
  /\ calls' = calls + 1
  /\ UNCHANGED <<timerVars, sources, active>>
=============================================================================
