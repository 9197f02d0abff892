---------------------------- MODULE HwWatchdog ----------------------------
(***************************************************************************)
(* The hardware watchdog driver of platform/bsp/hw_watchdog.c, used by the *)
(* system monitor.  The platform functions and the safety self-test are    *)
(* outside the repository and may fail.  The only timeout passed to it is  *)
(* 1000 ms, which is between the driver's limits.                          *)
(***************************************************************************)

VARIABLES
  hw     \* g_hw_watchdog_state

HwType ==
  [initialized : BOOLEAN, state : {"disabled", "armed", "triggered"}]

HwStatic == [initialized |-> FALSE, state |-> "disabled"]

\* hw_watchdog_init succeeds: nothing ever assigns WATCHDOG_STATE_ARMED.
HwInit ==
  /\ ~hw.initialized
  /\ hw' = [initialized |-> TRUE, state |-> "disabled"]

\* hw_watchdog_init fails: refused at once, or by the platform.
HwInitFails ==
  /\ hw' = IF hw.initialized THEN hw ELSE HwStatic

\* hw_watchdog_pet gets to the platform.
HwPetted == hw.initialized /\ hw.state = "armed"

\* hw_watchdog_timeout_handler
HwTimeout ==
  /\ hw.initialized
  /\ hw' = [hw EXCEPT !.state = "triggered"]
=============================================================================
