---------------------------- MODULE Supervision ----------------------------
(***************************************************************************)
(* The two supervisors of the system: the kernel watchdog with the client  *)
(* it logs through, and the self-checking system monitor on the hardware   *)
(* watchdog.  The monitor calls the kernel watchdog's handler on a         *)
(* timeout, which KernelWatchdog lets happen at any moment, and the two    *)
(* share no other state, so that a behaviour follows one of them, which    *)
(* may be either.                                                          *)
(***************************************************************************)
EXTENDS KernelWatchdog, SystemMonitor

VARIABLE supervisor     \* the supervisor that is followed

supervisionVars == <<supervisor, vars, watchdogVars, monitorVars>>

SupervisionInit ==
  /\ supervisor \in {"kernel watchdog", "system monitor"}
  /\ WatchdogInit /\ MonitorInit

SupervisionNext ==
  \/ /\ supervisor = "kernel watchdog" /\ WatchdogNext
     /\ UNCHANGED <<supervisor, monitorVars>>
  \/ /\ supervisor = "system monitor" /\ MonitorNext
     /\ UNCHANGED <<supervisor, vars, watchdogVars>>

SupervisionSpec == SupervisionInit /\ [][SupervisionNext]_supervisionVars
=============================================================================
