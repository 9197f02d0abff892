---------------------------- MODULE KernelBoot ----------------------------
(***************************************************************************)
(* The startup sequence of kernel/core/kernel.c: kernel_init calls five    *)
(* phase functions, which call the initialization of every subsystem and   *)
(* give up at the first error.  Time is initialized by KernelTime; of the  *)
(* other subsystems only the result of the call is kept.  ipc_kernel_init  *)
(* (kernel/core/ipc.c:45) asks memory_alloc for a shared buffer, which it  *)
(* gets only if one block of the largest pool holds it.                    *)
(* fault is a history variable: a part that may fail on a good day has.    *)
(***************************************************************************)
EXTENDS KernelTime

CONSTANTS
  SharedBufferSize,   \* IPC_SHARED_BUFFER_SIZE
  LargestBlock        \* block size of the largest memory pool

VARIABLES
  at,      \* the call that kernel_init makes next
  phase,   \* g_current_phase
  fault

vars == <<timeVars, at, phase, fault>>

Init ==
  /\ TimeInit
  /\ at = "primary"
  /\ phase = "pure_hardware"
  /\ fault = FALSE

Goto(here, next) == at = here /\ at' = next /\ UNCHANGED fault
Abandon(here) == at = here /\ at' = "failed"

\* A call that may return an error, which its phase and kernel_init return.
MayFail(here, next) ==
  /\ Goto(here, next) \/ (Abandon(here) /\ fault' = TRUE)
  /\ UNCHANGED <<timeVars, phase>>

Succeeds(here, next) ==
  /\ Goto(here, next)
  /\ UNCHANGED <<timeVars, phase>>

\* g_current_phase is assigned and the transition logged; an error of the log
\* is returned like any other.
Transition(here, next, to) ==
  /\ Goto(here, next) \/ (Abandon(here) /\ fault' = TRUE)
  /\ phase' = to
  /\ UNCHANGED timeVars

\* kernel_time_init, which ends with a first reading of the time.
KernelTimeInit ==
  \/ Goto("primary", "secondary") /\ InitPrimary /\ UNCHANGED phase
  \/ Goto("secondary", "software") /\ InitSecondary /\ UNCHANGED phase
  \/ Goto("software", "first_tick") /\ InitSoftware /\ UNCHANGED phase
  \/ Goto("first_tick", "interrupts") /\ TickReadsZero /\ UNCHANGED phase
  \/ at = "first_tick" /\ TickRecurses /\ UNCHANGED <<at, phase, fault>>

\* ipc_kernel_init and memory_alloc_shared
IpcKernelInit ==
  /\ IF SharedBufferSize <= LargestBlock THEN Goto("ipc", "core_ready")
                                         ELSE Abandon("ipc") /\ UNCHANGED fault
  /\ UNCHANGED <<timeVars, phase>>

Boot ==
  \/ KernelTimeInit
  \/ MayFail("interrupts", "log_client")
  \/ MayFail("log_client", "logging_ready")
  \/ Transition("logging_ready", "memory", "hardware")
  \/ Succeeds("memory", "ipc")
  \/ IpcKernelInit
  \/ Transition("core_ready", "monitor_init", "kernel_core")
  \/ MayFail("monitor_init", "monitor_start")
  \/ MayFail("monitor_start", "monitor_ready")
  \/ Transition("monitor_ready", "syscall", "safety_monitor")
  \/ Succeeds("syscall", "scheduler")
  \/ MayFail("scheduler", "watchdog")
  \/ MayFail("watchdog", "services_ready")
  \/ Transition("services_ready", "done", "system_services")
  \/ Goto("done", "returned") /\ phase' = "complete" /\ UNCHANGED timeVars

\* The timer counts and interrupts while the kernel starts.
Hardware ==
  /\ Count \/ TimerInterrupt
  /\ UNCHANGED <<sources, active, calls, at, phase, fault>>

Next == Boot \/ Hardware

\* Nothing preempts kernel_init.
Spec == Init /\ [][Next]_vars /\ WF_vars(Boot)
-----------------------------------------------------------------------------
(* kernel.c:197 "fixes the startup sequence to ensure proper dependency    *)
(* management": the startup completes (kernel.c:232) unless one of the     *)
(* subsystems it starts reports a fault of its own; the failure of the     *)
(* primary or the secondary time source is tolerated (time.c:246).         *)
BootCompletes == <>(phase = "complete" \/ fault)
=============================================================================
