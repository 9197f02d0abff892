--------------------------- MODULE KernelWatchdog ---------------------------
(***************************************************************************)
(* The kernel watchdog of lib/watchdog/watchdog.c: a registry of kernel    *)
(* components, and the handler the system monitor calls when the watchdog  *)
(* of a level times out.  Registrations and timeouts are logged through    *)
(* the logging client, whose result nobody looks at; LogClient therefore   *)
(* runs along, with other callers of its own.                              *)
(*                                                                         *)
(* The name of a component and the time of its last sign of life, which    *)
(* nothing sets, are left out.  alarm is history: the entry that logged    *)
(* the last timeout of a component, or 0.                                  *)
(***************************************************************************)
EXTENDS LogClient

CONSTANTS
  WatchdogLevel,   \* kernel_watchdog_level_t
  MaxComponents,   \* the size of the registry
  Timeout          \* the timeouts components ask for, in milliseconds

ASSUME WatchdogAssumption == MaxComponents \in Nat \ {0} /\ Timeout \subseteq Nat

VARIABLES
  initialized,     \* kernel_watchdog_ctx.initialized
  components       \* kernel_watchdog_ctx.components, up to component_count

watchdogVars == <<initialized, components>>

Component ==
  [level : WatchdogLevel, timeout_ms : 10 .. 10000,
   state : {"DISABLED", "TRIGGERED"}, alarm : 0 .. MaxSends]

\* One type invariant.
WatchdogTypeOK ==
  /\ TypeOK
  /\ initialized \in BOOLEAN
  /\ components \in Seq(Component)
  /\ Len(components) <= MaxComponents
-----------------------------------------------------------------------------
WatchdogInit ==
  /\ Init
  /\ initialized = FALSE
  /\ components = << >>

\* kernel_watchdog_init: everything is cleared, and the watchdog is
\* initialized unless its topic cannot be registered.
InitWatchdog ==
  /\ ~initialized
  /\ components' = << >>
  /\ initialized' \in BOOLEAN
  /\ UNCHANGED vars

\* kernel_watchdog_register
Register(level, timeout_ms) ==
  /\ initialized
  /\ Len(components) < MaxComponents
  /\ timeout_ms \in 10 .. 10000
  /\ components' = Append(components,
       [level |-> level, timeout_ms |-> timeout_ms, state |-> "DISABLED", alarm |-> 0])
  /\ SendEntry
  /\ UNCHANGED initialized

\* The component that the handler finds: the first of its level.
FirstOf(level) ==
  CHOOSE i \in DOMAIN components :
    /\ components[i].level = level
    /\ \A j \in 1 .. i - 1 : components[j].level # level

\* A faulty handler that leaves the loop before it has logged.
TimeoutHandlerSilent(level) ==
  /\ \E i \in DOMAIN components : components[i].level = level
  /\ components' = [components EXCEPT ![FirstOf(level)].state = "TRIGGERED"]
  /\ UNCHANGED <<initialized, vars>>

\* kernel_watchdog_timeout_handler; without a component of the level it does
\* nothing.
TimeoutHandler(level) ==
  /\ \E i \in DOMAIN components : components[i].level = level
  /\ components' = [components EXCEPT ![FirstOf(level)].state = "TRIGGERED",
                                      ![FirstOf(level)].alarm = sent + 1]
  /\ SendEntry
  /\ UNCHANGED initialized

WatchdogNext ==
  \/ Next /\ UNCHANGED watchdogVars
  \/ InitWatchdog
  \/ \E level \in WatchdogLevel, timeout_ms \in Timeout : Register(level, timeout_ms)
  \/ \E level \in WatchdogLevel : TimeoutHandler(level)

WatchdogSpec == WatchdogInit /\ [][WatchdogNext]_<<vars, watchdogVars>>
-----------------------------------------------------------------------------
\* The ways in which entry e may be gone: the client has no ring yet, a
\* later log_client_init cleared the ring, or e fell back to the ring and so
\* many entries after it that it was pushed out.
Displaced(e) ==
  \/ ~early.initialized \/ e <= cleared
  \/ \E i \in 1 .. Len(fallback) - Capacity : fallback[i] = e

(* A timeout leaves a trace: the entry that logged the last timeout of a   *)
(* triggered component is published, or waits in the early ring, or was    *)
(* lost in one of the ways Displaced lists, although the handler ignores   *)
(* what the client returns (watchdog.c:151-154, log_client.c:179-190).     *)
AlarmTraceable ==
  \A i \in DOMAIN components : components[i].state = "TRIGGERED" =>
    LET e == components[i].alarm
    IN  Published(e) \/ Held(e) \/ (e > 0 /\ Displaced(e))
=============================================================================
