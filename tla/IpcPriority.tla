---------------------------- MODULE IpcPriority ----------------------------
(***************************************************************************)
(* The adaptive configuration of lib/libipc/ipc_priority.c: each priority  *)
(* has a timeout, which is shortened or lengthened with the load of its    *)
(* queue.  No function relates two priorities, so that the module follows  *)
(* one of them, which may be any.                                          *)
(*                                                                         *)
(* A configuration is its timeout and the depth of its queue.  The number  *)
(* of retries and the saved utilization, which nothing but the getters     *)
(* reads, are left out; calls with an invalid priority or a null pointer   *)
(* change nothing.  base and wrapped are history variables.                *)
(***************************************************************************)
EXTENDS Integers, FiniteSetsExt

CONSTANTS
  PriorityCount,    \* IPC_PRIORITY_COUNT
  DefaultConfig,    \* g_priority_configs as it is initialized
  CustomConfig,     \* the configurations handed to ipc_set_priority_config
  QueueDepth,       \* the current depths that callers report
  MinTimeout,       \* the minimum timeout under critical load
  TimeoutStep,      \* what a high load adds to the timeout
  TimeoutMod,       \* 2^32
  PercentMod        \* 2^8, the width of a utilization

Priority == 0 .. PriorityCount - 1
Highest == 0                    \* IPC_PRIORITY_EMERGENCY
Lowest == PriorityCount - 1     \* IPC_PRIORITY_INFO

Config == [timeout_ms : 0 .. TimeoutMod - 1, max_queue_depth : Nat]

ASSUME PriorityAssumption ==
  /\ PriorityCount \in Nat \ {0, 1}
  /\ MinTimeout \in Nat \ {0} /\ TimeoutStep \in Nat \ {0}
  /\ TimeoutMod \in Nat /\ PercentMod \in Nat
  /\ MinTimeout < TimeoutMod /\ TimeoutStep < TimeoutMod /\ 100 < PercentMod
  /\ QueueDepth \subseteq Nat
  /\ CustomConfig \subseteq Config
  /\ DefaultConfig \in [Priority -> Config]
  /\ \A p \in Priority : /\ DefaultConfig[p].timeout_ms > 0
                         /\ DefaultConfig[p].max_queue_depth > 0

VARIABLES
  priority,   \* the priority that is followed
  config,     \* its member of g_priority_configs
  base,       \* its timeout when it was last set or reset
  wrapped     \* has its timeout wrapped around since then?

qosVars == <<priority, config, base, wrapped>>

QosTypeOK ==
  /\ priority \in Priority
  /\ config \in Config
  /\ config.max_queue_depth > 0
  /\ base \in 1 .. TimeoutMod - 1
  /\ wrapped \in BOOLEAN
-----------------------------------------------------------------------------
\* calculate_utilization, whose result is truncated to 8 bits
Utilization(depth) ==
  IF config.max_queue_depth = 0
  THEN 100
  ELSE ((depth * 100) \div config.max_queue_depth) % PercentMod

Critical(depth) == Utilization(depth) >= 95
High(depth) == Utilization(depth) >= 80 /\ ~Critical(depth)

\* A faulty halving without the minimum.
HalvedBare(timeout) == timeout \div 2

Halved(timeout) == Max({timeout \div 2, MinTimeout})

\* A faulty condition that takes resources from the highest priority too.
GivesWayAlways(p) == TRUE

\* Critical load shortens the timeout of all priorities but the highest.
GivesWay(p) == p > Highest
-----------------------------------------------------------------------------
QosInit ==
  /\ priority \in Priority
  /\ config = DefaultConfig[priority]
  /\ base = config.timeout_ms
  /\ wrapped = FALSE

\* ipc_adjust_priority_dynamic, directly or by
\* ipc_get_dynamic_priority_config
Shorten(depth) ==
  /\ Critical(depth) /\ GivesWay(priority)
  /\ config' = [config EXCEPT !.timeout_ms = Halved(@)]
  /\ UNCHANGED <<priority, base, wrapped>>

Lengthen(depth) ==
  /\ High(depth) /\ priority < Lowest
  /\ config' = [config EXCEPT !.timeout_ms = (@ + TimeoutStep) % TimeoutMod]
  /\ wrapped' = (wrapped \/ config.timeout_ms + TimeoutStep >= TimeoutMod)
  /\ UNCHANGED <<priority, base>>

\* Any other load leaves the configuration alone.
Adjust(depth) == Shorten(depth) \/ Lengthen(depth)

\* ipc_reset_priority_config
ResetConfig ==
  /\ config' = DefaultConfig[priority]
  /\ base' = config'.timeout_ms
  /\ wrapped' = FALSE
  /\ UNCHANGED priority

\* ipc_set_priority_config
SetConfig(c) ==
  /\ c.timeout_ms # 0 /\ c.max_queue_depth # 0
  /\ config' = c
  /\ base' = c.timeout_ms
  /\ wrapped' = FALSE
  /\ UNCHANGED priority

QosNext ==
  \/ \E depth \in QueueDepth : Adjust(depth)
  \/ ResetConfig
  \/ \E c \in CustomConfig : SetConfig(c)
-----------------------------------------------------------------------------
(* Load moves the timeouts of the extreme priorities one way each          *)
(* (ipc_priority.c:77-90): however high and low loads alternate, the       *)
(* lowest priority never waits longer than it was configured to or the     *)
(* minimum, and the highest never waits less than it was configured to,    *)
(* unless its 32-bit timeout has wrapped around.                           *)
TimeoutDrift ==
  /\ priority = Lowest => config.timeout_ms <= Max({base, MinTimeout})
  /\ priority = Highest => config.timeout_ms >= base \/ wrapped

(* A timeout of zero, which ipc_set_priority_config refuses                *)
(* (ipc_priority.c:233), is never reached by adjustments either, except    *)
(* by wrapping around.                                                     *)
NeverZero == config.timeout_ms = 0 => wrapped
=============================================================================
