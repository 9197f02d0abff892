----------------------------- MODULE Scheduler -----------------------------
(***************************************************************************)
(* The process table and the dispatch loop of kernel/core/scheduler.c:     *)
(* scheduler_init, process_create with its feasibility analysis, and one   *)
(* iteration of the loop of scheduler_start.                               *)
(*                                                                         *)
(* A process is its place in the table, which is its pid.  The code's      *)
(* float utilizations are loads in units of which the processor has        *)
(* Precision, rounded down, and RmsLimit[n] is the bound of the analysis   *)
(* for n tasks less the safety margin, in the same units.  Times are left  *)
(* out: they only feed accounting and log entries.                         *)
(*                                                                         *)
(* process_resume, process_suspend and process_terminate are declared in   *)
(* scheduler.h:94-96 and defined nowhere; ChangeState is what they have to *)
(* do with the state of a process.  own is a history variable: the         *)
(* processes whose real-time parameters were analysed at their creation.   *)
(***************************************************************************)
EXTENDS Integers, FiniteSetsExt, Functions

CONSTANTS
  MaxProcesses,   \* SCHEDULER_MAX_PROCESSES
  Priority,       \* the priorities that callers pass, the smaller the
                  \* more urgent
  PriorityCount,  \* PROCESS_PRIORITY_COUNT; nothing checks a caller's
  RtParams,       \* the real-time parameters that callers pass
  UintMod,        \* the number of values of a uint32_t
  Precision,      \* the units that the processor is divided into
  RmsLimit        \* per number of tasks, the admissible load

Pid == 1 .. MaxProcesses
Idle == 0                             \* SCHEDULER_IDLE_PID
Unset == [period |-> 0, deadline |-> 0, wcet |-> 0]

ASSUME SizeAssumption == MaxProcesses \in Nat \ {0}
ASSUME PriorityAssumption ==
  Priority \subseteq Nat /\ PriorityCount \in Nat \ {0}
ASSUME NumberAssumption == UintMod \in Nat \ {0} /\ Precision \in Nat \ {0}
ASSUME ParamsAssumption ==
  RtParams \subseteq [period : Nat, deadline : Nat, wcet : Nat]
ASSUME LimitAssumption ==
  /\ RmsLimit \in [Pid -> Int]
  /\ \A m, n \in Pid : m <= n => RmsLimit[n] <= RmsLimit[m]

State == {"created", "ready", "running", "blocked", "suspended", "terminated"}

VARIABLES
  initialized,     \* rt_initialized
  table,           \* process_table, the places never used included
  process_count,
  current_pid,
  own              \* the processes admitted with parameters of their own

vars == <<initialized, table, process_count, current_pid, own>>

\* One type invariant.
TypeOK ==
  /\ initialized \in BOOLEAN
  /\ table \in [Pid -> [state : State, priority : Priority \cup {0},
                        params : RtParams \cup {Unset}]]
  /\ process_count \in 0 .. MaxProcesses
  /\ current_pid \in {Idle} \cup 1 .. process_count
  /\ own \subseteq 1 .. process_count
-----------------------------------------------------------------------------
Created == 1 .. process_count

\* The processes that the scan can take: it starts from the priority
\* PROCESS_PRIORITY_COUNT, so that a less urgent one is passed over.
Eligible ==
  {p \in Created : table[p].state = "ready" /\ table[p].priority < PriorityCount}

\* wcet is in microseconds, the period in milliseconds.  The division is in
\* floating point, where the product does not wrap around.
Load(params) ==
  IF params.period = 0 THEN 0
  ELSE (params.wcet * Precision) \div (params.period * 1000)

TotalLoad(pids) ==
  SumFunctionOnSet([p \in Pid |-> Load(table[p].params)], pids)

\* The period in microseconds is a product of 32-bit integers.
ValidParams(params) ==
  /\ params.period # 0 /\ params.deadline # 0 /\ params.wcet # 0
  /\ params.deadline <= params.period
  /\ params.wcet < (params.period * 1000) % UintMod

\* A faulty analysis that looks at the new task alone.
FeasibleAlone(params) ==
  ValidParams(params) /\ Load(params) <= RmsLimit[process_count + 1]

\* scheduler_rt_feasibility_check: the new task with those already admitted.
Feasible(params) ==
  /\ ValidParams(params)
  /\ TotalLoad(Created) + Load(params) <= RmsLimit[process_count + 1]
-----------------------------------------------------------------------------
\* g_scheduler is a static object.
Cleared ==
  [p \in Pid |-> [state |-> "created", priority |-> 0, params |-> Unset]]

Init ==
  /\ initialized = FALSE
  /\ table = Cleared
  /\ process_count = 0
  /\ current_pid = Idle
  /\ own = {}

\* scheduler_init, called once by kernel_init.
SchedulerInit ==
  /\ ~initialized
  /\ initialized' = TRUE
  /\ table' = Cleared
  /\ process_count' = 0
  /\ current_pid' = Idle
  /\ own' = {}

\* A faulty creation that does not look at the size of the table.
CreateUnlimited(priority) ==
  /\ table' = [table EXCEPT ![process_count + 1].state = "created",
                            ![process_count + 1].priority = priority]
  /\ process_count' = process_count + 1
  /\ UNCHANGED <<initialized, current_pid, own>>

\* process_create without real-time parameters: the place keeps the ones
\* that an earlier, refused creation left in it.
CreatePlain(priority) ==
  /\ process_count < MaxProcesses
  /\ table' = [table EXCEPT ![process_count + 1].state = "created",
                            ![process_count + 1].priority = priority]
  /\ process_count' = process_count + 1
  /\ UNCHANGED <<initialized, current_pid, own>>

\* process_create with real-time parameters, admitted only if feasible; the
\* place is written in either case.
CreateRealtime(priority, params) ==
  /\ process_count < MaxProcesses
  /\ table' = [table EXCEPT ![process_count + 1] =
                 [state |-> "created", priority |-> priority, params |-> params]]
  /\ IF Feasible(params)
     THEN /\ process_count' = process_count + 1
          /\ own' = own \cup {process_count + 1}
     ELSE UNCHANGED <<process_count, own>>
  /\ UNCHANGED <<initialized, current_pid>>

\* The functions that scheduler.h declares: a waiting process is made ready,
\* a ready or running one is suspended or terminated.
ChangeState(p, state) ==
  /\ \/ /\ table[p].state \in {"created", "suspended"}
        /\ state = "ready"
     \/ /\ table[p].state \in {"ready", "running"}
        /\ state \in {"suspended", "terminated"}
  /\ table' = [table EXCEPT ![p].state = state]
  /\ UNCHANGED <<initialized, process_count, current_pid, own>>

\* A faulty selection that takes the last eligible process of the table.
ChosenLast == IF Eligible = {} THEN Idle ELSE Max(Eligible)

\* The scan of the loop: the first eligible process of the highest priority.
Chosen ==
  IF Eligible = {} THEN Idle
  ELSE CHOOSE p \in Eligible :
         \A q \in Eligible :
           \/ table[p].priority < table[q].priority
           \/ table[p].priority = table[q].priority /\ p <= q

\* One iteration of scheduler_start; the process switched away from keeps
\* its state, and so does one chosen again.
Dispatch ==
  /\ initialized
  /\ current_pid' = Chosen
  /\ table' = IF Chosen \in {Idle, current_pid}
              THEN table ELSE [table EXCEPT ![Chosen].state = "running"]
  /\ UNCHANGED <<initialized, process_count, own>>

Next ==
  \/ SchedulerInit
  \/ \E priority \in Priority : CreatePlain(priority)
  \/ \E priority \in Priority, params \in RtParams :
       CreateRealtime(priority, params)
  \/ \E p \in Created, state \in State : ChangeState(p, state)
  \/ Dispatch

\* scheduler_start loops for ever.
Spec == Init /\ [][Next]_vars /\ WF_vars(Dispatch)
-----------------------------------------------------------------------------
(* The tasks admitted with parameters of their own satisfy the bound for   *)
(* their number, although tasks without parameters come in between and     *)
(* each analysis uses the number of tasks of its own moment                *)
(* (scheduler.c:284-288).                                                  *)
AdmittedLoad ==
  own # {} => TotalLoad(own) <= RmsLimit[Cardinality(own)]

(* A ready process of a priority below PROCESS_PRIORITY_COUNT that no      *)
(* other can precede is dispatched, unless it stops being ready: no        *)
(* sequence of creations, wake-ups and suspensions of others keeps the     *)
(* loop from it (scheduler.c:149-165).                                     *)
First(p) ==
  \A q \in Created \ {p} : \/ table[p].priority < table[q].priority
                           \/ table[p].priority = table[q].priority /\ p < q

TopReadyRuns ==
  \A p \in Pid :
    [](initialized /\ p \in Eligible /\ First(p)
         => <>(current_pid = p \/ ~(p \in Eligible /\ First(p))))

(* scheduler.c:155 "always choose highest priority ready task": after an   *)
(* iteration no process that could run is more urgent than the current.    *)
HighestPriorityRuns ==
  [][Dispatch =>
       \A p \in Created : table[p].state \in {"ready", "running"} =>
         /\ current_pid' # Idle
         /\ table[current_pid'].priority <= table[p].priority]_vars
=============================================================================
