------------------------ MODULE InterruptController ------------------------
(***************************************************************************)
(* The interrupt controller of kernel/core/interrupt.c on top of HwTimer.  *)
(* A thread initializes the controller and registers handlers, one         *)
(* assignment at a time; interrupts arrive between its steps and nest.     *)
(*                                                                         *)
(* interrupt_enter_critical_section is a stub (interrupt.c:487) that a     *)
(* platform replaces: masks says whether the one at hand really keeps      *)
(* interrupts out.  A handler is registered with a context of its own, so  *)
(* that a context is named by the handler it belongs to.  Of a latency     *)
(* only the comparison with the limit is kept: nothing else is used.       *)
(* interrupt_enable only sets a bit that nothing reads and is left out.    *)
(* truth is a history variable.                                            *)
(***************************************************************************)
EXTENDS HwTimer, Sequences

CONSTANTS
  Irq,            \* interrupt numbers
  Handler,        \* the handlers that are registered, and their contexts
  None,           \* no handler
  Priority,       \* the priorities that callers ask for
  PriorityLevels, \* INTERRUPT_PRIORITY_LEVELS
  LatencyLimit,   \* MAX_ACCEPTABLE_LATENCY_US
  StormLimit,     \* 1000
  CounterMod,     \* number of values of the uint32_t counters
  MaxDepth        \* bound on the nesting

ASSUME IrqAssumption ==
  /\ None \notin Handler /\ Priority \subseteq Nat
  /\ PriorityLevels \in Nat \ {0} /\ LatencyLimit \in Nat
  /\ StormLimit \in Nat /\ CounterMod \in Nat /\ StormLimit + 1 < CounterMod
  /\ MaxDepth \in Nat \ {0}

VARIABLES
  masks,         \* whether a critical section keeps interrupts out
  irq_initialized,   \* g_interrupt_controller.initialized
  enabled,       \* interrupt_global_enable has run
  handlers, handler_contexts, interrupt_priorities,
  interrupt_counters,
  late,          \* per interrupt, latency_measurements over the limit
  thread,        \* where the thread is, and the registration it works on
  frames,        \* the interrupts being handled, the innermost first
  truth          \* per interrupt, how long the last handling really took

table == <<handlers, handler_contexts, interrupt_priorities>>
measured == <<interrupt_counters, late>>
interruptVars ==
  <<timerVars, masks, irq_initialized, enabled, table, measured, thread, frames,
    truth>>

Idle == [at |-> "idle"]
Registration ==
  [at : {"context", "priority"}, irq : Irq, handler : Handler, prio : Priority]
Frame == [irq : Irq, entry : Nat, since : Nat, skewed : BOOLEAN]

\* One type invariant.
InterruptTypeOK ==
  /\ timer \in TimerType /\ ticks \in 0 .. MaxTicks
  /\ masks \in BOOLEAN /\ irq_initialized \in BOOLEAN /\ enabled \in BOOLEAN
  /\ handlers \in [Irq -> Handler \cup {None}]
  /\ handler_contexts \in [Irq -> Handler \cup {None}]
  /\ interrupt_priorities \in [Irq -> 0 .. PriorityLevels - 1]
  /\ interrupt_counters \in [Irq -> 0 .. CounterMod - 1]
  /\ late \in [Irq -> BOOLEAN]
  /\ thread \in {Idle, [at |-> "self_test"]} \cup Registration
  /\ frames \in Seq(Frame) /\ Len(frames) <= MaxDepth
  /\ truth \in [Irq -> {"short", "long", "skewed"}]
-----------------------------------------------------------------------------
\* A faulty critical section that ends before the context is stored.
InCriticalSectionLate == thread.at = "priority"

InCriticalSection == thread.at \in {"context", "priority"}
Masked == masks /\ InCriticalSection

Cleared ==
  /\ handlers' = [i \in Irq |-> None]
  /\ handler_contexts' = [i \in Irq |-> None]
  /\ interrupt_priorities' = [i \in Irq |-> 0]
  /\ interrupt_counters' = [i \in Irq |-> 0]
  /\ late' = [i \in Irq |-> FALSE]

Storm == \E i \in Irq : interrupt_counters[i] > StormLimit
Violation == \E i \in Irq : interrupt_counters[i] > 0 /\ late[i]

\* interrupt_safety_check of an initialized controller.
SafetyCheckFails == Storm \/ Violation

\* record_interrupt_latency: the unsigned difference of two readings.
ExceedsLimit(entry, exit) == exit < entry \/ exit - entry > LatencyLimit
-----------------------------------------------------------------------------
InterruptInit ==
  /\ timer = TimerStatic /\ ticks = 0
  /\ masks \in BOOLEAN
  /\ irq_initialized = FALSE /\ enabled = FALSE
  /\ handlers = [i \in Irq |-> None]
  /\ handler_contexts = [i \in Irq |-> None]
  /\ interrupt_priorities = [i \in Irq |-> 0]
  /\ interrupt_counters = [i \in Irq |-> 0]
  /\ late = [i \in Irq |-> FALSE]
  /\ thread = Idle
  /\ frames = << >>
  /\ truth = [i \in Irq |-> "short"]

ThreadAt(place) == thread.at = place /\ frames = << >>

\* kernel_init_pure_hardware starts the timer before the controller.
StartTimer ==
  /\ ThreadAt("idle") /\ ~irq_initialized
  /\ HwTimerInit
  /\ UNCHANGED <<masks, irq_initialized, enabled, table, measured, thread,
                 frames, truth>>

\* interrupt_controller_init up to its self-test: interrupts are enabled.
ControllerInit ==
  /\ ThreadAt("idle") /\ ~irq_initialized
  /\ Cleared
  /\ irq_initialized' = TRUE /\ enabled' = TRUE
  /\ thread' = [at |-> "self_test"]
  /\ truth' = [i \in Irq |-> "short"]
  /\ UNCHANGED <<timerVars, masks, frames>>

\* The self-test that ends interrupt_controller_init; when it fails, the
\* controller stays initialized with its interrupts enabled all the same.
SelfTest ==
  /\ ThreadAt("self_test")
  /\ thread' = Idle
  /\ UNCHANGED <<timerVars, masks, irq_initialized, enabled, table, measured,
                 frames, truth>>

\* interrupt_register_handler enters the critical section and stores the
\* handler, then the context, then the priority; a priority out of range is
\* refused when the other two are in place.
RegisterHandler(i, h, prio) ==
  /\ irq_initialized /\ ThreadAt("idle")
  /\ handlers' = [handlers EXCEPT ![i] = h]
  /\ thread' = [at |-> "context", irq |-> i, handler |-> h, prio |-> prio]
  /\ UNCHANGED <<timerVars, masks, irq_initialized, enabled, handler_contexts,
                 interrupt_priorities, measured, frames, truth>>

RegisterContext ==
  /\ ThreadAt("context")
  /\ handler_contexts' = [handler_contexts EXCEPT ![thread.irq] = thread.handler]
  /\ thread' = [thread EXCEPT !.at = "priority"]
  /\ UNCHANGED <<timerVars, masks, irq_initialized, enabled, handlers,
                 interrupt_priorities, measured, frames, truth>>

\* A faulty registration that accepts any priority.
RegisterPriorityUnchecked ==
  /\ ThreadAt("priority")
  /\ interrupt_priorities' =
       [interrupt_priorities EXCEPT ![thread.irq] = thread.prio]
  /\ thread' = Idle
  /\ UNCHANGED <<timerVars, masks, irq_initialized, enabled, handlers,
                 handler_contexts, measured, frames, truth>>

\* interrupt_hw_set_priority, whose exit from the critical section is the
\* first of two.
RegisterPriority ==
  /\ ThreadAt("priority")
  /\ interrupt_priorities' =
       IF thread.prio < PriorityLevels
       THEN [interrupt_priorities EXCEPT ![thread.irq] = thread.prio]
       ELSE interrupt_priorities
  /\ thread' = Idle
  /\ UNCHANGED <<timerVars, masks, irq_initialized, enabled, handlers,
                 handler_contexts, measured, frames, truth>>

\* interrupt_handler up to the call of the registered handler.
Enter(i) ==
  /\ enabled /\ ~Masked
  /\ Len(frames) < MaxDepth
  /\ \A n \in 1 .. Len(frames) : frames[n].irq # i
  /\ interrupt_counters' = [interrupt_counters EXCEPT ![i] = (@ + 1) % CounterMod]
  /\ frames' = <<[irq |-> i, entry |-> Counter, since |-> ticks,
                  skewed |-> WrapPending]>> \o frames
  /\ UNCHANGED <<timerVars, masks, irq_initialized, enabled, table, late, thread,
                 truth>>

\* interrupt_handler after that call: record_interrupt_latency.
Leave ==
  /\ frames # << >>
  /\ LET f == Head(frames)
     IN  /\ late' = [late EXCEPT ![f.irq] = ExceedsLimit(f.entry, Counter)]
         /\ truth' = [truth EXCEPT ![f.irq] =
                        IF f.skewed # WrapPending THEN "skewed"
                        ELSE IF ticks - f.since > LatencyLimit THEN "long"
                        ELSE "short"]
  /\ frames' = Tail(frames)
  /\ UNCHANGED <<timerVars, masks, irq_initialized, enabled, table,
                 interrupt_counters, thread>>

\* The timer's own interrupt, and the passing of time.
TimerEvent ==
  /\ Count \/ (~Masked /\ TimerInterrupt)
  /\ UNCHANGED <<masks, irq_initialized, enabled, table, measured, thread,
                 frames, truth>>

InterruptNext ==
  \/ StartTimer \/ ControllerInit \/ SelfTest
  \/ \E i \in Irq, h \in Handler, prio \in Priority : RegisterHandler(i, h, prio)
  \/ RegisterContext \/ RegisterPriority
  \/ \E i \in Irq : Enter(i)
  \/ Leave
  \/ TimerEvent

InterruptSpec == InterruptInit /\ [][InterruptNext]_interruptVars
-----------------------------------------------------------------------------
(* On a platform whose critical sections keep interrupts out, a handler is *)
(* called with the context it was registered with, however interrupts fall *)
(* between the assignments of a registration (interrupt.c:295-296, 109).   *)
HandlerGetsItsContext ==
  [][masks => \A i \in Irq :
       Enter(i) /\ handlers[i] # None => handler_contexts[i] = handlers[i]]_interruptVars

(* The safety check blames the interrupts for what they really did: it     *)
(* fails only on a storm, on a handling that did take too long, or on one  *)
(* that read the timer before and after the service of a wrap; it passes   *)
(* only if the last handling of no interrupt took too long, unless the     *)
(* counter of that interrupt is 0 again                                    *)
(* (interrupt.c:57-65, 161-175, 194-216; hw_timer.c:83, 126).              *)
VerdictJustified ==
  /\ SafetyCheckFails => Storm \/ \E i \in Irq : truth[i] # "short"
  /\ ~SafetyCheckFails =>
       \A i \in Irq : interrupt_counters[i] # 0 => truth[i] # "long"
=============================================================================
