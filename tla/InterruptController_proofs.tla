--------------------- MODULE InterruptController_proofs ---------------------
(***************************************************************************)
(* Proofs about InterruptController for any interrupts and handlers, any   *)
(* period of the hardware counter, limits and depth of nesting: its types, *)
(* that a handler gets the context it was registered with, and that the    *)
(* verdict of the safety check is justified.                               *)
(***************************************************************************)
EXTENDS InterruptController, TLAPS

(* Division by the period, of a time given as whole periods and a rest.    *)
LEMMA WholePeriods ==
  ASSUME NEW q \in Nat, NEW r \in Nat, r < Period
  PROVE  /\ (Period * q + r) \div Period = q
         /\ (Period * q + r) % Period = r
<1>1. Period \in Nat /\ Period > 0
  BY PeriodAssumption
<1> DEFINE x == Period * q + r
           d == x \div Period
           m == x % Period
<1>2. x \in Nat
  BY <1>1
<1>3. d \in Int /\ m \in 0 .. Period - 1 /\ x = Period * d + m
  <2> HIDE DEF x
  <2> QED
    BY <1>1, <1>2
<1> HIDE DEF d, m
<1>4. Period * (q - d) = m - r
  BY <1>1, <1>3
<1>5. ~(q - d >= 1)
  <2> SUFFICES ASSUME q - d >= 1 PROVE FALSE
    OBVIOUS
  <2>1. Period * (q - d) >= Period
    BY <1>1, <1>3
  <2> QED
    BY <1>1, <1>3, <1>4, <2>1
<1>6. ~(q - d <= -1)
  <2> SUFFICES ASSUME q - d <= -1 PROVE FALSE
    OBVIOUS
  <2>1. Period * (q - d) <= -Period
    BY <1>1, <1>3
  <2> QED
    BY <1>1, <1>3, <1>4, <2>1
<1>7. q = d
  BY <1>3, <1>5, <1>6
<1>8. m = r
  BY <1>1, <1>3, <1>7
<1> QED
  BY <1>7, <1>8 DEF d, m

\* The driver has counted b whole periods, the hardware q, which are the same
\* or one more; a timer that was not started shows nothing.
Counts(b, q, r) ==
  /\ timer.base = Period * b /\ ticks = Period * q + r
  /\ r < Period /\ b <= q /\ q <= b + 1

TimerInv ==
  /\ timer \in TimerType /\ ticks \in 0 .. MaxTicks
  /\ \E b, q, r \in Nat : Counts(b, q, r)
  /\ ~timer.initialized => ticks = 0 /\ timer.base = 0

\* How far the counter is behind
Behind(skewed) == IF skewed THEN Period ELSE 0

(* What the counter shows: the time, or one period less while a wrap is    *)
(* not yet served.                                                         *)
LEMMA CounterShows ==
  ASSUME TimerInv, NEW b \in Nat, NEW q \in Nat, NEW r \in Nat, Counts(b, q, r)
  PROVE  /\ timer.base \div Period = b /\ ticks \div Period = q
         /\ WrapPending <=> q = b + 1
         /\ Counter = ticks - Behind(WrapPending)
         /\ Counter \in Nat
<1>1. Period \in Nat /\ Period > 0
  BY PeriodAssumption
<1>2. timer.base = Period * b + 0
  BY <1>1 DEF Counts
<1>3. timer.base \div Period = b
  BY <1>1, <1>2, WholePeriods
<1>4. ticks \div Period = q /\ ticks % Period = r
  BY WholePeriods DEF Counts
<1>5. WrapPending <=> q = b + 1
  BY <1>3, <1>4 DEF WrapPending, Counts
<1>6. ASSUME timer.initialized
      PROVE  Counter = ticks - Behind(WrapPending) /\ Counter \in Nat
  <2>1. Counter = r + Period * b
    BY <1>4, <1>6 DEF Counter, Counts
  <2>2. CASE q = b + 1
    <3>1. ticks = Period * b + Period + r
      BY <1>1, <2>2 DEF Counts
    <3>2. Behind(WrapPending) = Period
      BY <1>5, <2>2 DEF Behind
    <3>3. Period * b \in Nat
      BY <1>1
    <3> QED
      BY <1>1, <2>1, <3>1, <3>2, <3>3
  <2>3. CASE q = b
    <3>1. ticks = Period * b + r
      BY <2>3 DEF Counts
    <3>2. Behind(WrapPending) = 0
      BY <1>5, <2>3 DEF Behind
    <3>3. Period * b \in Nat
      BY <1>1
    <3> QED
      BY <1>1, <2>1, <3>1, <3>2, <3>3
  <2> QED
    BY <2>2, <2>3 DEF Counts
<1>7. ASSUME ~timer.initialized
      PROVE  Counter = ticks - Behind(WrapPending) /\ Counter \in Nat
  <2>1. ticks = 0 /\ timer.base = 0
    BY <1>7 DEF TimerInv
  <2>2. ~WrapPending
    BY <1>3, <1>4, <1>5, <2>1
  <2> QED
    BY <1>7, <2>1, <2>2 DEF Counter, Behind
<1> QED
  BY <1>3, <1>4, <1>5, <1>6, <1>7

(* The timer is initialized, served and counts.                            *)
LEMMA TimerStep ==
  TimerInv /\ (HwTimerInit \/ TimerInterrupt \/ Count \/ UNCHANGED timerVars)
    => TimerInv' /\ ticks <= ticks'
<1> SUFFICES ASSUME TimerInv,
                    HwTimerInit \/ TimerInterrupt \/ Count \/ UNCHANGED timerVars
             PROVE  TimerInv' /\ ticks <= ticks'
  OBVIOUS
<1>1. Period \in Nat /\ Period > 0 /\ MaxTicks \in Nat
  BY PeriodAssumption
<1>2. PICK b \in Nat, q \in Nat, r \in Nat : Counts(b, q, r)
  BY DEF TimerInv
<1>3. ticks \in Nat /\ timer \in TimerType
  BY <1>1 DEF TimerInv
<1>4. CASE HwTimerInit
  <2>1. ticks = 0 /\ timer.base = 0 /\ ticks' = 0
    BY <1>4 DEF HwTimerInit, TimerInv
  <2>2. timer' \in TimerType /\ timer'.base = 0
    <3>1. TimerStatic \in TimerType /\ TimerStatic.base = 0
      BY DEF TimerStatic, TimerType
    <3>2. CASE timer' = TimerStatic
      BY <3>1, <3>2
    <3>3. CASE timer' = [TimerStatic EXCEPT !.initialized = TRUE]
      BY <3>1, <3>3 DEF TimerStatic, TimerType
    <3> QED
      BY <1>4, <3>2, <3>3 DEF HwTimerInit
  <2>3. Counts(0, 0, 0)'
    BY <1>1, <2>1, <2>2 DEF Counts
  <2> QED
    BY <1>1, <2>1, <2>2, <2>3 DEF TimerInv
<1>5. CASE TimerInterrupt
  <2>1. q = b + 1
    BY <1>2, <1>5, CounterShows DEF TimerInterrupt
  <2>2. /\ timer' = [timer EXCEPT !.base = timer.base + Period] /\ ticks' = ticks
        /\ timer.base + Period = Period * (b + 1) /\ timer.base + Period \in Nat
    BY <1>1, <1>2, <1>3, <1>5 DEF TimerInterrupt, Counts, TimerType
  <2>3. timer' \in TimerType /\ timer'.base = Period * (b + 1)
        /\ timer'.initialized = timer.initialized
    BY <1>3, <2>2 DEF TimerType
  <2>4. Counts(b + 1, q, r)'
    BY <1>2, <2>1, <2>2, <2>3 DEF Counts
  <2>5. timer.initialized
    <3>1. SUFFICES ASSUME ~timer.initialized PROVE FALSE
      OBVIOUS
    <3>2. ticks = 0 /\ timer.base = 0
      BY <3>1 DEF TimerInv
    <3>3. timer.base \div Period = b /\ ticks \div Period = q
      BY <1>2, CounterShows
    <3> QED
      BY <2>1, <3>2, <3>3
  <2> QED
    BY <1>3, <2>2, <2>3, <2>4, <2>5 DEF TimerInv
<1>6. CASE Count
  <2>1. /\ timer.initialized /\ ticks' = ticks + 1 /\ timer' = timer
        /\ ticks' \in 0 .. MaxTicks /\ ticks' \div Period <= b + 1
    BY <1>1, <1>2, <1>3, <1>6, CounterShows DEF Count
  <2>2. CASE r + 1 < Period
    <3>1. Counts(b, q, r + 1)'
      BY <1>1, <1>2, <2>1, <2>2 DEF Counts
    <3> QED
      BY <1>3, <2>1, <3>1 DEF TimerInv
  <2>3. CASE r + 1 = Period
    <3>1. ticks' = Period * (q + 1) + 0
      BY <1>1, <1>2, <2>1, <2>3 DEF Counts
    <3>2. ticks' \div Period = q + 1
      BY <1>1, <3>1, WholePeriods
    <3>3. Counts(b, q + 1, 0)'
      BY <1>1, <1>2, <2>1, <3>1, <3>2 DEF Counts
    <3> QED
      BY <1>3, <2>1, <3>3 DEF TimerInv
  <2> QED
    BY <1>1, <1>2, <2>2, <2>3 DEF Counts
<1>7. CASE UNCHANGED timerVars
  <2>1. timer' = timer /\ ticks' = ticks
    BY <1>7 DEF timerVars
  <2>2. Counts(b, q, r)'
    BY <1>2, <2>1 DEF Counts
  <2> QED
    BY <1>3, <2>1, <2>2 DEF TimerInv
<1> QED
  BY <1>4, <1>5, <1>6, <1>7
-----------------------------------------------------------------------------
\* A frame whose reading at the entry was right, but for a wrap not served
Measured == {f \in Frame : f.entry = f.since - Behind(f.skewed)}

FramesInv ==
  /\ frames \in Seq(Measured) /\ Len(frames) <= MaxDepth
  /\ \A n \in 1 .. Len(frames) : frames[n].since <= ticks

ThreadType == {Idle, [at |-> "self_test"]} \cup Registration

(* The places of the thread.                                               *)
LEMMA Places ==
  ASSUME thread \in ThreadType
  PROVE  /\ thread.at = "idle" <=> thread = Idle
         /\ InCriticalSection <=> thread \in Registration
         /\ InCriticalSection => /\ thread.irq \in Irq /\ thread.handler \in Handler
                                 /\ thread.prio \in Priority
<1>1. CASE thread = Idle
  <2>1. thread.at = "idle"
    BY <1>1 DEF Idle
  <2>2. thread \notin Registration
    BY <2>1 DEF Registration
  <2> QED
    BY <1>1, <2>1, <2>2 DEF InCriticalSection
<1>2. CASE thread = [at |-> "self_test"]
  <2>1. thread.at = "self_test"
    BY <1>2
  <2>2. thread \notin Registration /\ thread # Idle
    BY <2>1 DEF Registration, Idle
  <2> QED
    BY <2>1, <2>2 DEF InCriticalSection
<1>3. CASE thread \in Registration
  <2>1. /\ thread.at \in {"context", "priority"} /\ thread.irq \in Irq
        /\ thread.handler \in Handler /\ thread.prio \in Priority
    BY <1>3 DEF Registration
  <2>2. thread # Idle
    BY <2>1 DEF Idle
  <2> QED
    BY <1>3, <2>1, <2>2 DEF InCriticalSection
<1> QED
  BY <1>1, <1>2, <1>3 DEF ThreadType

(* The thread goes from place to place.                                    *)
LEMMA ThreadStep == InterruptTypeOK /\ [InterruptNext]_interruptVars => thread' \in ThreadType
<1> SUFFICES ASSUME InterruptTypeOK, [InterruptNext]_interruptVars PROVE thread' \in ThreadType
  OBVIOUS
<1>1. thread \in ThreadType
  BY DEF InterruptTypeOK, ThreadType
<1>2. CASE thread' \in {thread, Idle, [at |-> "self_test"]}
  BY <1>1, <1>2 DEF ThreadType
<1>3. ASSUME NEW i \in Irq, NEW h \in Handler, NEW prio \in Priority,
             RegisterHandler(i, h, prio)
      PROVE  thread' \in ThreadType
  BY <1>3 DEF RegisterHandler, ThreadType, Registration
<1>4. CASE RegisterContext
  <2>1. thread \in Registration /\ thread' = [thread EXCEPT !.at = "priority"]
    BY <1>1, <1>4, Places DEF RegisterContext, ThreadAt, InCriticalSection
  <2> QED
    BY <2>1 DEF ThreadType, Registration
<1> QED
  BY <1>2, <1>3, <1>4 DEF InterruptNext, interruptVars, StartTimer, ControllerInit, SelfTest,
     RegisterPriority, Enter, Leave, TimerEvent

(* The interrupts being handled: one is entered with the reading of the    *)
(* timer, the innermost is left, and time does not go back.                *)
LEMMA FramesStep ==
  TimerInv /\ FramesInv /\ [InterruptNext]_interruptVars => FramesInv' /\ TimerInv'
<1> SUFFICES ASSUME TimerInv, FramesInv, [InterruptNext]_interruptVars PROVE FramesInv' /\ TimerInv'
  OBVIOUS
<1>1. HwTimerInit \/ TimerInterrupt \/ Count \/ UNCHANGED timerVars
  BY DEF InterruptNext, interruptVars, StartTimer, ControllerInit, SelfTest, RegisterHandler,
     RegisterContext, RegisterPriority, Enter, Leave, TimerEvent
<1>2. TimerInv' /\ ticks <= ticks'
  BY <1>1, TimerStep
<1>3. /\ frames \in Seq(Measured) /\ Len(frames) \in Nat /\ Len(frames) <= MaxDepth
      /\ \A n \in 1 .. Len(frames) : frames[n].since <= ticks /\ frames[n].since \in Nat
      /\ ticks \in Nat /\ ticks' \in Nat
  <2>1. \A n \in 1 .. Len(frames) : frames[n] \in Measured
    BY DEF FramesInv
  <2>2. \A n \in 1 .. Len(frames) : frames[n].since \in Nat
    BY <2>1 DEF Measured, Frame
  <2>3. ticks \in Nat /\ ticks' \in Nat
    BY <1>2, PeriodAssumption DEF TimerInv
  <2> QED
    BY <2>2, <2>3 DEF FramesInv
<1>4. ASSUME frames' = frames PROVE FramesInv'
  BY <1>2, <1>3, <1>4 DEF FramesInv
<1>5. ASSUME NEW i \in Irq, Enter(i) PROVE FramesInv'
  <2> DEFINE f == [irq |-> i, entry |-> Counter, since |-> ticks, skewed |-> WrapPending]
  <2>1. frames' = <<f>> \o frames /\ Len(frames) < MaxDepth /\ ticks' = ticks
    BY <1>5 DEF Enter, timerVars
  <2>2. f \in Measured
    <3>1. Counter = ticks - Behind(WrapPending) /\ Counter \in Nat
      BY CounterShows DEF TimerInv
    <3>2. WrapPending \in BOOLEAN
      BY DEF WrapPending
    <3>3. f \in Frame
      BY <1>3, <3>1, <3>2 DEF Frame
    <3> QED
      BY <3>1, <3>3 DEF Measured
  <2>3. f.since = ticks
    OBVIOUS
  <2> HIDE DEF f
  <2>4. /\ frames' \in Seq(Measured) /\ Len(frames') = Len(frames) + 1
        /\ frames'[1] = f
        /\ \A n \in 2 .. Len(frames) + 1 : frames'[n] = frames[n - 1]
    BY <1>3, <2>1, <2>2
  <2>5. \A n \in 1 .. Len(frames') : frames'[n].since <= ticks'
    BY <1>3, <2>1, <2>3, <2>4
  <2>6. Len(frames') <= MaxDepth
    BY <1>3, <2>1, <2>4, IrqAssumption
  <2> QED
    BY <2>4, <2>5, <2>6 DEF FramesInv
<1>6. CASE Leave
  <2>1. frames # << >> /\ frames' = Tail(frames) /\ ticks' = ticks
    BY <1>6 DEF Leave, timerVars
  <2>2. /\ frames' \in Seq(Measured) /\ Len(frames') = Len(frames) - 1
        /\ \A n \in 1 .. Len(frames) - 1 : frames'[n] = frames[n + 1]
    BY <1>3, <2>1
  <2>3. \A n \in 1 .. Len(frames') : frames'[n].since <= ticks'
    BY <1>3, <2>1, <2>2
  <2>4. Len(frames') <= MaxDepth
    BY <1>3, <2>2, IrqAssumption
  <2> QED
    BY <1>2, <2>2, <2>3, <2>4 DEF FramesInv
<1>7. FramesInv'
  BY <1>4, <1>5, <1>6 DEF InterruptNext, interruptVars, StartTimer, ControllerInit, SelfTest,
     RegisterHandler, RegisterContext, RegisterPriority, TimerEvent
<1> QED
  BY <1>2, <1>7

(* Every action keeps the types.                                           *)
LEMMA TypeStep == InterruptTypeOK /\ TimerInv /\ FramesInv /\ [InterruptNext]_interruptVars => InterruptTypeOK'
<1> SUFFICES ASSUME InterruptTypeOK, TimerInv, FramesInv, [InterruptNext]_interruptVars PROVE InterruptTypeOK'
  OBVIOUS
<1>1. /\ timer' \in TimerType /\ ticks' \in 0 .. MaxTicks
      /\ frames' \in Seq(Frame) /\ Len(frames') <= MaxDepth
      /\ thread' \in ThreadType
  <2>1. TimerInv' /\ FramesInv' /\ thread' \in ThreadType
    BY FramesStep, ThreadStep
  <2>2. \A m \in Seq(Measured) : m \in Seq(Frame)
    BY DEF Measured
  <2> QED
    BY <2>1, <2>2 DEF TimerInv, FramesInv
<1>2. /\ thread \in ThreadType
      /\ masks \in BOOLEAN /\ irq_initialized \in BOOLEAN /\ enabled \in BOOLEAN
      /\ handlers \in [Irq -> Handler \cup {None}]
      /\ handler_contexts \in [Irq -> Handler \cup {None}]
      /\ interrupt_priorities \in [Irq -> 0 .. PriorityLevels - 1]
      /\ interrupt_counters \in [Irq -> 0 .. CounterMod - 1]
      /\ late \in [Irq -> BOOLEAN]
      /\ truth \in [Irq -> {"short", "long", "skewed"}]
  BY DEF InterruptTypeOK, ThreadType
<1>3. masks' \in BOOLEAN /\ irq_initialized' \in BOOLEAN /\ enabled' \in BOOLEAN
  BY <1>2 DEF InterruptNext, interruptVars, StartTimer, ControllerInit, SelfTest, RegisterHandler,
     RegisterContext, RegisterPriority, Enter, Leave, TimerEvent
<1>4. handlers' \in [Irq -> Handler \cup {None}]
  <2>1. CASE ControllerInit
    BY <2>1 DEF ControllerInit, Cleared
  <2>2. ASSUME NEW i \in Irq, NEW h \in Handler, NEW prio \in Priority,
               RegisterHandler(i, h, prio)
        PROVE  handlers' \in [Irq -> Handler \cup {None}]
    BY <1>2, <2>2 DEF RegisterHandler
  <2> QED
    BY <1>2, <2>1, <2>2 DEF InterruptNext, interruptVars, table, StartTimer, SelfTest,
       RegisterContext, RegisterPriority, Enter, Leave, TimerEvent
<1>5. handler_contexts' \in [Irq -> Handler \cup {None}]
  <2>1. CASE ControllerInit
    BY <2>1 DEF ControllerInit, Cleared
  <2>2. CASE RegisterContext
    <3>1. thread.irq \in Irq /\ thread.handler \in Handler
      BY <1>2, <2>2, Places DEF RegisterContext, ThreadAt, InCriticalSection
    <3> QED
      BY <1>2, <2>2, <3>1 DEF RegisterContext
  <2> QED
    BY <1>2, <2>1, <2>2 DEF InterruptNext, interruptVars, table, StartTimer, SelfTest,
       RegisterHandler, RegisterPriority, Enter, Leave, TimerEvent
<1>6. interrupt_priorities' \in [Irq -> 0 .. PriorityLevels - 1]
  <2>1. CASE ControllerInit
    BY <2>1, IrqAssumption DEF ControllerInit, Cleared
  <2>2. CASE RegisterPriority
    <3>1. thread.irq \in Irq /\ thread.prio \in Nat
      BY <1>2, <2>2, Places, IrqAssumption DEF RegisterPriority, ThreadAt, InCriticalSection
    <3>2. thread.prio < PriorityLevels => thread.prio \in 0 .. PriorityLevels - 1
      BY <3>1, IrqAssumption
    <3> QED
      BY <1>2, <2>2, <3>1, <3>2 DEF RegisterPriority
  <2> QED
    BY <1>2, <2>1, <2>2 DEF InterruptNext, interruptVars, table, StartTimer, SelfTest,
       RegisterHandler, RegisterContext, Enter, Leave, TimerEvent
<1>7. interrupt_counters' \in [Irq -> 0 .. CounterMod - 1]
  <2>1. CounterMod \in Nat /\ CounterMod > 0
    BY IrqAssumption
  <2>2. \A k \in 0 .. CounterMod - 1 : (k + 1) % CounterMod \in 0 .. CounterMod - 1
    BY <2>1
  <2>3. CASE ControllerInit
    BY <2>1, <2>3 DEF ControllerInit, Cleared
  <2>4. ASSUME NEW i \in Irq, Enter(i)
        PROVE  interrupt_counters' \in [Irq -> 0 .. CounterMod - 1]
    BY <1>2, <2>2, <2>4 DEF Enter
  <2> QED
    BY <1>2, <2>3, <2>4 DEF InterruptNext, interruptVars, measured, StartTimer, SelfTest,
       RegisterHandler, RegisterContext, RegisterPriority, Leave, TimerEvent
<1>8. /\ late' \in [Irq -> BOOLEAN]
      /\ truth' \in [Irq -> {"short", "long", "skewed"}]
  <2>1. CASE ControllerInit
    BY <2>1 DEF ControllerInit, Cleared
  <2>2. CASE Leave
    <3>1. ExceedsLimit(Head(frames).entry, Counter) \in BOOLEAN
      BY DEF ExceedsLimit
    <3>2. late' \in [Irq -> BOOLEAN]
      BY <1>2, <2>2, <3>1 DEF Leave
    <3>3. truth' \in [Irq -> {"short", "long", "skewed"}]
      BY <1>2, <2>2 DEF Leave
    <3> QED
      BY <3>2, <3>3
  <2> QED
    BY <1>2, <2>1, <2>2 DEF InterruptNext, interruptVars, measured, StartTimer, SelfTest,
       RegisterHandler, RegisterContext, RegisterPriority, Enter, TimerEvent
<1> QED
  BY <1>1, <1>3, <1>4, <1>5, <1>6, <1>7, <1>8 DEF InterruptTypeOK, ThreadType

\* The latency over the limit that was recorded for an interrupt, and how
\* long its last handling took, agree up to a reading across a wrap.
Blamed ==
  \A i \in Irq : /\ late[i] => truth[i] # "short"
                 /\ truth[i] = "long" => late[i]

(* Two readings of the counter that are behind alike differ by the time    *)
(* that has passed.                                                        *)
LEMMA AlikeReadings ==
  ASSUME NEW since \in Nat, NEW now \in Nat, since <= now,
         NEW s \in BOOLEAN, NEW w \in BOOLEAN, s = w
  PROVE  ExceedsLimit(since - Behind(s), now - Behind(w)) <=> now - since > LatencyLimit
<1>1. PICK d \in Int : Behind(s) = d /\ Behind(w) = d
  BY PeriodAssumption DEF Behind
<1>2. LatencyLimit \in Nat
  BY IrqAssumption
<1>3. (now - d < since - d \/ (now - d) - (since - d) > LatencyLimit)
        <=> now - since > LatencyLimit
  BY <1>2
<1> QED
  BY <1>1, <1>3 DEF ExceedsLimit

(* A handling is judged by the two readings of the timer at its ends.      *)
LEMMA BlameStep ==
  InterruptTypeOK /\ TimerInv /\ FramesInv /\ Blamed /\ [InterruptNext]_interruptVars => Blamed'
<1> SUFFICES ASSUME InterruptTypeOK, TimerInv, FramesInv, Blamed, [InterruptNext]_interruptVars PROVE Blamed'
  OBVIOUS
<1>1. CASE UNCHANGED <<late, truth>>
  BY <1>1 DEF Blamed
<1>2. CASE ControllerInit
  BY <1>2 DEF ControllerInit, Cleared, Blamed
<1>3. CASE Leave
  <2> DEFINE f == Head(frames)
  <2>1. f \in Measured /\ f.since <= ticks
    <3>1. frames \in Seq(Measured) /\ frames # << >>
      BY <1>3 DEF Leave, FramesInv
    <3>2. f = frames[1] /\ 1 \in 1 .. Len(frames)
      BY <3>1
    <3> QED
      BY <3>1, <3>2 DEF FramesInv
  <2>2. /\ f.irq \in Irq /\ f.since \in Nat /\ f.skewed \in BOOLEAN
        /\ f.entry = f.since - Behind(f.skewed)
    BY <2>1 DEF Measured, Frame
  <2>3. ticks \in Nat /\ Counter = ticks - Behind(WrapPending)
    BY CounterShows, PeriodAssumption DEF TimerInv
  <2>4. WrapPending \in BOOLEAN
    BY DEF WrapPending
  <2> DEFINE l == ExceedsLimit(f.entry, Counter)
             t == IF f.skewed # WrapPending THEN "skewed"
                  ELSE IF ticks - f.since > LatencyLimit THEN "long" ELSE "short"
  <2>5. late' = [late EXCEPT ![f.irq] = l] /\ truth' = [truth EXCEPT ![f.irq] = t]
    BY <1>3 DEF Leave
  <2>6. (l => t # "short") /\ (t = "long" => l)
    <3>1. CASE f.skewed # WrapPending
      BY <3>1
    <3>2. CASE f.skewed = WrapPending
      <4>1. l <=> ticks - f.since > LatencyLimit
        BY <2>1, <2>2, <2>3, <2>4, <3>2, AlikeReadings
      <4>2. t = IF ticks - f.since > LatencyLimit THEN "long" ELSE "short"
        BY <3>2
      <4> QED
        BY <4>1, <4>2
    <3> QED
      BY <3>1, <3>2
  <2> HIDE DEF l, t, f
  <2>7. late \in [Irq -> BOOLEAN] /\ truth \in [Irq -> {"short", "long", "skewed"}]
    BY DEF InterruptTypeOK
  <2>8. ASSUME NEW i \in Irq
        PROVE  (late'[i] => truth'[i] # "short") /\ (truth'[i] = "long" => late'[i])
    <3>1. CASE i = f.irq
      BY <2>2, <2>5, <2>6, <2>7, <3>1
    <3>2. CASE i # f.irq
      BY <2>5, <2>7, <3>2 DEF Blamed
    <3> QED
      BY <3>1, <3>2
  <2> QED
    BY <2>8 DEF Blamed
<1> QED
  BY <1>1, <1>2, <1>3 DEF InterruptNext, interruptVars, measured, StartTimer, SelfTest,
     RegisterHandler, RegisterContext, RegisterPriority, Enter, TimerEvent

\* The context of a handler is its own, except of the one whose registration
\* is between its first two assignments.
ContextInv ==
  /\ thread.at = "context" => handlers[thread.irq] = thread.handler
  /\ \A i \in Irq : \/ handler_contexts[i] = handlers[i]
                    \/ thread.at = "context" /\ thread.irq = i

(* A registration stores the context right after the handler.              *)
LEMMA ContextStep == InterruptTypeOK /\ ContextInv /\ [InterruptNext]_interruptVars => ContextInv'
<1> SUFFICES ASSUME InterruptTypeOK, ContextInv, [InterruptNext]_interruptVars PROVE ContextInv'
  OBVIOUS
<1>1. /\ handlers \in [Irq -> Handler \cup {None}]
      /\ handler_contexts \in [Irq -> Handler \cup {None}]
      /\ thread \in ThreadType
  BY DEF InterruptTypeOK, ThreadType
<1>2. CASE ControllerInit
  <2>1. thread'.at = "self_test" /\ \A i \in Irq : handler_contexts'[i] = handlers'[i]
    BY <1>2 DEF ControllerInit, Cleared
  <2> QED
    BY <2>1 DEF ContextInv
<1>3. ASSUME NEW i \in Irq, NEW h \in Handler, NEW prio \in Priority,
             RegisterHandler(i, h, prio)
      PROVE  ContextInv'
  <2>1. /\ handlers' = [handlers EXCEPT ![i] = h] /\ handler_contexts' = handler_contexts
        /\ thread'.at = "context" /\ thread'.irq = i /\ thread'.handler = h
        /\ thread.at = "idle"
    BY <1>3 DEF RegisterHandler, ThreadAt
  <2>2. \A j \in Irq : handler_contexts[j] = handlers[j]
    BY <2>1 DEF ContextInv
  <2> QED
    BY <1>1, <2>1, <2>2 DEF ContextInv
<1>4. CASE RegisterContext
  <2>1. /\ handler_contexts' = [handler_contexts EXCEPT ![thread.irq] = thread.handler]
        /\ handlers' = handlers /\ thread.at = "context"
    BY <1>4 DEF RegisterContext, ThreadAt
  <2>2. ASSUME NEW j \in Irq PROVE handler_contexts'[j] = handlers'[j]
    <3>1. CASE thread.irq = j
      BY <1>1, <2>1, <3>1 DEF ContextInv
    <3>2. CASE thread.irq # j
      BY <1>1, <2>1, <3>2 DEF ContextInv
    <3> QED
      BY <3>1, <3>2
  <2>3. thread'.at = "priority"
    BY <1>1, <1>4, <2>1, Places DEF RegisterContext, InCriticalSection, Registration
  <2> QED
    BY <2>2, <2>3 DEF ContextInv
<1>5. CASE /\ UNCHANGED <<handlers, handler_contexts>>
           /\ thread.at # "context" /\ thread' = Idle
  BY <1>5 DEF ContextInv, Idle
<1>6. CASE UNCHANGED <<handlers, handler_contexts, thread>>
  BY <1>6 DEF ContextInv
<1>7. CASE SelfTest \/ RegisterPriority
  BY <1>5, <1>7 DEF SelfTest, RegisterPriority, ThreadAt, table
<1> QED
  BY <1>2, <1>3, <1>4, <1>6, <1>7 DEF InterruptNext, interruptVars, table, StartTimer, Enter,
     Leave, TimerEvent
-----------------------------------------------------------------------------
ControllerInv == InterruptTypeOK /\ TimerInv /\ FramesInv /\ Blamed /\ ContextInv

(* The controller with the timer under it satisfies the inductive          *)
(* invariant.                                                              *)
LEMMA ControllerInvariant == InterruptSpec => []ControllerInv
<1>1. InterruptInit => ControllerInv
  <2> SUFFICES ASSUME InterruptInit PROVE ControllerInv
    OBVIOUS
  <2>1. /\ PriorityLevels \in Nat /\ PriorityLevels > 0 /\ CounterMod \in Nat
        /\ CounterMod > 0 /\ MaxDepth \in Nat /\ Period \in Nat /\ Period > 0
        /\ MaxTicks \in Nat
    BY IrqAssumption, PeriodAssumption
  <2>2. timer \in TimerType /\ ticks \in 0 .. MaxTicks /\ timer.base = 0 /\ ticks = 0
    BY <2>1 DEF InterruptInit, TimerStatic, TimerType
  <2>3. TimerInv
    <3>1. Counts(0, 0, 0)
      BY <2>1, <2>2 DEF Counts
    <3> QED
      BY <2>2, <3>1 DEF TimerInv
  <2>4. FramesInv
    BY <2>1 DEF InterruptInit, FramesInv
  <2>5. Blamed
    BY DEF InterruptInit, Blamed
  <2>6. ContextInv
    BY DEF InterruptInit, ContextInv, Idle
  <2>7. /\ masks \in BOOLEAN /\ irq_initialized \in BOOLEAN /\ enabled \in BOOLEAN
        /\ handlers \in [Irq -> Handler \cup {None}]
        /\ handler_contexts \in [Irq -> Handler \cup {None}]
        /\ late \in [Irq -> BOOLEAN]
        /\ thread \in {Idle, [at |-> "self_test"]} \cup Registration
        /\ truth \in [Irq -> {"short", "long", "skewed"}]
    BY DEF InterruptInit
  <2>8. /\ interrupt_priorities \in [Irq -> 0 .. PriorityLevels - 1]
        /\ interrupt_counters \in [Irq -> 0 .. CounterMod - 1]
        /\ frames \in Seq(Frame) /\ Len(frames) <= MaxDepth
    BY <2>1 DEF InterruptInit
  <2> QED
    BY <2>2, <2>3, <2>4, <2>5, <2>6, <2>7, <2>8, Zenon DEF InterruptTypeOK, ControllerInv
<1>2. ControllerInv /\ [InterruptNext]_interruptVars => ControllerInv'
  BY TypeStep, FramesStep, BlameStep, ContextStep DEF ControllerInv
<1> QED
  BY <1>1, <1>2, PTL DEF InterruptSpec

(* The controller, the timer and the stack of interrupts keep their types: *)
(* no priority outside the levels is ever stored, the counters wrap inside *)
(* their width, and every reading of the timer is a natural number.        *)
THEOREM ControllerTypeCorrect == InterruptSpec => []InterruptTypeOK
<1>1. ControllerInv => InterruptTypeOK
  BY DEF ControllerInv
<1> QED
  BY <1>1, ControllerInvariant, PTL

(* The safety check blames the interrupts for what they did, whatever the  *)
(* interrupts nest and however long the timer's own interrupt is delayed   *)
(* within a period (interrupt.c:57-65, 161-175, 194-216; hw_timer.c:83).   *)
THEOREM VerdictIsJustified == InterruptSpec => []VerdictJustified
<1>1. ControllerInv => VerdictJustified
  <2> SUFFICES ASSUME ControllerInv PROVE VerdictJustified
    OBVIOUS
  <2>1. interrupt_counters \in [Irq -> 0 .. CounterMod - 1]
    BY DEF ControllerInv, InterruptTypeOK
  <2>2. \A i \in Irq : interrupt_counters[i] # 0 => interrupt_counters[i] > 0
    BY <2>1, IrqAssumption
  <2>3. SafetyCheckFails => Storm \/ \E i \in Irq : truth[i] # "short"
    BY DEF SafetyCheckFails, Violation, ControllerInv, Blamed
  <2>4. ~SafetyCheckFails =>
          \A i \in Irq : interrupt_counters[i] # 0 => truth[i] # "long"
    BY <2>2 DEF SafetyCheckFails, Violation, ControllerInv, Blamed
  <2> QED
    BY <2>3, <2>4 DEF VerdictJustified
<1> QED
  BY <1>1, ControllerInvariant, PTL

(* On a platform whose critical sections keep interrupts out, a handler is *)
(* called with the context it was registered with (interrupt.c:295-296).   *)
THEOREM ContextsBelong == InterruptSpec => HandlerGetsItsContext
<1> DEFINE Called ==
      masks => \A i \in Irq :
        Enter(i) /\ handlers[i] # None => handler_contexts[i] = handlers[i]
<1>1. ControllerInv /\ [InterruptNext]_interruptVars => [Called]_interruptVars
  <2> SUFFICES ASSUME ControllerInv, masks, NEW i \in Irq, Enter(i)
               PROVE  handler_contexts[i] = handlers[i]
    OBVIOUS
  <2>1. thread.at # "context"
    BY DEF Enter, Masked, InCriticalSection
  <2> QED
    BY <2>1 DEF ControllerInv, ContextInv
<1> QED
  BY <1>1, ControllerInvariant, PTL DEF InterruptSpec, HandlerGetsItsContext
=============================================================================
