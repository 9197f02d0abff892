# AutoMLOS in TLA+

A verification development for AutoMLOS, a small microkernel in C with its
logging, monitoring and messaging services. Every module is translated from the
source under `src/`; comments name the file and the lines. TLC checks each
component on a small instance, and TLAPS proves the results that matter most
for every value of the constants.

Paths below are relative to `src/`.

## The system and its parts

| Part | Source | State it keeps | Operations | Module |
|---|---|---|---|---|
| Binary log ring | `lib/logging/log_core.c` | one global ring: slots, three indices, a 16-bit checksum | initialize, record, get | `LogBuffer` |
| Kernel memory pools | `kernel/core/memory.c` | eight pools: bitmap of free blocks, two counters | init, alloc, free | `MemoryPools` |
| Logging client | `lib/logging/log_client.c` | publisher handle, early ring of entries | init, send, cleanup | `LogClient` |
| Log entries | `lib/logging/log_common.h`, `log_core.c` | none: an entry is a value with a checksum | create, verify | `LogEntry` |
| Logger service | `services/logger/logger_service.c` | one buffer per level, saved status | init, process message, status | `LoggerService` |
| Log parser | `tools/log_parser/` | options, two databases, statistics, output | start, read an entry, finish | `LogParser` |
| Scheduler | `kernel/core/scheduler.c` | process table, current pid | init, create, loop | `Scheduler` |
| System monitor | `services/system_monitor/system_monitor.c` | health flags, fail counters, watchdog records | init, update, arm, pet | `SystemMonitor` |
| Hardware watchdog | `platform/bsp/hw_watchdog.c` | initialized, state | init, pet, timeout interrupt | `HwWatchdog` |
| Interrupt controller | `kernel/core/interrupt.c` | handler table, counters, latencies | init, register, handle, safety check | `InterruptController` |
| Hardware timer | `platform/bsp/hw_timer.c` | initialized, base counter | init, read, wrap interrupt | `HwTimer` |
| Kernel time | `lib/time/time.c` | time sources, the active one | init, read | `KernelTime` |
| Startup | `kernel/core/kernel.c` | startup phase | `kernel_init` | `KernelBoot` |
| Kernel IPC | `kernel/core/ipc.c` | topic table, shared buffer | init, publish, allocate | only its init, in `KernelBoot` |
| Kernel watchdog | `lib/watchdog/watchdog.c` | registry of components | init, register, timeout | `KernelWatchdog` |
| Topic names | `lib/libipc/ipc_topics.c` | one static buffer | validate, build | `IpcTopics`, `IpcPubSub` |
| Publish/subscribe | `lib/libipc/ipc_pubsub.c` | handles, the topics the kernel knows | init, create, publish, receive, destroy | `IpcPubSub`, `IpcBatch` |
| Message batches | `lib/libipc/ipc_batch.c` | a batch | create, add, send, clear, destroy | `IpcBatch` |
| Adaptive priorities | `lib/libipc/ipc_priority.c` | a configuration per priority | adjust, reset, set | `IpcPriority` |
| Logger process | `services/logger/logger_main.c` | subscriber handle | loop, callback | not modelled |
| Hardware clock (RTC) | `platform/bsp/hw_rtc.c` | none, a stub | init, read | its init, in `KernelTime` |
| Error codes, system call table and wrappers, storage adapter | several | little or none | | not modelled |

How they interact:

* `kernel_init` initializes the parts in five phases: time (which starts the
  hardware timer) and interrupts, then the logging client, then memory and
  kernel IPC, then the system monitor, then system calls, scheduler and kernel
  watchdog. The first error ends the startup.
* Everything logs through the client. It publishes through the
  publish/subscribe library, and keeps entries in its early ring when there is
  no publisher or the publication fails. The logger process subscribes and
  hands messages to the logger service. `log_core.c` keeps a ring of its own,
  which clients use without the service. The same binary entries, written to a
  file, are the input of the log parser, which checks them with code of its own.
* The kernel watchdog logs registrations and timeouts through the client and
  never looks at the result.
* Interrupts arrive between any two statements of the thread that registers
  handlers; their latency is measured with the hardware timer, which itself
  interrupts when its 32-bit counter wraps.
* The system monitor reads the time, tests itself, and arms and pets the
  hardware watchdog, whose timeout calls back.

What is hard here: interrupts between two assignments; a counter that wraps
before its interrupt is served; calls that fail half-way and leave something
behind; initializations that run twice; full buffers; counters of 8, 16 and 32
bits; and a monitor whose self-test overwrites the flags it depends on. There
is no persistence, so there is no recovery from a crash to model.

### What makes each part correct

* **Log ring.** The indices agree after any mix of overwriting puts and gets;
  the checksum is renewed by every operation that changes the bytes; entries
  come out oldest first, each once.
* **Memory pools.** One holder per block; no block is lost; the counters say
  what the bitmap says.
* **Logging client.** An entry is published, kept or given up, never two of
  them; publication keeps the order of the calls; the early ring keeps the
  newest entries.
* **Log entries.** A changed byte is noticed by every reader; an entry that was
  created and not changed is accepted by every reader.
* **Logger service.** A level keeps entries of its own, in order, and loses one
  only for want of room; of level 2 it keeps the latest.
* **Log parser.** Its verdict on an entry is the service's; it prints nothing
  that the accepted filters exclude.
* **Kernel watchdog.** A timeout leaves a trace in the log, or is lost for a
  reason one can name.
* **Topics and handles.** The kernel is only ever told well-formed names, and none
  of its own namespace.
* **Scheduler.** The admitted load is bounded; the most urgent ready process is
  reached.
* **System monitor.** Its verdict on itself follows its failures; the score and
  the verdict agree; checks keep their interval.
* **Interrupt controller.** A handler gets its own context; the safety check blames what happened.
* **Startup.** It completes when nothing fails.
* **Messaging library.** A batch keeps what it was given first, and repeats
  messages only as a whole; timeouts stay positive and move with the load in the
  direction their priority calls for.

## Modules

```
OverwriteQueue <--refines-- LogBuffer <-- MCLogBuffer, LogBuffer_proofs
MemoryPools <-- MemoryPools_proofs
LogClient <-- KernelWatchdog <-- KernelWatchdog_proofs
LogEntry <-- LoggerService, LogParser <-- LogStream <-- MCLogStream, LogStream_proofs
Scheduler <-- MCScheduler, Scheduler_proofs
HwWatchdog <--instance-- SystemMonitor <-- SystemMonitor_proofs
HwTimer <-- InterruptController <-- InterruptController_proofs
KernelWatchdog, SystemMonitor <-- Supervision
MemoryPools, InterruptController <-- KernelCore <-- MCKernelCore
HwTimer <-- KernelTime <-- KernelBoot
IpcTopics <-- IpcPubSub <-- IpcBatch
IpcBatch, IpcPriority <-- LibIpc <-- MCLibIpc, LibIpc_proofs
```

**LogBuffer** has the ring of `log_core.c`. `buffer` is `g_log_buffer` field by
field except `buffer_size`, which is the constant `Capacity`. The content of an
entry matters only through its byte sum, the constant operator `SlotSum`.
`Verify` is `log_verify_buffer_integrity`: a comparison of the 16-bit field with
the 32-bit sum. `Sealing` is the assignment to that field, which truncates.
`Record` includes the lazy initialization of `log_record_binary_safe`, which the
code does before it looks at the parameters (`RecordInvalid`). Operations that
only return an error change nothing and are stutters.

**OverwriteQueue** is what the ring promises: a bounded queue whose oldest entry
makes room for a new one, and which may refuse everything once sealed.
`LogBuffer` maps `queue` to the entries from `read_index` on, and `sealed` to a
failed integrity check.

**MemoryPools** has `free_list` (the set bits of a bitmap), `free_count` and
`allocation_count` (16 bits each, modulo `CountMod`) per pool. The bitmap is
placed at the base address of its pool, which is also block 0, so that the
holder of block 0 may overwrite it: `WriteBlockZero`. `granted`, `clobbered` and
`strays` are history variables. The correctness of a pool is stated for pools
whose bitmap was not overwritten and for histories in which nothing was freed
that nobody held; `SingleBlockExclusive` holds even with an overwritten
bitmap.

**LogClient** has the early ring and the publisher handle of `log_client.c`.
Creation and publication may fail at any call. An entry is the number of its
call to `log_client_send_entry`, so that order can be stated.

**KernelWatchdog** has the registry of `watchdog.c` on top of `LogClient`: a
registration and a timeout each send an entry, between those of other callers.
A component remembers, as history, the entry that logged its last timeout.

**LogEntry** has an entry with four bytes for its fields (`data` stands for all
those that no reader interprets), its checksum, and the range checks of
`log_create_entry`. **LoggerService** has one buffer per level, of which nothing
takes entries out, so that a buffer is its capacity and the numbers of its
entries; messages before the initialization are included. **LogParser** has the
command line as a sequence of options, the two databases as sequences of lines,
the validation with the parser's own checksum loop and range checks, the two
processing loops (with and without the extended options) and their statistics.
A command line is parsed, and a database loaded, by a fold over its arguments or
lines (`Parsed`, `Loaded`). A printed line is the number of its entry with the
names it is printed with.
**LogStream** sends the same entries to both readers; on its way an entry may
have one byte changed or two bytes exchanged.

**Scheduler** has the process table, with the places that were never used, since
a refused creation leaves its parameters in one. `Dispatch` is one iteration of
the loop of `scheduler_start`; its scan starts from `PriorityCount`, so that a
process of a priority that is out of range, which nothing refuses, is never
chosen (`Eligible`). The period in microseconds wraps modulo `UintMod` in the
validation of the parameters, and not in the utilization, which is computed in
floating point; a utilization is a number of units of which the processor has
`Precision`, rounded down, and the proofs hold for every `Precision`.
`ChangeState` stands for the three functions that `scheduler.h` declares and
nothing defines.

**SystemMonitor** has the update with the cross-monitoring and the self-check
inside it, on top of **HwWatchdog**. The memory test of the self-check writes
`0xDEADBEEF` over the flags `initialized` and `running`; a flag is `"no"`,
`"yes"` or `"mixed"`. How a build reads a `bool` that is neither 0 nor 1 is
undefined: `mixed_is_set`, chosen at the start, says which way this one does, and
every run has both.

**Supervision** puts the kernel watchdog and the system monitor together, and
**KernelCore** the memory pools and the interrupt controller. Neither half reads
the state of the other, so that a behaviour follows one of the two, which may be
either; the proofs are about the halves.

**InterruptController** has the handler table with a thread that registers one
assignment at a time and a stack of interrupts being handled. Interrupts come
between any two steps of the thread and nest up to `MaxDepth`. The critical
sections of the repository are empty stubs for the platform to fill in; `masks`,
chosen at the start, says whether they keep interrupts out. **HwTimer** has the
driver and the hardware counter: `ticks` is the true time, the hardware shows it
modulo `Period`, and the driver's base is one period short between a wrap and
its interrupt.

**KernelTime** and **KernelBoot** have the time sources and the startup. Each
call of `kernel_init` is a step, which fails only if the code behind it can.

**IpcTopics** has names as sequences of segments, their validation, the text
that `ipc_build_topic` makes from its tables, and the predefined topics.
**IpcPubSub** has `ipc_init`, the handles, and the static buffer in which
`ipc_build_topic` returns every name: a name that was built is always read as the
text of the last call, also of a call that returned `NULL` after it wrote. The
kernel is external: it may fail at any call, it knows a topic from a registration
to an unregistration, and it publishes on any topic, as the linked stub does
(`libsyscall.c:86`). **IpcBatch** adds one batch, which is its two sizes
and the sequence of its messages; a message is the number of the call that added
it. `start` and `published` are history variables.
**IpcPriority** has the configuration of one priority, which may be any: no
function relates two. The utilization is truncated to 8 bits and the timeout
wraps, as in the code. **LibIpc** puts messages and priorities together;
neither reads the state of the other, and `part` says which of the two a
behaviour follows.

## What the runs show

| Run | Instance | What it checks |
|---|---|---|
| `ring` | 4 slots, 3 entries of weights 1, 4, 9, checksum modulo 30 | indices agree; corruption is reported only after an overflow of the checksum or after `log_buffer_init`; a get never causes it; a corrupt ring changes no more; the ring refines `OverwriteQueue` |
| `ring_retrievable` | same | **violated**: a ring that holds entries delivers them (`tests/log_test.c:91`) |
| `kernel` | pools of 3, 2 and 1 blocks, 4 request sizes, counters modulo 8, one stray free; 2 interrupts, 2 handlers, nesting 2, timer period 3, limit 1, counters modulo 3 | exclusive blocks, no lost block, counters against bitmap, one holder of a one-block pool; contexts of handlers, verdict of the safety check justified |
| `supervision` | early ring of 3, 6 entries, 2 watchdog levels, 2 components, timeouts of 9, 10 and 10001 ms; self-check every 3 ticks, threshold 2, counters modulo 4, 9 ticks, overwritten flags read as set or as not set | one place per entry, order of publication, newest entries kept, every timeout leaves a trace; reliability follows failures, score and verdict agree |
| `client_flush` | early ring of 3, 7 entries | **violated**: early entries are flushed when a publisher appears (`log_client.c:142`) |
| `entries` | the code's 4 levels, 9 tags, 18 messages and 16-bit checksum; 3 entries, one of them damaged, 2 places per level, 2 filters, 6 command lines | one changed byte is detected by both readers; what was created is accepted; the readers agree; what a level keeps has no gaps; the parser respects its filters |
| `logger_retention` | the same ranges, 3 INFO entries, 2 places per level, no damage | **violated**: the latest entry of level L2 is kept (`docs/architecture.md:491`) |
| `scheduler` | 3 processes, 2 priorities and one out of range, a heavy and a light parameter set, and one whose period wraps modulo 2^16 | admitted load; the most urgent ready process is dispatched |
| `scheduler_priority` | the same with the 2 valid priorities | **violated**: the loop runs the most urgent process (`scheduler.c:155`) |
| `monitor_pace` | the monitor's half of `supervision` | **violated**: a self-check every interval (`system_monitor.c:22`), where overwritten flags read as not set |
| `libipc` | 3 priorities, 4-bit timeouts, depths with low, high, critical and truncated utilization; a subscriber, 4 names to build, 5 written down, batches of 2, of which one may be sent only half full, 3 messages, 2 publications | direction of the timeouts, no zero timeout, only admissible names become known, the tables agree with the predefined topics, contents of a batch, repeated messages |
| `boot` | the code's own sizes | **violated**: the startup completes (`kernel.c:197`) |

Why the bounds are enough. The ring wraps around more than once, is full, empty
and in between, and the checksum overflows in some histories and not in others.
The pools include one with several blocks, so that the bitmap matters, and one
with a single block; requests fit all, some, one or none of them; the counters'
modulus is larger than any pool, as 2^16 is, and is reached by a stray free.
The scheduler's instance has two feasible sets of which not every pair is
feasible, a set that is refused only because its period wraps, and processes that
are ready and never eligible. The monitor's clock covers three self-check intervals, its counters
wrap around. The timer wraps once, with handlings shorter, longer and across
the wrap; the interrupt counters reach the storm limit and wrap to 0. The
timeouts of the library start at, above and below the minimum, and wrap; a batch
is sent, extended and sent again, overfilled, cleared and destroyed. The names of
the library are built and refused, are reserved, have an empty segment, and are at
and over the limit of their length. The early ring overflows, is cleared and
fills again. Entries are created at and beyond each limit, arrive before the
service is ready, and overfill a level; the command lines have the default
options, a format without output, filters that are accepted, refused and too
many, and end at once. Every
property has a mutant of a mapped definition that breaks it in its own run.

The `kernel` instance uses symmetry in the handlers and the interrupts: they
are only ever compared, and the run has no liveness property.

### Fairness

Only two specifications state any. `Scheduler` has `WF_vars(Dispatch)`:
`scheduler_start` is a loop that nothing leaves, so an iteration that can change
something is eventually executed. Nothing is assumed of the processes.
`KernelBoot` has `WF_vars(Boot)`: `kernel_init` is a sequential function that
nothing preempts for good. Interrupts, the clock, callers and failures are never
assumed to happen.

Deadlock is checked in every run but `boot`, where `kernel_init` returns, gives
up, or exhausts its stack.

## What is proved

`LogBuffer_proofs` (for every capacity from 1 to 255, every set of entries,
every byte sum and every modulus of the checksum):

* `TypeCorrect`, `IndicesAgree`: by induction; the step for a put splits on a
  full and a non-full ring, and uses lemmas on `%` that are stated over
  constants.
* `CorruptionMeansOverflow`: the invariant is that an initialized ring passes
  the check, or its sum has overflowed, or it is the zeroed one. It is inductive
  because every operation that changes a byte ends in `Sealing`, and the truncated
  sum equals the sum exactly when the sum fits.
* `ReadingIsSafe`: a get changes the sum only through two indices, and the
  sum before it was less than the modulus because the check passed.
* `CorruptionIsFinal`: an action property, from the guards of put and get.
* `RingIsQueue`: the ring implements `OverwriteQueue`, by step simulation under
  the invariant above. `StoredKept` and `TakenKept` say what a put and a get do to
  the sequence of the entries from the read index on; they rest on two facts about
  slots, that the entries shift by one when the read index moves (`Shifted`) and
  that the slot written holds no entry that stays (`OtherSlot`). A put refused by
  a corrupt ring is a stutter, the first record is `ResetPut`, and a get leaves
  the queue open because reading is safe.

`MemoryPools_proofs` (for any number of pools, sizes and requests, with
`PoolAssumption` on the constants): `TypeCorrect`, `NoSharedBlock`,
`NoLostBlock`, `CounterIsBitmap`. None of the three is inductive: that a
granted block is not free needs that a free block has no holder, that a free
block has no holder after `Free` needs that it had one holder, and both need
the counters not to wrap. The inductive invariant is `PoolInv`: the types; before
`memory_init` everything is zero (`Fresh`); afterwards every clean pool is
`Sound`, that is, each block is free and has no holder or is not free and has
exactly one, and the counter is the number of free blocks. `SingleBlockHeldOnce`
is about pools that are not clean: in a pool of one block, counter and holders
add up to one (`Guarded`), whatever the holder wrote over the bitmap.

`KernelWatchdog_proofs` (for every capacity of the early ring, any numbers of
entries and components): `WatchdogTypeCorrect`, `OnlyOnePlace`, `OrderKept`,
`NewestKept`, `TimeoutsLeaveTraces`. The inductive invariant `ClientInv` says
that the ring holds the newest of what fell back to it (`Holds`, by slots: its
write index is behind them), that what was published is increasing, and that
what was published and what fell back are different entries sent so far.
`StoredRing` is the step of a ring that is full or not, from lemmas on `%`. For
the trace of a timeout `AlarmInv` adds that every entry sent was published, fell
back since the ring was cleared, is older than that, or met no ring.

`LogStream_proofs` (for any numbers of levels, tags, messages, entries and
damages, any filters, command lines and databases, any capacity, and any checksum
of whole bytes that four bytes cannot overflow): `StreamTypeCorrect`,
`DamageIsDetected`, `ReadersAgree`, `CreatedIsAccepted`, `NoGaps`,
`OutputIsAsked`. The medium touches only entries that neither reader has, so that
what a reader found in an entry stays true of it. The inductive invariant says in
terms of the stream as it is now what each reader has concluded. `StreamInv`: the
service refused exactly the entries among those it got that do not verify
(`ServiceKnows`), the parser's statistics count exactly those and what it printed
verifies (`ParserKnows`). `KeepInv`: each level has the first sound entries since
the set-up, within its size, from which `KeptWithoutGaps` follows. `OutputInv`: the printed lines are, in order, those
of the wanted entries among the ones read; `PrintsWanted` shows that the parser's
checks and its two loops print an entry exactly when the filters ask for it. A
single changed field cannot leave the sum as it was, since the sum does not wrap.
For the types, `ParserInv` and `ServiceInv` need what the folds over a command
line and a database return: at most `MaxFilters` filters, and only names that
occur in the file (`ParsedTyped`, `LoadedTyped`, `LookUpTyped`).

`LibIpc_proofs` (for any number of priorities, any configurations and reported
depths, any widths of the fields and batches of any size, with
`PriorityAssumption`, `BatchAssumption` and `TopicAssumption`):
`LibraryTypeCorrect`, `ExtremesDrift`, `TimeoutsPositive`, `BatchIsRun`,
`ResendsOnlyExtend`, `OnlyValidTopics` and `BuiltNamesAreKnown`. The parts of the library do not read each other's state,
so the inductive invariant `LibInv` is the conjunction of `QosInv`, `BatchInv`,
`SentInv` and `KnownAreValid` with the types of the handles, and each is preserved
by its own steps. The timeouts need the types (the base is at least 1, `Halved` is
at least the minimum) and one lemma on addition below a modulus. The batch needs
that the first messages offered from `start` on, as many as there is room for
(`Run`), grow by the next message or are full (`RunExtends`), which is what
`WithMessage` does. For repeated messages, `SentInv` relates each publication to
the batch as it is now: it is a beginning of the batch, or older than the batch;
this survives adding, clearing and creating. `BuiltNamesAreKnown` needs no
induction over steps: a name that is built is an element of one of the tables,
and each case is found among the predefined topics.

`Scheduler_proofs` (for any size of the table, any priorities and parameters, and
any bound that does not grow with the number of tasks): `SchedulerTypeCorrect`,
`LoadIsAdmissible`, `DispatchTakesFirst`. `AdmittedLoad` is inductive with the
types. An admission analyses all the tasks created so far, those without
parameters of their own included, so that the sum it accepts is at least that of
the admitted ones and the bound it uses at most theirs; plain creations and
changes of state leave the parameters of the admitted tasks alone. The first part
of the module is about sums over finite sets: any element may be added last
(`AnyLast`), one more element adds its weight (`SumAdd`), a part has at most the
sum of the whole (`SumMonotone`). `DispatchTakesFirst` is what safety says of
`TopReadyRuns`: an iteration that finds eligible processes takes the first of the
most urgent.

`SystemMonitor_proofs` (for any intervals, margins, thresholds and widths of the
counters, and either reading of an overwritten flag): `MonitorTypeCorrect`,
`ScoreAgreesWithVerdict`, `FailuresMakeUnreliable`. For the failures, `RowInv` says
that the counter is the number of failures in a row until it wraps, and that a
monitor called healthy is below the threshold.

`InterruptController_proofs` (for any interrupts, handlers, priorities and limits,
any period of the timer and any depth of nesting): `ControllerTypeCorrect`,
`VerdictIsJustified`, `ContextsBelong`. The inductive invariant `ControllerInv` has
the base of the timer as whole periods of the true time, short by one between a
wrap and its interrupt (`TimerInv`), the entry time of each nested handling as the
true time less what the timer was behind (`FramesInv`), the reason for every
latency that is too long (`Blamed`), and that handler and context differ only
inside a registration (`ContextInv`). Two readings that were behind by the same
amount measure the true duration; only one on each side of the service of a wrap
does not.

Assumed: only the named assumptions on the constants, which TLC evaluates in the
runs.

Two things about the provers shape these proofs. A library theorem on induction
takes an operator as a parameter, which they cannot instantiate; an induction over
data (a fold, a sum) is therefore written as the absence of a smallest
counterexample, from the well-foundedness of `<` and of strict inclusion. And they
know nothing of `SelectSeq` or of the elements of `STRING`; `KeptWithoutGaps` and
`OutputRespectsFilters` are stated by order and membership, and names have the types
of the tables they come from.

Only model-checked: liveness under fairness (`TopReadyRuns`), which is beyond the
proof system, and the six runs that show a violation.

## Divergences noted while modelling

Six are shown by runs (above). The others were met while modelling and are
listed here for the reader; no run shows them.

* `log_core.c:524`: `log_buffer_init` leaves the checksum zero, so that the ring
  just set up "with safe defaults" (`log_core.c:515`) is refused by the next
  operation, unless its byte sum is zero, which `buffer_size` prevents.
* `memory.c:75`: the bitmap shares block 0 with its holder; the scan that
  "should not reach here if free_count > 0" (`memory.c:112`) then does.
* `logger_service.c:132`: beyond what `logger_retention` shows, an entry that is
  refused is not counted: `dropped_count` is always 0 (`logger_service.h:58`).
* `scheduler.c:233`: a refused creation leaves its parameters in the table, and
  the next plain creation takes them without analysis; `scheduler.c:149`: a
  process whose priority is out of range is created and never dispatched.
* `system_monitor.c:69`: the fail counter wraps after 256 failures in a row and
  the cross-monitoring is healthy for three updates.
* `system_monitor.c:173`: a self-check that is not due counts as passed and marks
  the secondary monitor healthy after a failed one.
* `hw_watchdog.c:52`: no watchdog is ever armed, every pet is refused, and the
  monitor marks its watchdog armed (`system_monitor.c:288`).
* `interrupt.c:132`: the worst-case latency (`interrupt.h:83`) is the last one.
* `interrupt.c:251`: a failed self-test leaves the controller initialized, and a
  second attempt is refused; `interrupt.c:300`: a registration refused for its
  priority has already replaced the handler.
* `time.c:246`: if the primary source fails, the time reads 0 for ever, because
  the active source stays the primary one; `kernel_time_get_uptime_us` is defined
  in `time.c:319` and in `ipc.c:40`.
* `ipc_pubsub.c:238`: a received message never reaches the subscriber's callback;
  `ipc_pubsub.c:263`: destroying a subscriber unregisters the topic for all, where
  the comment above it says "Unsubscribe from topic".
* `ipc_priority.c:54`: the utilization is truncated to 8 bits and may exceed 100
  (`ipc_priority.c:42` has 0-100), so that a queue of 10 that holds 27 counts as
  nearly empty; `ipc_priority.c:90`: the timeout grows without a maximum.
* `tags.db` has no line for `INTERRUPT` (`log_common.h:29`), so that the tags 2 to 7
  are printed with the name of the next one and `APPLICATION` as unknown; the
  numbers in `formats.db` are not those of `log_common.h:40-60` either (6, latency
  exceeded, is printed as a CAN frame; 15 to 17 are unknown).
* `log_parser.c:286`: the plain loop writes nothing for `-f json`, which
  `tools/readme.md:91` and `main.c:66` promise, and the extended one
  (`main.c:243`) writes text; the default options take the plain loop, which has
  no colours, where `log_parser.h` says "Only ERROR/EMERGENCY in red".
* `log_parser.c:616`: a filter keeps its level and the less urgent ones, where
  `tools/readme.md:99` has "INFO level and above" and line 106 "System errors only"
  (`OutputRespectsFilters` speaks only of the level of the filter itself);
  `main.c:104`: the help's own example `CAN:INFO` (`main.c:60`) is refused with a
  warning, and then everything is printed; `main.c:185`: with 16 filters, the value
  of a further `-m` becomes a file name.
* `log_parser.c:214`: an entry whose level is out of range is counted neither as
  valid nor as corrupted ("-1 if corrupted", line 190). The service accepts the
  levels 4 and 5, which producer and parser refuse. Two bytes that change places
  are not noticed by the additive checksum (`log_core.c:402`).
* `watchdog.c:172`: the handler leaves its loop after the first component of a
  level, so that the others are never marked as triggered.
* `ipc_topics.c:108`: `safety/status/overall` is predefined, and "should be
  registered" (line 314), but its namespace is refused by the validation, so that
  `ipc_init` skips it and `ipc_build_topic` returns `NULL` for it
  (`ipc_topics.h:189` has it registered too, and `docs/msg_types.md:298` lists
  topics of its namespace; `KnownAreValid` speaks neither of this namespace nor of names of 64 characters);
  `ipc_topics.c:197`: all built names share one buffer; `ipc_pubsub.c:51`: a name of
  64 characters is valid (`docs/msg_types.md:12`) and refused by the handles. The status topics of
  diagnostics and power can be built and are not predefined.
* `scheduler.c:46` and `scheduler.c:331` define `scheduler_use_idle_process` twice.
* `ipc_batch.c:133`: a batch is not cleared by sending it, and a batch whose
  content exceeds 4096 bytes (`ipc_pubsub.c:110`) can only be cleared.

## Not modelled

Error codes, the system call table and its wrappers, the storage adapter and the
reading of the RTC are pure functions or stubs: they check their arguments and return a fixed
result, and the modules that call them let the call fail. The logger process is a
loop around a receive that never calls back (`ipc_pubsub.c:238`), so that composing
client, library, process and service would say nothing of what is delivered; the
service is modelled from the calls to `logger_service_process_message`. Within the
modelled parts: the configuration of `log_core.c`, which nothing reads; the layout
and the wording of the parser's lines; the power management of the scheduler,
which nothing calls, and its deadline misses, which are only logged; the second
watchdog of the monitor, whose fields nothing reads; what `validate_time_sources`
does after its first statement, which is never reached; `ipc.c` beyond its
initialization (the shared buffer that is never given back, the routing over a
table of topics that nothing fills), for the same reason. Overlapping calls of the
log ring are left out: it has no lock, and only tests call it.

## Plan

Done: all the parts in the table above that keep state and can be reached, each
with a run; a theorem for every safety property that a passing run checks, the
refinement of `OverwriteQueue` included.

Next, in this order:

1. Proofs: what holds of the parts whose runs show a violation (the early ring of
   the client under a flush that never comes, the startup up to the step that fails).
2. Should the time sources be repaired: the drift, the fail counts and the switch
   to a backup in `KernelTime`; should the shared buffer get room: its use in
   `ipc.c`, composed with `MemoryPools`.
