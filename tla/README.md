# A verification project for FreeRTOS over Bao with fixed-priority memory-centric scheduling

The repository runs one FreeRTOS guest per core on the Bao hypervisor.  A PREM
task (predictable execution model) first fetches its data into the cache while
it holds a memory token the hypervisor lends to one core at a time, gives the
token back, and then computes out of its cache.  The modules in this directory
model the guest's side of that protocol and the periodic tasks that release its
jobs, check them with TLC on small instances and prove their safety with TLAPS
for any number of cores, tasks and periods.

## 1. Inventory

Line numbers are those of `src/src/`.

| Component | State | Operations | Talks to |
|---|---|---|---|
| PREM task body (`prem_task.c:140-259`) | `memory_access`, `hypercalled`, `suspend_prefetch`, `end_low_prio`, `revoked` | request, arm, refuse, enter memory phase, compute, revoke, account, finish | hypervisor (hypercalls), prefetch loop, state machine, scheduler |
| Tick hook (`prem_task.c:92-116`) | `end_low_prio`, `suspend_prefetch` | end of the time to wait: update hypercall, store of the answer | hypervisor, task body (shared globals) |
| IPI handlers (`prem_task.c:62-84`) | `suspend_prefetch`, `current_state` | pause, resume | sent by the hypervisor; nest in the tick hook |
| State machine (`state_machine.c`) | `current_state` | `change_state`, `get_current_state` | all of the above |
| Prefetch loop (`prefetch.S`) | registers only | fetch a line, check the byte, `wfi`; clean the cache | reads `suspend_prefetch` |
| Hypercalls (`hypervisor.c`) | none | request, update, revoke, display | the hypervisor (not in the repository) |
| PREM life cycle (`prem_task.c:208-254, 261-338`) | task ids, measurement arrays, three ask flags | create, delete, ask, init, measure | periodic tasks |
| Periodic tasks (`periodic_task.c`) | `starting_tick`, `last_period_start[]`, kill flag | run, wait for the next period, create, delete | FreeRTOS delay, generic timer |
| Generic timer (`generic_timer.[ch]`) | the counter | read, convert (truncating) | hook, periodic tasks |
| Benchmark library (`benchmark.c`) | min, max, sum, count | init, run, print | applications |
| AArch64 port (`arch/armv8/aarch64`) | critical nesting, interrupt nesting, priority mask, yield request, task contexts | enter/exit critical, tick handler, IRQ and SWI entry, save/restore | FreeRTOS kernel, GIC |
| Other ports (`arch/armv8/aarch32`, `arch/riscv`) | the same | the same | |
| Applications (`execution-*`) | counters, task handles, own IPI handlers in some | create tasks, run benchmarks | everything above |

What is hard in this code: four actors write `suspend_prefetch` (the task, the
tick hook, two handlers) and none of them reads the hypervisor's state while it
does; the handlers interrupt the task, and the hook, between any two
instructions; the token changes hands while an IPI is on its way; the check of
the byte, the fetch and the `wfi` are three instructions; all PREM tasks of a
core share one set of globals.  What makes each component correct:

* body, hook, handlers: a core fetches only with the token, up to the line it
  had decided on; request and revoke match; jobs of a core do not overlap; a
  core that has the token is not suspended; a resumed core goes on.
* periodic tasks: no release early, none twice in a period, none drifts.
* life cycle: a flag is consumed once, by the task it was meant for; array
  accesses stay in bounds.
* port: nesting and mask agree; a context is restored as it was saved.
* prefetch and cleaning: exactly the lines of the data.

## 2. Modules

| Module | Models |
|---|---|
| `MemoryArbiter` | The hypervisor's token, as the guests use it (external): request/update, revoke, IPIs on their way |
| `PremCore` | Per core: the PREM task body, the prefetch loop, tick hook, IPI handlers |
| `PremSystem` | Composition of the cores through the arbiter, fairness, properties, refinement mapping |
| `PremPromise` | Abstract specification: cores take turns fetching; `PremSystem`, `PremApp` and `FpschedApp` implement it |
| `PeriodicTask` | The periodic tasks of one guest: releases, delays, ticks, the kill flag |
| `PremLifecycle` | The PREM and plain periodic tasks of one guest: creation, init, ids, arrays, measurement, the three requests, deletion |
| `PortInterrupts` | The AArch64 port: critical sections, mask, interrupt entry and exit, tick handler, context switch, FPU contexts, start |
| `CacheLines` | The loops of `prefetch.S`: prefetch of a range, flush of a range by address, clearing by set and way |
| `TokenUsers` | What `PremApp` and `FpschedApp` have in common: when a core is in a job, and what it must guarantee to the others |
| `PremApp` | `execution-prem`: `prefetch()` and its own two IPI handlers, composed through `MemoryArbiter` |
| `FpschedApp` | `execution-fpsched`: the task that suspends itself, and its two IPI handlers, composed through `MemoryArbiter` |
| `Benchmark` | `benchmark.c`: a series of runs and its statistics, with machine words |
| `BenchCreator` | `execution-2tasks` and its like: the creator and the benchmark task, over `Benchmark` |
| `MicroTasks` | The tasks of `execution-microbenchmarks`, the order in which they run, and what they must guarantee |
| `MicroBench` | `execution-microbenchmarks`: five tasks and the IPI handlers of one core, among other cores, over `MemoryArbiter` |
| `PremMeasurement` | `execution-prem-measurement`: the series of its PREM task |
| `TokenApps_proofs` | Theorems about `PremApp`, `FpschedApp` (under `Fps!`) and `MicroBench` (under `Micro!`), which share the lemmas on the arbiter; the first two implement `PremPromise` |
| other `*_proofs` | Theorems about the module of that name; `PremSystem_proofs` also shows that `PremSystem` implements `PremPromise` |
| `MC*` | Instances for TLC |

### The token protocol (`PremCore`, `PremSystem`)

A PREM task has a program counter `pc` with one value per step of `vPREMTask`
that another actor can tell apart, and `remaining`, the line count in register
x1.  Each global of `prem_task.c` is a function on `Cores`, under its name in
the code.  `uxSchedulerSuspended` is the scheduler suspension of the core's
kernel; a task is dispatched only when it is 0.  `update` is the answer the tick
hook holds between its hypercall and its store (`NoUpdate` otherwise): while it
holds one, the task of the core does not run but IPIs do, as in
`FreeRTOS_Tick_Handler` (`arch/armv8/aarch64/port.c:422-437` enables interrupts
before the hook runs, and `prem_task.c:329,334` gives the IPIs the top
priority).  The handlers are atomic: nothing interrupts an interrupt of top
priority.

Steps merged because no other actor can see between them: `hypercalled++` with
the hypercall and the store of its answer; the hook's tests with its hypercall
(a nested IPI moves `current_state` only between `MEMORY_PHASE` and
`SUSPENDED`, which the test does not tell apart); `revoked` with its one use;
`change_state(WAITING)` with `xTaskResumeAll`.

Abstractions: time (`end_low_prio` is 0 or armed, and an armed one may have
passed at any tick); addresses (only the number of lines counts); the job's
code; `cpu_priority` (the arbiter decides; `Outranks` lists which core may
preempt which).  `uint8_t` matters in one place and is modelled there:
`Complement(b) == 255 - b` is what `~update.ack` leaves in a byte.

### The arbiter

The hypervisor is a submodule that is not in the repository.  `MemoryArbiter` is
deliberately the best-behaved one the guest code could hope for: hypercalls are
atomic, an owner's revoke passes the token on at once, a refused core is remembered,
a core is resumed exactly when it gets the token.  What goes wrong in section 4 goes
wrong although the hypervisor behaves.  `Outranks` permits preemptions and forces
none: where the priorities of cores change (`execution-prem/main.c:112`) it has the
pairs of all times together.  `OrderedIPIs` is an assumption about time: an IPI is
taken before the hypervisor sends that core another one and before the core makes
its next request.  An IPI takes microseconds and a memory phase much longer, so it
usually holds; nothing in the code enforces it.  Without it an SGI is one pending
bit per target, and two pending ones of equal priority are taken in either order.

### Periodic tasks

`PeriodicTask` is the loop of `vPeriodicTask` over one clock.  `now` is the
counter of the generic timer; it may advance between any two steps of a task.
`nextTick` is when the timer raises its next interrupt.  `Tick` comes at most
`Latency` counts later and, as `FreeRTOS_ClearTickInterrupt` does
(`arch/armv8/port.c:10-12`), sets the timer again from the moment it is handled.
`delay` is FreeRTOS's delayed list: `vTaskDelay(n)` sleeps until the n-th tick
from the call, and `vTaskDelay(0)` only yields.  The kernel has neither
preemption nor time slicing (`inc/FreeRTOSConfig.h:33,83`), so `running` changes
only in `Dispatch` and where a task delays or deletes itself; `NoTask` stands
for the idle task, which yields whenever a task is ready.  `pc` has one value
per place of the loop, and the late loop of lines 84-87 is one step per turn.
Divisions truncate as in `generic_timer.h:60,62`.  A job may call
`vTaskPeriodicDelete`; `asked` remembers who did, for a property only.
`KillHitsTheAsker` holds because of that kernel: `inc/prem_task.h:48,80` speak of
preemption being enabled, and with it the one kill flag could reach another task
that returns from its job first.

Assumed: jobs neither block nor yield (a PREM job runs with the scheduler
suspended); the counter is not 0 when the first task runs (0 marks
`starting_tick` as unset); counters do not reach 2^64.

`PremSystem` does not use `PeriodicTask`: it releases a job whenever a task is
idle, which includes every release pattern of `PeriodicTask`.

### Life cycle

`PremLifecycle` keeps what the two above leave out: the two counters ids are
taken from (`periodic_task_number`, `task_id`), the arrays those ids index, the
response times written to them and the three flags a job raises for
`vPREMTask`.  `length` is the number of elements allocated per array (0 for a
pointer never set and for `pvPortMalloc(0)`), and `stray` collects the arrays
accessed past it.  `InitTime` is when `main` calls `vInitPREM`.  A turn of a
task in the loop of `vPeriodicTask` has one action per step that reads or
writes shared data; a task that got the core keeps it to the end of the turn,
because a job suspends the scheduler and the kernel does not preempt.  The
flags are global: `flags` is one set for all tasks.  A response time is converted
to ns with truncation, as `prem_task.c:214` does.

Assumed: no job asks for both a deletion and a display (no application does;
the display would stay requested and go to another task).

### The port

In `PortInterrupts` the kernel above the port is open: a running task may
enter and leave critical sections, yield or register for the FPU at any time,
and `vTaskSwitchContext` picks any task.  What runs with the I bit set is one
action.  Three interrupts stand for three ranges of priorities: the tick, a
device that calls FromISR functions, and an IPI above the mask.  `ICCPMR` is
the mask register, `context` what the switch saves on a task's stack, `depth`
and `fpUse` are the history the properties compare with.  The FPU is one
register file (`fpRegs` says whose values it holds).

### Caches

`CacheLines` runs the three loops on words of `Width` bits with the wrap and
the signed comparison of the code.  `prefetch_data` divides the size by the line
and counts down with a test at the end; the flush aligns the start to the
smallest line of the core and compares addresses; the clearing by set and way is
two nested loops that count down.  `LinesOf` is the reference: the lines that
hold a byte of the range.  The loop with the check of the byte is `PremCore`'s.

### Applications with handlers of their own

`execution-prem` sets `MEMORY_PHASE` before it asks, and its handlers go by the
state; `execution-fpsched` suspends its task in FreeRTOS.  Both are composed with
the same arbiter as `PremSystem`.  A call of `vTaskSuspend` or `vTaskResume` from
a handler enters a critical section, whose assertion halts the core:
`pc = "halted"` (`vTaskResume` of the running task is a no-op, of one that is
switched out it asserts).  `TokenUsers` has the properties of both, over the
program counters: a job (`InJob`) lasts from the answer to the request until the
revoke, and that is the memory phase which `PremPromise` sees (`phaseOf`); a core
that has revoked computes, any other rests.  The lines that are left (`leftOf`)
are those of the loop in `execution-prem`; the memory phase of
`execution-fpsched`, one step of the model, is one line.

### Benchmarks

`Benchmark` has machine words: `Width` bits, results through an `int` of
`IntWidth` bits as the getters return them.  `BenchCreator` has the two tasks of
an application that measures one size after the other; any step of one may fall
between two of the other (equal priorities, time slices where the configuration
has them), and they meet in one notification.  The two nested loops are the
indices `outer` and `inner`.  `MicroBench` has the five tasks of the
microbenchmarks, run in the order of their priorities, each to its deletion;
other cores take the token and send IPIs at any time.  `MicroTasks` has what the
order of the tasks is for: the two tasks that ask for the token run after
`vIPITask`, which counts any IPI as its own.  The answers of the
requests are modelled but nobody reads them, as in the code.  `PremMeasurement`
has the two counts of one series, `test_number` in the application and
`response_number` in `prem_task.c`, which come apart when a revoke fails.

### Constants and bounds

`Cores`, `Tasks`, `CoreOf`, `Lines` (cache lines per task, at least 1: with
fewer than 64 bytes the loop of `prefetch.S` counts down from 2^64-1),
`Outranks`, `TimesToWait` (0 and 1: the code tells apart zero and not zero only),
`OrderedIPIs`.  The state space is finite without any bound on the number of
jobs: no counter survives a job.  Two lines are enough for a pause to come
before, between and after fetches; two tasks on one core for every question
about shared globals; two cores for a preemption.  More cores are the matter of
the theorems, which hold for any number; `app` and `fpsched` have three, so that
a core can wait while two others pass the token between them.

`PeriodicTask`: `Freq` 5 and `Rate` 2, so that every conversion truncates and
`timer_step` does too; periods of 5, 2 and 0 counts, one of each kind; `Latency`
1; `Stalls` lets time pass between a task's reading of the counter and its
delay.  `Horizon` bounds the clock: 12 counts are two periods of the slow task
and five of the fast one, with jobs that last from none to all of them.  At the
horizon the model stutters (`AtHorizon`), so that deadlock is checked everywhere
else.

`PremLifecycle`: two PREM tasks and a plain one, created in any order, so that
the two ids of a task agree or differ; a `Horizon` of 4 with jobs of 1 and 2
leaves room for the first job, which is not counted, and for a second and third.
`PortInterrupts`: two tasks that both use the FPU, and critical sections nested
twice (`MaxDepth`); the nesting of interrupts is bounded by their priorities.
`CacheLines`: addresses of 8 bits, lines of 8 bytes, every alignment in a line
and one far away, every size from one line to three and more, all ranges of
three sets and ways.  `BenchCreator`: words of 16 bits, an `int` of 8, a tick of
4 ns or half a us, so that a run of one tick is 0 us and no run is 0 ns; 2 by 2
tests of three runs.  `MicroBench`: two runs per series, which tell a minimum
from a maximum, and a clock of 3 counts.  `PremMeasurement`: sizes 1, 3 and 5,
four tests each, up to four failed revokes (`MaxSkips`): more than a series has.
`PremLifecycle` counts 3 ns to 2 counts of the timer, so that the conversion truncates.
`PremApp` and `FpschedApp`: three cores in an order of priority, as `execution-prem`
has before one of them rises.

## 3. What holds

| Run | Property | Says | Proved |
|---|---|---|---|
| pair | `TypeOK` | types, counters at most 1 | `TypeCorrect` |
| | `PrefetchNeedsToken` | a core whose prefetch may go on owns the token, or its pause is on the way | `PrefetchExclusion` (needs `OrderedIPIs`) |
| | `TokenMatchesJobs` | owner and waiting cores are exactly those between request and revoke: none computes with the token (section 4: what `prem_task.h` says) | `TokenAccounting` |
| | `JobsDoNotOverlap` | the globals of a core have one user; the re-request of lines 193-202 is dead code (section 4: what the comments say) | `NoOverlap` |
| | `SuspendedStandsStill` | in the prefetch, `SUSPENDED` implies the byte is up | `SuspendedStops` |
| | `PromiseKept` | `PremSystem` implements `PremPromise` | `PromiseIsKept` (needs `OrderedIPIs`) |
| live | `ResumedProceeds` | a prefetch whose byte is 0 gets out, or is paused again | liveness: TLC only |
| periodic | `TypeOK` | counters do not wrap: `next_period_start - currentTick` is never negative where it is converted | `TypeCorrect` |
| | `NeverEarly` | no job runs before its release, so response times do not wrap around | `ReleasedInTime` |
| | `OnTheGrid` | releases are the shared start plus multiples of the period | `ReleasesOnTheGrid` |
| | `SkipsOnlyMissed` | a period is left out only if it had begun | `NoNeedlessSkip` |
| | `PeriodApart` | two releases are a period apart at least | `ReleasesApart` |
| | `KillHitsTheAsker` | the one kill flag kills the task that raised it | `AskersDie` |
| port | `KernelDataExclusive` | critical sections, the tick and FromISR functions exclude each other | `KernelDataIsExclusive` |
| | `MaskMatchesNesting` | a running task is masked exactly in a critical section, through yields inside one | `MaskIsRight` |
| | `FpuIntact` | a task finds its FPU registers as it left them | `FpuIsKept` |
| | `PreemptedOutsideSections` | no interrupt switches out a task in, entering or leaving a critical section | `SectionsAreNotPreempted` |
| | `BootStaysMasked` | what `main` has masked stays masked until the start | `BootMaskIsKept` |
| life | `AccessesAllocated` | arrays are used within what is allocated (`response_number` apart, section 4), parameters not after they are freed | `AccessesAreAllocated` (needs `InitTime = "last"`, `Measure`) |
| | `StatisticsAreSeries` | the arrays hold the statistics of the task's own jobs since its last display (tasks whose two ids agree) | `StatisticsAreTheSeries` (needs `InitTime = "last"`) |
| | `SeriesOfOneSize` | the jobs of a displayed series prefetch one size | `SeriesHaveOneSize` (needs `ChangeDisplays`) |
| | `RequestsServedByAsker` | the global flags are served in the job that raised them | `ServedByAsker` (needs `OneEnd`) |
| app | `UnrivalledOwnsToken` | a core that no other ever outranks prefetches only with the token | `UnrivalledPrefetchAlone` |
| | `TokenMatchesJobs` | as for pair | `TokenAccounting` |
| | `PausedIsResumed` | no resume of a core paused in its prefetch is lost | `PausedAreResumed` (needs `OrderedIPIs`) |
| fpsched | `UnrivalledOwnsToken` | as for app, without times to wait | `FpsUnrivalledAlone` |
| | `TokenMatchesJobs` | as for pair; a halted core stays owner or waiting | `FpsTokenAccounting` |
| cache | `PrefetchIsExact` | nothing but the data is fetched, and all of it if it is whole lines | `PrefetchFetchesData` (needs `DataFillsALine`) |
| | `FlushIsExact` | the flush removes the lines of the range and no others | `FlushFlushesData` (needs sizes above 0) |
| | `CiswIsExact` | the clearing by set and way does each cell of its range once | `CiswClearsRange` |
| bench | `StatisticsMatchTimes` | number, minimum, maximum and sum are those of the runs since `init_benchmark`, the sum as far as a word holds it | `StatisticsAgree` |
| | `SeriesUndisturbed` | no series is cut short or mixed with the next test's | `SeriesIsUndisturbed` |
| | `ZeroIsMeasuredAgain` | a test with a minimum of 0 us is redone before the next | `ZeroIsRedone` |
| | `Finishes` | all tests end, when no run takes 0 ticks | liveness: TLC only |
| micro | `IPITimesAreLatencies` | what is counted is what the IPIs took; a pause of the token protocol ends no measurement | `MicroIPITimes` |
| | `TokenOnlyInMeasurement` | each measurement gives the token, or its place in the queue, back | `MicroTokenAccounting` |
| | `Finishes` | all five tasks end, whatever the other cores do | liveness: TLC only |
| meas | `ResultsInOrder` | the displayed sizes come in order, each series of one size, failed revokes or not | `SizesInOrder` |
| | `ResultsAsAnnounced` | without failed revokes each result has the tests asked for, of the size announced | `AnnouncedIsMeasured` |
| | `Finishes` | all sizes are measured and the task is deleted, if no memory phase lasts for ever | liveness: TLC only |

Proved although no run lists them: the type invariants of `PortInterrupts`,
`PremLifecycle` (no time that is subtracted is later than the one it is taken from),
`CacheLines`, `PremMeasurement`, `PremApp` (the line count never wraps) and
`FpschedApp`; `NestingIsOwn` and `NoYieldLeft` of the port (a thread finds its own
count of critical sections again; a requested switch is made before any task runs);
`ResultsAreComplete` and `NanoOnlyForZero` of `BenchCreator` (a printed result is
that of one whole series; ns are used only after a minimum of 0); the type invariant
and `StatisticsAreSeries` of `MicroBench` (a printed series has the statistics of
all its runs and of no others, the mean between minimum and maximum:
`MicroStatistics`); `DeletedWhenComplete` and `FewerStepsToGo` of `PremMeasurement`
(the task is deleted when all sizes are displayed, not before, and each step leaves
fewer to take:  `AllSizesDisplayed`, `MeasurementIsBounded`); `TurnInv` of
`PremPromise`, also as inherited by PREM tasks (`TurnsAreKept`, `PremTakesTurns`);
`PromiseKept` of `PremApp` and `FpschedApp` (`PromiseIsKept`, `FpsPromiseIsKept`).
TLC finds no error in what these say of `MicroBench`, `PremMeasurement` and
`PremPromise` on the instances of `MCMicro.cfg`, `MCMeas.cfg`, `MCPremPair.cfg`,
`MCApp.cfg` and `MCFps.cfg`, the last two with every core outranking every other and
with the steps that `PausesAfterStore` and `PausesInMemoryPhase` exclude left out.
The `TypeOK` of the other modules documents their variables.

`PremPromise` states the purpose of the system without bytes, IPIs and program
counters: cores take turns, fetch only in their turn, when overtaken go on only
until they are told and then for one line at most, and compute only with all lines
fetched; the turn is never lost while someone wants it.  The mapping (`Promise` in
`PremSystem`): a core is in its memory phase from the answer to its request until
its revoke, whatever `current_state` says; it is told by taking `IPI_PAUSE`.  What
follows from it is `TurnInv`: the turn is with a core in its memory phase, and with
none only if none is in it; the overtaken are still fetching; nobody computes or
rests with lines to fetch.  `execution-prem` and `execution-fpsched` implement it
too, with IPIs in order and whichever core outranks which, in the behaviours in
which no pause falls on a few statements: in the first from the change of state to
the store of the answer (`PausesAfterStore`, `execution-prem/main.c:69-75`), in the
second from the grant to the change of state (`PausesInMemoryPhase`,
`execution-fpsched/main.c:38-48`, without times to wait).  Nothing in the code keeps
pauses away from there, and with one of them neither implements it (section 4: the
stale answer, the pause that is ignored).  That a core which has the turn goes on is
not part of it: both applications may sleep with the token (section 4 as well).

`SuspendedStandsStill` shows a trap for whoever repairs finding 1: with the
logical complement (`!update.ack`) the store of a stale yes, after a pause
nested in the hook, lets a core without the token prefetch.  That is the mutant
`LogicalComplement`.

### Fairness

`PremSystem!FairSpec` is used by `live` and by the temporal counterexample.  A
task that has begun a job goes on (it is alone on its core until the job ends,
and its code returns); pending IPIs are taken (top priority, not masked by
FreeRTOS); the tick goes on, ends its hook, and an armed time to wait passes at
last.  The release of a job is not fair: a task need never run again.

`BenchCreator`: each of the two tasks goes on; neither waits for ever in a spin
of the other.  `MicroBench`: the task that runs is alone on its core, and the
three kinds of IPIs are taken; the other cores and the clock are not fair.
`PremMeasurement`: a job that has computed goes on, alone on its core.  That a
job gets through its memory phase is not fair: a refused core sleeps until it is told,
and the race of line 165 (section 4) may keep it asleep for ever; the rivals of this
application have the default handlers.  So `Finishes` has the end of every memory phase
as its condition (`MemoryPhasesEnd`).  That not all revokes fail is `MaxSkips`.

## 4. What does not hold

`tick_grant` checks one statement of the repository (`HolderRevokes`: a core
that holds the token gives it back) and finds a counterexample:
`suspend_prefetch = ~update.ack` (`prem_task.c:112`) is 254 for a yes.  One
core, alone, granted with a time to wait: at the end of that time it stops for
ever, with the token.

The following statements do not hold either.  Each is a definition of the module
named, with the instance on which TLC finds a counterexample in a moment; they
are not among the runs because the properties of section 3 already say what is
left of them, or because the cause is plain once it is known.

Token protocol (`PremSystem`; no time to wait in any of them)

* `HolderRevokes`, two cores without preemption.  A resume between the refusal
  (line 151) and `suspend_prefetch = 1` (line 165) is overwritten.
* `GrantedIsNotSuspended`, two cores of which one outranks the other.  A pause
  taken after the last line leaves the byte up, and a grant does not clear it.
* `AccessUntilComputed`, the instance of `pair`.  `inc/prem_task.h:64-66` has the
  access released "after computation phase"; the code revokes it before
  (`prem_task.c:178-181`), as the diagram of `inc/state_machine.h` has it.
  `TokenMatchesJobs` holds of the code and contradicts that comment.
* `RefusedCanBeReplaced`, the instance of `pair`.  `inc/prem_task.h:48-50,70-73`
  let a task of higher priority take the place of one that waits for its grant, and
  the comment at `prem_task.c:192` has the first one request again "for preempted
  task".  The lines that would let it happen are commented out (166-171): the
  scheduler stays suspended from the request to the end of the job, a task of higher
  priority waits, and the second request (193-202) is never made.  `JobsDoNotOverlap`
  holds of the code and contradicts both comments.
* `MemoryPhaseWasGranted`, two cores.  A refused job goes to `MEMORY_PHASE` by
  itself, against the diagram in `inc/state_machine.h`.
* `PrefetchNeedsToken` with `OrderedIPIs = FALSE`, three cores in an order of
  priority.  A resume and the pause that follows it, taken in the wrong order,
  leave a core prefetching without the token.

Periodic tasks (`PeriodicTask`; `SoloPeriods`, `Stalls = FALSE`, `Horizon = 40`)

* `LateRunsAtOnce`.  A late job is followed by a sleep up to the next multiple of
  the period, not by the next job "as soon as possible"
  (`inc/periodic_task.h:30-32`).
* `DelayUnderestimates`.  Each tick is longer than `timer_step` by its latency;
  over a long period the truncated number of ticks takes longer than the period
  has left, against the comment of `periodic_task.c:70`.

Life cycle (`PremLifecycle`)

* `MeasureArraysAllocated`, any instance with `Measure`.  `response_number` is
  written but never allocated (`prem_task.c:311-320`).
* `StatisticsAreSeries` without its condition on ids, a plain task created
  first.  `get_last_period_start` is given the PREM id, the array is indexed by
  the periodic one (`prem_task.c:213`).
* `AccessesAllocated`, `InitTime = "first"`, the order `inc/prem_task.h:93-94`
  asks for: the arrays are sized before a task is counted.
* `AccessesAllocated`, `InitTime = "never"`, all tasks `Plain`: applications
  such as `execution-2tasks` never call `vInitPeriodic`, and
  `last_period_start[task_id]` is written through NULL.
* `AccessesAllocated`, `Measure = FALSE`: a deletion displays results that were
  never allocated (`prem_task.c:245`).

Applications (`PremApp`, `FpschedApp`; two cores, no time to wait but where said)

* `PremApp!OwnerIsNotStopped`.  The handler ignores the resume of a refused core,
  whose state is `MEMORY_PHASE` (`execution-prem/main.c:58`): it sleeps with the
  token.
* `PremApp!PrefetchNeedsToken`.  A pause between the answer and its store is
  overwritten by the stale answer (`execution-prem/main.c:75`).
* `PremApp!PromiseKept`, also without that race: a pause that is late, taken after the
  next change of state (line 69) and before the request, leaves `SUSPENDED`; the job
  is granted and prefetches in that state, and the handler ignores the next pause.
* `FpschedApp!AssertHolds`.  The handlers call functions that assert not to be
  in an interrupt (`execution-fpsched/main.c:86,106`).
* `FpschedApp!OwnerIsNotSuspended`.  A resume before the state is `SUSPENDED`
  (line 43), or before the task is suspended (line 44), is lost.
* `FpschedApp!PrefetchNeedsToken`.  A pause between the grant and the change of
  state (line 48) is ignored; and with a time to wait a refusal is not 0, so that
  `ack_access` (line 38) is taken for a grant.

Caches (`CacheLines`): `PrefetchIsExact` without its condition on whole lines
(up to a line at the end is not fetched, `prefetch.S:105`), and with a size
below a line (the count begins at 0 and the loop fetches everything,
`prefetch.S:110`).

Benchmarks

* `BenchCreator!MeasuredOnceInNano`, with 0 in `Elapsed`.  `use_nano` is reset
  before it is tested (`execution-2tasks/main.c:124-134`), so a test of 0 ns is
  repeated for ever.
* `BenchCreator!TaskDoesNotReturn`.  `vBenchCreationTask` returns at its end
  (line 140), which a task must not do.
* The getters of `benchmark.c:35` return ns or us through an `int`, not "ticks"
  (`inc/benchmark.h:13,16`); `get_minimum_time` is modelled as it is.
* `Benchmark!PrintedInOrder`, with a time in `Elapsed` whose ns do not fit an `int`:
  the minimum printed may be above the mean, and the mean above the maximum.
* `PremMeasurement!PrintedNotMeasured`.  If the revoke of the first job of a
  series fails, the second one prints and is measured
  (`execution-prem-measurement/main.c:41-42`).

## 5. The proofs

Every theorem is proved from the assumptions on the constants declared in the
modules and from the hypotheses it names itself, and no others.  A theorem with a
hypothesis says what the code needs of its surroundings:  `OrderedIPIs` of time
(section 2); `InitTime = "last"` is the order in which the applications call
`vInitPREM` after all (section 4 has what happens in the other), `OneEnd` that no
job asks for a display and for its deletion, `ChangeDisplays` that a job that asks
for another size ends its series, `DataFillsALine` that the data to prefetch are a
line or more, `PausesAfterStore` and `PausesInMemoryPhase` that no pause falls on
the statements named in section 3.  The statements about `MicroBench` name that
module's assumptions, because an instance does not bring them along.

`PremSystem_proofs`:

* `SafetyInv` is inductive.  `TypeOK` alone is not: that a count stays at most 1
  needs `JobsDoNotOverlap`, and that the line count stays a natural number needs
  `LinesLeft`.  `TokenMatchesJobs` needs `TimerInTokenWindow`: the tick hook asks
  for the token only if a time to wait is armed, and line 180 disarms it before
  the revoke of line 181; armed at the revoke, the invariant would break one tick
  later.
* with `OrderedIPIs`, `OrderInv` is inductive: a resume on its way to a core in
  its token window means it is the owner (`IPIsInOrder`), and a core in the
  window without the token and without a pause on its way has its byte up or has
  just been refused (`StoppedWithoutToken`).

Each is one lemma per conjunct, with one step per action.  Lemmas on the
arbiter's answers (`AskToken`, `RevokeToken`, `AskIPIs`, `RevokeIPIs`) and on
how the program counters move (`InnerStep`, `InterruptStep`, `WindowKept`) are
shared.

The last part of the module proves that `PremSystem` implements `PremPromise`, for
any number of cores and tasks, from `OrderInv`.  `JobsDoNotOverlap` makes the task of
a core that is in its job all there is to see of the core (`SeenOfJob`), and
`TokenMatchesJobs` makes the overtaken cores the waiting ones (`WaitersMatch`).
With both, each step is one of `PremPromise` (a request is `Enter`, an update of
the tick hook that preempts is `Overtake`, a pause taken by an overtaken core is
`Tell`, a revoke is `Compute`) or changes nothing there.  The step that needs
the most is the check of the byte, which nobody must see: a core that is not the
holder, and has been told, finds its byte up (`StoppedWithoutToken`).  `TurnInv` is
proved of `PremPromise` from its own six steps (`TurnStep`), and of PREM tasks by
the refinement, not by another induction: `PremTakesTurns` is `PromiseIsKept`
followed by `TurnsAreKept`, for any number of cores.

`PeriodicTask_proofs` proves every property of `PeriodicTask`, whatever the
periods, priorities, frequencies, latency and horizon.  Nothing a task noted lies
in the future (`TimeInv`): `NeverEarly` follows from it, because a release is
copied from a boundary that a reading of the counter has reached.  The boundary
a task looks for is on the grid too (`GridInv`, with the lemma `GridStep` that a
period further is on the grid).  `SkipInv` says where a task stands in its
search.  `FlagInv` says the flag is up only while the task that raised it is
between its job and the test that follows: without preemption nobody else can
see it.

`PortInterrupts_proofs` proves `PortInv` inductive, for any tasks and any depth.
Its parts say who may run above whom: the mask is up for the handler that put it
up (`MaskOwners`) or for the thread below all handlers (`MaskOfThread`,
`MaskOfMain`); the count of nested interrupts is the number of active handlers
(`NestingCountsHandlers`), which is what makes the exit of the outermost one
the place of the switch; a task that is switched out is at rest in the port's
functions and its context is its own (`FpuContexts`).  `KernelDataExclusive` and
the action properties follow from these without induction of their own.

`PremLifecycle_proofs` rests on two invariants.  `OneTurn`: one task is between the
start of its job and the check of the kill flag, because a job suspends the
scheduler, so that flags that belong to nobody are read by the task that raised
them.  `OwnIds`: each counter gives every task an id of its own, below the counter.
The types depend on the second, since the ids index arrays.
* `RequestsPending` and `ChangePending` say, step by step, which requests of the
  job are still in the global flags; `RequestsServedByAsker` needs the first,
  `SeriesOfOneSize` the second.
* `ArraysSized`: `vInitPREM` sizes the arrays for the tasks counted before it.
* `StatisticsAreSeries`, for tasks whose two ids agree, compares an array element
  with a sum over the series.  That a series longer by one job has its sum longer by
  one time is an induction over the series.  The induction theorems of the library
  are out of reach here (their parameter is an operator), so it is done by hand: a
  set of numbers that is not empty has a least element (`LeastNumber`, from the
  well-foundedness of <), which contradicts the step (`SumExists`, `SumUnique`,
  `SumAppend`).

`CacheLines_proofs` says of each loop what it has done when it comes round again:
the lines up to the current one are fetched (`PrefetchSoFar`), those below the
current address are gone (`FlushSoFar`), the ways above the current one and the
sets of it above the current set are cleared (`CiswSoFar`).  A block of bytes
between two multiples of the line lies in one line (`OneLine`), whichever
addresses the loop steps through.  The provers know nothing of exponents:
`PowerAssumption` states what is used of 2^Width and of the two sizes of lines.
`DataAssumption` keeps data a line below the addresses that are negative to the
signed comparison of the flush, which would otherwise end before the data does.

`TokenApps_proofs` has what a request and a revoke do to owner, waiting cores and
pending IPIs (`Asked`, `Revoked`), and three applications over it.  `TokenInv`
pairs requests and revokes, under any policy and order of IPIs.  `GrantInv`
follows a core that no other outranks: no pause is ever sent to it, so a grant
lasts.  `StoppedInv` includes the core that will find itself stopped when it
stores its answer, without which `PausedIsResumed` is not inductive.  In
`MicroBench` the arbiter sends IPIs only to cores that own the token or wait for
it, and no task that asks for it runs while `vIPITask` exists; so `IPIInv` can
say that no other IPI is pending, and that the one sent is on its way or has
been counted once.

`PromiseIsKept` and `FpsPromiseIsKept` map each step of the two applications to one
of `PremPromise`, for any `Outranks`.  They rest on `HeldInv`: a core whose prefetch
may go on owns the token, or its pause is on the way and finds the core in the state
in which the handler acts.  It is inductive only if no pause is taken where the code
would forget it, which is what the two hypotheses say; the counterexamples of
section 4 are the steps at which it fails.  A request that is granted is `Enter` or
`Overtake` (`RequestTurns`), a pause taken is `Tell` (`IsTell`), each line is
`Fetch`, a revoke is `Compute`, which leaves open who is next (`RevokeTurns`).  In
`execution-fpsched` a halted core stays in its memory phase, which `PremPromise`
allows: nobody must ever finish.

`SeriesInv` of `MicroBench` bounds the sum by the smallest and the greatest time
times the number of runs; for this the sum must not wrap around, so
`MicroStatistics` assumes a longest time of which all runs of a series together
stay below 2^64.  A longer series would print a mean that is none.

`PremMeasurement_proofs` proves `MeasurementInv`.  `main.c` and `prem_task.c` keep
the size and the count of jobs apart.  `SizesAgree`: they differ in size only from
the job that asks for the next one to the change; and the last size is whole
increments away, so that the test for equality that ends the measurement cannot miss
it.  `CountsAgree`: the count of `main.c` is at most that of `prem_task.c`, which is
why a result never has less than the tests asked for; they are equal while no revoke
has failed.  Two more results are the part of `Finishes` that needs neither fairness
nor the end of memory phases.  `SizesAccounted`: every size is displayed, about to
be, or still to be measured; so at the deletion all are displayed.  `StepsToGo`
counts the jobs of the sizes to come, the revokes that may still fail and the steps
of the job; it is a natural number that every step decreases (`CodeCounts`,
`JobsDecrease`), the last job of a series because the sizes to go are then one less.

`BenchCreator_proofs` proves `BenchInv`: creator and task take turns (`Turns`), the
series is the task's from its start to its results (`Started`, `RunsCounted`,
`Results`), and the statistics are those of the times so far.  For the sum this
takes two lemmas: the sums over a series exist, are unique, and go on by one time
with one more run (`SumExists`, `SumUnique`, `SumAppend`, an induction by the least
index as in `PremLifecycle_proofs`); and cutting to a word at each addition is
cutting once at the end (`WordOfSum`).  `PowerAssumption` states that 2^Width is a
number above 0: the provers know nothing of exponents.

Not proved: liveness (`ResumedProceeds` and the three `Finishes`, but for the
bound on the steps of `PremMeasurement`), which TLC checks under the fairness of
section 3; every other property of the passing runs is a theorem.

## 6. What is not modelled

* The AArch32 port has the same protocol as the AArch64 one, but `prefetch.S` is
  AArch64 assembly and no PREM application is built for it.  The RISC-V port is
  the vendor's; the IPIs and the prefetch are not there.
* The FreeRTOS kernel, the bare-metal runtime and the hypervisor are submodules
  that are not in the repository; what the code relies on of them is in the
  modules that use it.
* The TACLe applications: `mpeg2.c` alone is two thirds of the repository's
  lines of code and, like the other two, a third-party program without state the
  system shares.  Their mains create PREM tasks that count jobs as
  `execution-prem-measurement` does.
* `execution-legacy`, `execution-solo`, `cache-execution-solo`: one task in a loop
  over `run_benchmark`.  `execution-prem-solo` is `prefetch()` on a core nobody
  refuses.  Workloads and the notification of other cores are left out of the
  applications modelled.
* `vApplicationAssert` is what halts a core in `FpschedApp`; the other hooks hand
  out static memory to FreeRTOS, or print and stop.
* Display and IPC hypercalls, console output, wording.

What remains worth doing: a composition of `PortInterrupts` with `PremCore`, whose
handlers are atomic today for the reason given in section 2.
