# Verification of ETM-trace

TLA+ models of the ETM-trace kernel modules, TLC runs on small instances, and
theorems checked by TLAPS. Line numbers refer to the repository's sources.

ETM-trace records what a processor core executes. A kernel module, `demo.ko`,
programs the CoreSight path from a core's trace unit (ETM) over funnels to a
trace memory (ETF or ETR), and offers what it reads out of that memory as the
character device `/dev/cs_trace_buffer`. A second module, `pmi_handler.ko`,
answers the periodic overflow interrupt of the cycle counter (PMI): it pauses
the trace, empties the ETF into the device's buffer and continues. Beside them
stand a FIFO device for trace data (`mount_cs_device.ko`), a module that forces
others out, modules that open the performance monitors (PMU) to user programs,
and a small library such programs count events with.

## Inventory

| component | state | operations | interacts with |
|---|---|---|---|
| trace buffer device (`trace.c`) | `paddr`, `write_point`, `tbc_lock`, the 64 KB buffer | `cs_read` | shared with the ETF dump |
| ETF dump (`tmc-etf.c`) | local `result` | `tmc_dump_etf_sink` | called by pause and by `trace_exit`; stores at `write_point` under `tbc_lock` |
| PMI handler (`pmi_handler.c`) | registered interrupt, cycle counter | `pmu_irq_handler`, `init`, `fini` | calls `cs_trace_pause`, `cs_trace_continue` of `demo.ko` |
| path control (`connect.c`) | none of its own | enable, disable, pause, continue per platform | calls the unit drivers in order |
| unit drivers (`etm.c`, `tmc*.c`, `funnel.c`, `pmu.c`) | the units' registers | enable, disable, flush, wait, dump | the hardware runs concurrently |
| module life cycle (`trace.c`, `mount_cs_device.c`, `pmi_handler.c`) | device, class, mapped registers, reference counts | `trace_init`, `trace_exit`, `init`, `fini` | user tasks, interrupts |
| forced removal (`force_rmmod.c`) | module state and reference counts of another module | `force_cleanup_module` | overrides the life cycle |
| FIFO device (`mount_cs_device.c`) | `read_point`, `write_point`, buffer | `cs_read`, `cs_write` | user tasks, without a lock |
| PMU access modules (`enable_arm_pmu.c`, `pmu_kernel.c`) | PMU registers of every processor | `enable_cpu_counters`, `disable_cpu_counters` through `on_each_cpu` | hotplug, `set_pmu_export`, the cycle counter of `pmi_handler.ko` |
| PMU library (`pmu_utils.h`) | event type, points per type, two readings | `reset`, `pmu_begin`, `pmu_end`, `pmu_get_score` | event counter 0 of the processor the program is pinned to |

What is hard here, and what makes each component correct:

* **Trace buffer.** Tasks and an interrupt meet in one buffer. Correct means:
  mutual exclusion; a copy loop that always meets `write_point`; no word lost,
  repeated or reordered between ETF and reader; a read hands over what it takes; a
  failing copy takes nothing; reads and interrupts come to an end; stores stay in the
  buffer. The code does not keep all of this (see the violated runs).
* **Trace path.** Ordering against running hardware. Correct means: no trace
  is produced into a path that is not ready; the sink is read out after
  everything has arrived in it and before it is disabled; units are configured
  only while quiet; busy waits end; locks do not swallow writes.
* **Module life cycle.** Partial failure, and operations at the wrong time.
  Correct means: the device is usable whenever it is visible, what was set up
  is torn down on every path, no interrupt reaches code that is gone.
* **FIFO device.** Unlocked cursors. Correct means: one word written is one
  word read, which the tasks have to see to themselves.
* **PMU.** One set of registers, four writers that do not know of each other, and
  registers that only set or only clear. Correct means: access is off on every
  running processor after removal; the export of events and the start value of
  the cycle counter survive the others, which they do not always; a program's score counts the
  measurements in which its event occurred.
* **The whole.** The dump takes for granted that the path is stopped and complete,
  and the path that the dump comes to an end. Correct means: every word emitted is
  in one place of the path, or read out of it once.

`PROJECT.json` lists the hazards at their lines with the properties that cover
them.

## Modules

| module | models |
|---|---|
| `TraceLog` | abstract: what readers of the device get, a log of bounded room taken whole by one read, of which they are handed the last word |
| `TraceBuffer` | `cs_read` and the interrupt's dump, one access to shared state per step |
| `TraceBufferProofs` | theorems about `TraceBuffer` |
| `MCTraceBuffer` | placements of two tasks on processors, for TLC |
| `TracePath` | the register accesses of `connect.c` and the unit drivers against the hardware |
| `TracePathCalls`, `TracePathProofs` | annotations of `TracePath`'s calls and that every access and the hardware keep them; the inductive invariant and the theorems |
| `TraceSystem`, `MCTraceSystem` | composition of `TracePath` and `TraceBuffer` on Juno: the interrupt's dump takes from the sink what has arrived there |
| `TraceSystemProofs` | theorems about `TraceSystem`, from the components' |
| `TraceModule`, `MCTraceModule` | insmod and rmmod of `demo.ko`, `mount_cs_device.ko` and `pmi_handler.ko`, step by step, with tasks that use the devices, and forced removal |
| `TraceModuleProofs` | theorems about `TraceModule` |
| `WordQueue` | abstract: what `/dev/cs_device` gives careful tasks, a queue of words with a bounded number of places |
| `CsDevice` | `cs_read` and `cs_write` of `mount_cs_device.c`, one access to shared state per step |
| `CsDeviceProofs` | theorems about `CsDevice` |
| `EventScore` | abstract: what the PMU library promises, points for measurements |
| `Pmu` | the PMUs of all processors with the access modules, the library, `set_pmu_export` and the cycle counter of `pmi_handler.ko` |
| `SumLemmas`, `PmuProofs` | what changes a sum over a finite set; theorems about `Pmu` |

### TraceBuffer

`mem` is the buffer, `write_point` and `read_point[r]` are offsets in words
from `paddr`, `tbc_lock` names its holder, `pc[r]` and `hpc` say where a task
is in `cs_read` and where the handler is. A word of trace is its number in
capture order, so that loss, repetition and reordering show; `End` is the
0xffffffff that ends a dump. It cannot be confused with trace, because the
driver runs the ETF with its formatter on (`tmc-etf.c:9`).

| `cs_read`, trace.c | action | dump, tmc-etf.c | action |
|---|---|---|---|
| 48 empty test, return 0 | `ReadEmpty` | interrupt, path stopped | `PmiEnter` |
| 45-48 words found | `ReadStart` | 77 first word, unlocked | `DumpFirst` |
| 50 `spin_lock` | `ReadLock` | 78 `spin_lock_irqsave` | `DumpLock` |
| 53 page fault, sleeps | `ReadSleep` | 79-86 store, read next | `DumpWord` |
| 51-58 one round | `ReadCopy` | 87-89 closing word | `DumpEnd` |
| 53-56 copy failed | `ReadFault` | 90 unlock | `DumpUnlock` |
| 51 loop left | `ReadLeave` | continue, return | `PmiReturn` |
| 60, 61, 62-64 | `ReadReset`, `ReadClear`, `ReadReturn` | | |

Scheduling is `Runs`: a task does not run while the handler is on its
processor, nor while another task of that processor waits for or holds the
lock (`spin_lock` turns preemption off, and a kernel without preemption does
not need to). The exception is a task that sleeps in `copy_to_user`. Whether
it may sleep there depends on the kernel's configuration: with preemption
counting the fault is refused and the copy fails, which is `ReadFault`;
without, the task blocks, which is `ReadSleep`. The model has both.

The other way into the buffer, the last dump of `trace_exit`, is in
`TraceSystem`, and as a step in `TraceModule`.

The abstract `TraceLog` has the pending words, the number of the last one
stored and, per task, what a read has taken, what it was handed and what it returned.
The mapping is in `TraceBuffer` (`Log`): the log is the buffer below `write_point`; a
read takes it at the moment it resets `write_point`, and returns it when it unlocks.
`TraceLog` is written from what the driver can keep, and says so in two places. It has
`Room` places, and a word that comes when all are in use is counted but not kept
(`Foreign`): the driver stores it past the end of the buffer. And of the words it
counts a read hands over the last one only, because trace.c:53 copies every word to
`buf`. What the repository promises instead is stated by `StoresInBounds` and
`ReadDelivers`, which are violated.

### TracePath

A C function is a sequence of accesses, each a unit and what is done to it, and
a function that calls others concatenates theirs in the code's order. `todo` is
what the running call has yet to do; `Write`, `WaitReady`, `WaitFlush` and
`Dump` execute its head. `hw[u]` is the state of a unit: software lock, OS
lock, enabled or not, what it was configured for, the StopOnFl bit, the state
of a TMC and the number of words it holds. Configuration registers that are
written in one go are one access. The hardware (`Emit`, `Move`, `FlushDone`,
`Stopped`, `Effect`) is external: the trace unit emits into a small FIFO, words
move through open funnels to the next TMC that captures, a flush is over when
no connected unit upstream holds a word, a link TMC is ready only when it has
handed its words on. A word that finds no way on stays where it is.

Two constants stand for what the hardware does with the locks. `LockGates` says that
a locked unit ignores writes (`funnel.c:4` distinguishes locked and unlocked);
the runs take it as true. `OsLockStops` says that the trace unit does not trace while
its OS lock is set, as the comment at `etm.c:20` has it. Every enable function sets that
lock last (etm.c:105, 167), so such a unit never traces between two calls. The runs
take the constant as false, since only then is there trace whose way can be followed; the
theorems hold for both values. The
properties about order (`PathReady`, `PmuBeforeEtm`, `SinkStopped`, `PathDrained`) speak of
the unit's enable bit and not of its OS lock.

`trace_init`, `trace_exit` and `pmu_irq_handler` start calls one at a time. They
cannot overlap, because `pmi_handler.ko` uses symbols of `demo.ko` and so is
loaded after `trace_init` and keeps `demo.ko` from being removed. The interrupt
exists on Juno only: the HiKey build has no pause and no continue function,
although `trace.c:109` and `116` call them (such a build does not link).

### TraceSystem

The variables are those of both components, which are instantiated (`B` and
`P`). `call` is the call that runs. A call's register accesses are `P!Driver`'s
(`Access`), until the next one is the dump. Then `DumpBegin` is
`B!PmiEnter` with as many words as the sink holds, the dump's own steps are
those of `B`, and the last of them is `P!Dump` at the same time (`DumpReturn`).
`Return` ends the call. So the two abstractions check each other: `TraceBuffer`
lets every dump find any number of words in an ETF that stands still, which
`SinkStopped` justifies; `TracePath` takes a dump for one step, which `CallsReturn`
and `ReadsReturn` justify, since the dump waits for a reader's lock with the path
paused. `trace_exit`'s dump takes the same steps, when no task has the device
open. The model has one interrupt handler and readers on processors of their own;
the hang of a reader on the interrupt's processor is `buffer_self_deadlock`.

### TraceModule

`pc` is the next step of the init or exit function that runs, and `cur` the module
it belongs to: insmod and rmmod run one after the other, as from a shell, while
user tasks and the interrupt act between any two steps. `mod[m]` holds the
kernel's state and reference count of module m and its variables. Both device
modules go through the same functions; `SetReadPoint` is `mount_cs_device`'s last
step, the registers are `demo.ko`'s. `Open` takes a reference (`fops.owner`)
unless the module is going, `InsmodHandler` takes one for the symbols it uses,
`Rmmod` needs a live module that nobody refers to or depends on. `MayFail` names
the kernel calls that may fail. An error of `class_create` or `device_create` is a
pointer that is not NULL, so `CreateClass` and `CreateDevice` go on after it as
the code does; the branches behind those two comparisons are never taken and
have no action. Both modules name their class `cs_class`, which the kernel
accepts once: the second of them gets an error, comes up without a device, and
its rmmod dies in `device_destroy`, which follows the error as a class
(`DestroyDevice`; the module stays "going"). `RmmodHandler` frees no interrupt
(`stale`). `ForceCleanup` sets the state to live and forgets the references; the writes to
per-processor copies of the count (force_rmmod.c:106-109), which the kernel does not
keep in that form, are left out. `forced` remembers it, because what it breaks it breaks for good. Reads and dumps
are one step each here (`Read`, `Pmi`, `DisableTrace`); the reads and writes of
`cs_device` change nothing that this module looks at. Only Juno's dump stores into the
buffer: HiKey's ETR is read and its words are discarded (README.md:42).

### CsDevice

Cursors are offsets in words. Every access to a cursor or to the buffer is a step: the
comparison of the cursors, the load through `read_point`, and the load and the store of
each statement that moves a cursor. Words are numbered as they are written.

The driver keeps no calls apart, so what it promises depends on its callers. With
`Careful` false the tasks call read and write as they like. With `Careful` true they make at
most one call of each at a time, and none of read beside a write when there is nothing to
read (`Beside`); a read and a write then still overlap step by step. For careful tasks the
device is the queue of `WordQueue`: `Queued` is what lies between the cursors, a read takes
its word when it stores `read_point` and hands it over when the copy succeeds, a write
appends its word when it stores `write_point`. The queue has the driver's two weak places:
a word that cannot be copied to the reader is lost, because the cursor has already moved,
and only the first `BufWords` words after a rewind are kept, the others are counted and
read as `Foreign`. Creation and removal of this device are in `TraceModule`.

### Pmu

`pmcr`, `cnten` and `userenr` are the registers of every processor; event counter 0
and the cycle counter matter on `Traced` only, the processor that is traced and
that the measured program is pinned to (`run.sh` uses `taskset`). The cycle
counter is "near" its overflow, as `pmi_handler.ko` leaves it, or "far".

| code | action |
|---|---|
| `enable_arm_pmu.c` 50-79, `pmu_kernel.c` 49-57 | `enable_cpu_counters(c)`: writes PMCR anew, enables the cycle counter, opens access |
| `enable_arm_pmu.c` 81-104, `pmu_kernel.c` 59-69 | `disable_cpu_counters(c)`: PMCR or'ed with ~E, access closed |
| `on_each_cpu` | `OnEachCpu`, one of the above per processor, `CallDone` |
| `pmu.c` 3-16 | `InsmodDemo` |
| `pmi_handler.c` 46-48, 39 | `init_pmccntr(c)`, `pmu_irq_handler` |
| `pmu_utils.h` 143-157 | `reset` (in `Start`), `pmu_begin`, `enable_pmu_select`, `enable_pmu_count`, `ReadBegin` |
| `pmu_utils.h` 160-182 | `pmu_end`, `pmu_end_score`, `pmu_get_score` |

`Event` is an event that happens on the traced processor, `Offline` and `Online` are
hotplug: a processor that comes back has its registers reset. Programs run only while an access
module is loaded (`pre-exec/spectre-v4/run.sh`). README.md:65-71 loads an access module
before `demo.ko`, but nothing keeps one from being loaded or loaded again later, so the
modules come and go in every order that the kernel permits. `disable_pmu`
writes the logical and of what it read and a mask, which is 1, to a register that
only sets bits: counter 0 is never disabled. The abstract `EventScore`
shows that the score is right all the same, because each measurement is the
difference of two readings; the mapping counts a point from the reading of
`cntEnd` on, and a measurement lasts until the next `pmu_begin`, since nothing
stops the counter at `pmu_end`. The differences are modulo `Width`, with fewer
than `Width` events per measurement (2^32 in the code).

## Runs

| run | instance | shows |
|---|---|---|
| `buffer_concurrent` | 2 readers on processors of their own, none the interrupt's; 2 interrupts of up to 2 words, buffer of 4 words, which 2 full dumps overflow; fair | `TypeOK`, `LockInv`, `CursorInv`, `WholeDumps`, `FillBound`, `ResetLosesNothing`, `ImplementsLog`, `ReadReturns`, `HandlerReturns` |
| `buffer_delivery` | 1 reader, 1 interrupt | violated: `ReadDelivers` |
| `buffer_self_deadlock` | 1 reader on the interrupt's processor | violated: `HandlerReturns` |
| `buffer_overrun` | buffer and ETF of 4 words, 1 interrupt | violated: `StoresInBounds` |
| `path_boards` | Juno: ETM, 2 funnels, ETF; HiKey: ETM, 2 funnels, 2 link ETFs, ETR; stores of 2 words; fair; the OS lock does not stop the trace unit | `PathReady`, `TraceComplete`, `QuietConfig`, `PmuBeforeEtm`, `EnabledBetweenCalls`, `ReadBeforeDisable`, `CallsReturn` |
| `system_juno` | Juno's path, ETF of 2 words, 4 words emitted, 2 dumps, 1 reader, buffer of 4 words; fair | `SinkStopped`, `EachWordOnce`, `PathDrained`, `CallsReturn`, `ReadsReturn` |
| `module_life` | 2 tasks, both device modules, all failures, forced removal | `NoUseAfterFree`, `DumpHasBuffer`, `NothingRegistered`, `NoLeak` |
| `module_window` | 1 task, no failures | violated: `EmptyIsSeen` |
| `fifo_queue` | 2 careful tasks, 4 writes, 2 words of buffer | `TypeOK`, `ImplementsQueue` |
| `fifo_overlap` | 2 tasks whose calls overlap as they like | violated: `ZeroMeansNoData` |
| `pmu_shared` | 2 processors, 2 access modules, event types 16, 60 and a gap, counter modulo 3, 2 calls of `pmu_end` per reset | `AccessRevoked`, `AccessGranted`, `ExportedAlone`, `ImplementsScore` |
| `pmu_period` | the same, one event type, counter modulo 2 | violated: `PeriodKept` |

Deadlock is checked by every run but `buffer_self_deadlock`: with a reader on the
interrupt's processor the system can hang for real, which `HandlerReturns` judges. A
placement of tasks on processors only takes behaviours away (`Runs`), so the safety
properties of `buffer_concurrent`, where nobody keeps anybody from running, hold for
every placement; its liveness properties do not, as said under Fairness.

Bounds. Two readers are enough for two reads to overlap and for one to find the
buffer emptied between its test and its lock. Two interrupts let a dump precede, overlap
or follow a read, any two of these in one behaviour. Two words per dump give a dump
that is empty, one whose loop runs once and one whose loop runs again. A buffer
of 4 words is overrun by the second dump. Stores of two words in `TracePath`
distinguish empty, partly full and full, and the sink wraps. Two tasks and two
modules in `TraceModule` reach every count of references from none to two beside
the handler's, and a module whose class name is taken. In `TraceSystem` one
reader is enough, since what readers do to each other is the matter of the
`buffer_` runs (`ReadsReturn` therefore says nothing of that):
its read may lie before, around, between and after two dumps. Four words make the
sink of two overflow, or two dumps run over the buffer. In `Pmu` two processors
are the traced one and one that can be off. Modulo 3 the counter wraps within a
measurement and stands at the same value after three events, which is why a
measurement sees at most two. The types 16 and 60 are both summed up, 60 being
the last, and 36 is the last of a gap.
Four writes of `CsDevice` leave its buffer of two words by two, or
use it several times with rewinds. `MaxPmi`, `MaxWords`, `MaxWrites` and
`MaxEnds` are the only bounds that are not in the code; the theorems hold for
every value of them.

### What the violations mean

* `buffer_self_deadlock`: `cs_read` uses `spin_lock` (trace.c:50), the
  handler's side `spin_lock_irqsave`. The PMI can hit the processor of the
  reader that holds the lock, and then spins there for ever. README.md:29 says
  that the lock keeps interrupts out of a read.
* `buffer_delivery`: every word of a read is copied to the start of the caller's buffer
  (trace.c:53), and all of them are reported: the caller gets the closing word of the last
  dump and nothing else.
* `buffer_overrun`: buffer and ETF are both 64 KB and a dump adds a closing
  word, so a dump of a full ETF already exceeds the buffer (tmc-etf.c:82-88).
  `FillBound` says what would be enough.
* `module_window`: the device can be opened before `paddr` and `write_point`
  are set (trace.c:128-132). A read between the two assignments compares NULL
  with the buffer, takes it for filled and copies until it meets NULL.
* `fifo_overlap`: a read that found the cursors equal rewinds both; a write that
  completes in between is discarded although its caller was told it succeeded.
* `pmu_period`: `disable_cpu_counters` (enable_arm_pmu.c:92, pmu_kernel.c:66) ors
  PMCR with the complement of E. The counters stay enabled, and D, X and DP are
  set. The divider D then makes `pmi_handler.ko`'s interrupt 64 times slower, if
  the access module has come and gone before.

Other disagreements met while modelling, which have no run of their own:

* Two readers on one processor can hang: one sleeps in `copy_to_user` with the lock held
  (trace.c:53), the other spins for the lock with preemption off (trace.c:50) and does not let
  it go on (`Runs`, `ReadSleep`). It takes a kernel on which a page fault under a spinlock may sleep.
  README.md:31 takes the spin lock to be all that is needed.
* etm.c:20 says that the OS lock disables the trace unit, and etm.c:105 and 167 set it after
  enabling the unit. With such a unit (`OsLockStops`) nothing is traced after `trace_init`.
* Two writes to `cs_device` that overlap move `write_point` once, and both report success
  (mount_cs_device.c:70). A write compares `write_point` with nothing (line 68): words past the
  end of the buffer are reported as written. `CsDevice` has both; the first needs tasks that are not `Careful`.
* `enable_cpu_counters` writes PMCR without the bits it finds (enable_arm_pmu.c:60,
  pmu_kernel.c:53). Loaded after `demo.ko`, an access module clears PMCR_X, and the PMU's events
  are missing in the trace until it is removed, which sets X again by the accident of `~E`
  (`ExportedAlone`). Line 60 also resets the cycle counter, and so does the removal (line 92): with
  `pmi_handler.ko` loaded the next interrupt is then a full turn of the counter away.
* `demo.ko` and `mount_cs_device.ko` cannot be used together: both create the
  class `cs_class`, and the second comes up without a device.
* `pmu_end` before `reset` counts for SW_INCR: `evType` starts out zero, which is
  not INVALID (pmu_utils.h:77, 161).
* `funnel_disable` does not unlock the funnel, so after `trace_exit` has reported
  "disable trace and reset!" (connect.c:29) its ports are still open.
* etm.c:102 demands the PMU before the trace unit; `enable_hikey970_trace` never
  calls `set_pmu_export`. `PmuBeforeEtm` is checked on Juno.
* An error of `class_create` or `device_create` passes for success (trace.c:86,
  92): `trace_init` returns 0 without a device.
* README.md:70 says `pmi_handler.ko` cannot be unloaded; rmmod succeeds, and the
  interrupt stays registered on a function that is gone. `DumpHasBuffer` assumes
  that nobody does this.
* force_rmmod.c:86 says that a module others depend on is not forced out; the
  branch prints their names and the function goes on.
* `trace_init` leaks `cparam` when the device cannot be created (trace.c:129).

`TraceComplete` shows why the missing unlock of `funnel_disable` is not to be repaired alone. `etm_disable` does not wait for the trace unit to drain. The
flush in `tmc_flush_and_stop` gets the remaining words only because the funnels
are still open. With an unlock added to `funnel_disable` (a mutant of the
project) the words in the trace unit miss the dump.

## Fairness

`TraceBuffer`: a processor goes on executing the call or the handler it is in,
and a page that was asked for arrives (weak fairness of `InCall`, `InHandler`).
The lock is granted to whoever keeps spinning (strong fairness of `ReadLock`,
`DumpLock`), because arm64 spinlocks are queued. Nothing forces a task to call
read or an interrupt to come. `buffer_concurrent` keeps readers off the interrupt's
processor, and on different processors; `buffer_self_deadlock` shows why the first is
needed, and two readers on one processor can hang as well (see above). `TracePath`: the processor executes the call, the hardware moves words
and finishes flushes and stops; the trace unit need not produce a word.
`TraceSystem`: the same of both, with the dump's steps and the register accesses
as one call that its processor executes. `CallsReturn` then says more than
`HandlerReturns` and `TracePath`'s `CallsReturn`: the interrupt comes to its end
although its dump waits for readers and its busy waits for the hardware.

## Proofs

TLAPS checks the theorems for every value of the constants; what they assume of
the constants is in the named assumption of each module and, where it is more, in
the theorem's `ASSUME`. Each component's safety rests on one inductive invariant,
`IInv`, which joins the properties to the facts that make them inductive.

### TraceBuffer

For every number of readers, processors and interrupts, every placement and every
size. `ConstantsAssumption` says that the sizes are natural numbers, the buffer is
not empty, and the special values differ from each other. The five added facts are

* `CountInv`: an interrupt dumps at most once, which bounds `dumps`;
* `FillInv`: while a dump stores, `write_point` plus what it may still store
  stays in the share of `FillBound`. `FillBound` alone is not inductive: a store
  could exceed it;
* `BytesInv`: `read_point` and `bytes_read` advance together, which turns a
  met cursor into a correct count;
* `RrdInv`: the word a dump holds is the last one the ETF delivered, which
  makes a store the next word of the log;
* `BufInv`: a reader's buffer holds the last word it has copied, which is what the log
  hands over.

| theorem | says |
|---|---|
| `TypeCorrect` | `Spec => []TypeOK` |
| `LockExcludes` | `Spec => []LockInv` |
| `CursorsMeet` | `Spec => []CursorInv`, from `LockInv`: only the holder of the lock moves anything |
| `DumpsAreWhole` | `Spec => []WholeDumps` |
| `FillIsBounded` | `Spec => []FillBound` |
| `ResetIsSafe` | `Spec => ResetLosesNothing` |
| `BufferIsLog` | `Spec => ImplementsLog` |

`BufferIsLog` assumes nothing of the sizes: `TraceLog` has as many places as the buffer, so
that what is stored past its end is counted there and not kept. The refinement proof takes one step of the readers or of the handler at a
time and names the step of the log it is: `ReadReset` is `Take`, `ReadReturn` is
`Return`, `DumpWord` is `StoreWord`, `DumpEnd` is `StoreEnd`, and the rest
stutter.

### TracePath

For both platforms, every capacity of trace unit and TMCs (`PathAssumption`: not
zero), and software locks that gate writes or do not. The invariant is a proof
outline of the calls. `JunoInit(n)`, `JunoStop(n)`, `JunoContinue(n)`, `HikeyInit(n)`
and `HikeyStop(n)` say what state every unit is in when n of the call's accesses are
made, and `IInv` says that some call with n accesses made is what `todo` has left, and that
its annotation holds. Every property is read off the annotations at the places where
it matters. None of them is inductive alone: that the funnels are open when the trace
unit is enabled is known only from the accesses before.

An annotation is not written once per access. A call is a sequence of functions,
each a block of accesses to one unit, and the annotation is a conjunction of one
predicate per block (`TmcOn`, `SinkOff`, `FunnelOn`, `EtmOff`, ...) applied to the
number of the block's accesses made (`Done`). `TracePathCalls` shows, in this order,
that each call is its blocks one after the other; that an access has the effect its
name promises (`AccessFacts`) and leads each predicate from k to k + 1 (`TmcOnStep`
and the like); that the hardware keeps each predicate whatever it does (`TmcOnHardware`
and the like); and from these, that the calls' annotations are kept. The
predicates that took thought are those of the flush:

* `TmcOff` lets a TMC be flushing, stopping or ready from `flushman` on, and ready from
  `wait_ready` on. The annotation has to survive the hardware finishing at any moment.
* `Flushed`: that the trace unit is empty becomes true in the middle of a
  call, when the flush ends, and not by any access. It ends only when every
  connected store upstream is empty (`FlushEnds`), the funnels pass words on, since `FunnelOff`
  says that the write that should close them was ignored, and the trace unit emits no
  more. On HiKey the first link's flush empties the trace unit, and each link, since
  it becomes ready only when it holds nothing, empties itself before the next is flushed.
* `JunoStop(15)` and `HikeyStop(29)`, the end of `trace_exit`, also describe the state after power on, so
  that `trace_init` finds the same whether it is the first. They leave
  open what funnels and PMU are; `JunoStop(15)` after a pause adds that the trace
  unit is still configured (`PauseKeeps`), which `etm_continue` relies on.

| theorem | says |
|---|---|
| `Invariant` | `Spec => []IInv` |
| `TypeCorrect` | `Spec => []TypeOK` |
| `PathIsReady` | `Spec => []PathReady` |
| `PmuIsFirst` | `Spec => []PmuBeforeEtm` |
| `EnabledAfterCalls` | `Spec => []EnabledBetweenCalls` |
| `ReadsBeforeDisabling` | `Spec => ReadBeforeDisable` |
| `TraceIsComplete` | `LockGates` implies `Spec => []TraceComplete` |
| `ConfiguresQuietUnits` | `LockGates` implies `Spec => []QuietConfig` |

Only the last two need locks that gate. Without them `funnel_disable` closes the
funnels, and the words left in the trace unit stay there: at the read-out they are
missing, and at the next `trace_init` the unit is configured with words in it.

### TraceModule

For any finite set of tasks and any choice of kernel calls that may fail
(`LifeAssumption`). `RegisteredInv` and `MemoryInv` say what is registered, allocated and mapped in each state of a
module and at each step of its init or exit function, forced out meanwhile or not, and
`PcInv` to which module the step belongs; `DemoInv` says what `trace_init` has set up while
the interrupt can come. `CountedInv` is what makes the reference counts useful: unless references
were cleared by force, `refs` is the number of tasks that have the device open plus one
for `pmi_handler.ko`, so that a count of zero means that nobody is left. It is proved with the
cardinality lemmas `OpenCounts` and `CloseCounts`.

| theorem | says |
|---|---|
| `TypeCorrect` | `Spec => []TypeOK` |
| `BufferOutlivesUsers` | `Spec => []NoUseAfterFree` |
| `DumpFindsBuffer` | `Spec => []DumpHasBuffer` |
| `GoneIsUnregistered` | `Spec => []NothingRegistered` |
| `GoneIsFreed` | `Spec => []NoLeak` |

### CsDevice

For any set of tasks, any buffer and any number of writes. `IInv` says which calls run beside
each other (`Apart`), where the cursors are at each step of a call, between its load and its
store too (`CursorInv`), that what lies between the cursors are words in the order of their
writes as far as they had room (`ContentInv`), and which word a running call has in hand
(`WordInv`).

| theorem | says |
|---|---|
| `TypeCorrect` | `Spec => []TypeOK` |
| `DeviceIsQueue` | `Careful` implies `Spec => ImplementsQueue` |

`Careful` is a condition on the tasks, which nothing in the driver enforces; `fifo_overlap`
shows what happens without it. No condition is put on the number of words.
The refinement names the queue's step for every step of the driver: `Take` is the
store of `read_point`, `HandOver` the copy to the reader, `Put` the store of
`write_point`.

### Pmu

For any set of processors with the traced one among them, any event types,
any number of measurements and any width of the counter (`PmuAssumption`). `AccessInv` says which
processors are closed while `disable_cpu_counters` is on its way, those it has still to reach taken out,
and that the traced one is open and counts from the moment `enable_cpu_counters` has reached it (`Granted`);
`CallInv` says which calls can run beside which modules and programs; `MeasureInv` says that
counter 0 counts the type that is measured and is as many events ahead of the first reading as have happened. The score is a sum over the types,
and tlapm has no induction for operators, so `SumLemmas` proves what changes a sum (one
summand, or none) through the least size of a counterexample.

| theorem | says |
|---|---|
| `TypeCorrect` | `Spec => []TypeOK` |
| `RevokedEverywhere` | `Spec => []AccessRevoked` |
| `ProgramsMayCount` | `Spec => []AccessGranted` |
| `RemovalExports` | `Spec => []ExportedAlone` |
| `LibraryScores` | `Spec => ImplementsScore` |

### TraceSystem

For any readers, interrupts, words and capacities (`SystemAssumption`, which is the
components' assumptions and `MaxWords` a natural number). The proofs of the components are
instantiated (`PP`, `BP`), with locks that gate writes, as `TraceSystem` takes them. `PathStep` and
`BufferStep` show that a step of the system is a step of the path or leaves it alone, and a step of the
buffer or leaves it alone, but for `Insmod`, which comes with a new buffer
(`InsmodKeepsBuffer`). So both components' invariants hold in the system. What the
composition adds is

* `CallInv`: while the dump runs, the call stands at its dump; a call dumps once,
  and stops the trace unit only before that; `trace_init` does not dump;
* `EtfInv`: a dump leaves its loop only when it has read all that the sink held;
* `StaysDrained`: from the end of the dump until the trace unit is enabled again the path stays
  empty, although the hardware runs on;
* `ReadersGone`: nobody is in a read while `demo.ko` is not loaded;
* `EachWordOnce` itself, which is inductive with these. Its delicate step is `Move`: were a word
  to reach the sink while a dump reads it, the count would be off. `DumpFinds`, an
  annotation of the path's proof, says that the sink has stopped by then.

| theorem | says |
|---|---|
| `TypeCorrect` | `Spec => []TypeOK` |
| `SinkHasStopped` | `Spec => []SinkStopped` |
| `WordsAreCounted` | `Spec => []EachWordOnce` |
| `PathIsDrained` | `Spec => []PathDrained` |
| `BufferIsSafe` | `Spec => [](B!LockInv /\ B!CursorInv /\ B!WholeDumps /\ B!FillBound)` |
| `SystemDrivesPath` | `Spec => P!Spec`: what is proved of `TracePath` holds in the system |

`B!Spec` is not implemented: it has no new buffers. `EachWordOnce` ends where a dump has read a
word out of the sink: a word that the dump stores past the end of the buffer, and the dump of
`trace_exit`, which is freed unread, count as read out.

### Only model-checked

The liveness properties (`ReadReturns`, `HandlerReturns`, `CallsReturn`, `ReadsReturn`),
which need fairness and `ENABLED`, out of this prover's reach. Every safety property
and refinement that a passing run checks is stated by a theorem.

## Plan

1. Done: all components, and the composition `TraceSystem`.
2. Done: the theorems above, which state every safety property and refinement of the
   components and of their composition.
3. Next, two results that are proved of one component and not yet of a composition: that the system's
   readers see the log of `TraceLog` between two `Insmod`s, and that the export bit, which `Pmu` and
   `TracePath` share, is set whenever the trace unit traces as long as no access module is loaded after `demo.ko`.

## Not modelled

Register addresses and constants of the boards (`register.h`, `etm.h`), values
written to configuration registers, kernel messages; `etm_status_show`,
`tmc_info_etf` and the registers the PMU modules read only to print them; the
functions nothing calls, `etm_enable_trace_instruction_and_data`,
`etm_accept_pmu_events`, `set_trace_exception_level`, `tmc_continue_etf_sink`,
`generate_flush`, `reset_tmc` and `check_tmc_staus`; the ARMv7 branches of
`enable_arm_pmu.c`, which neither board compiles; the sample programs and the
spectre-v4 workload under `pre-exec`, which are traced and measured by this system
but not part of it; build files and recorded traces. The ETM driver is `partly`
modelled for the functions named here.
