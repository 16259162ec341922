# TLA+ models of lamp-vm

lamp-vm is a virtual machine written in C (an interpreter of its own 32-bit
instruction set with several cores, devices that run in host threads) together
with the BIOS and the small kernel that it boots.  This directory holds TLA+
models of both, TLC configurations that check them on small instances, and
proofs for TLAPS.  `PROJECT.json` lists the components, runs, hazards and
theorems and gives, for every definition that models code, the lines it models.

## The system

| Part | State | Operations | Talks to |
|---|---|---|---|
| Process (`vm.c`, `loadbin.c`, `debug.c`) | allocated blocks, threads, breakpoints | load, create, run, join, destroy; the prompt | all of the machine |
| Cores (`vm.c`, `interrupt.c`, `stack.h`, `fetch.h`) | registers, flags, two stacks and an interrupt stack per core, pending bitmap, mask | fetch and execute, INT, IRET, IPI, STARTAP, OUT, IN | each other and all devices |
| Memory and MMIO (`memory.c`, `mmio.h`, `mmio.c`) | RAM, device ranges, the last device found, a lock | loads, stores, atomics, lookup | cores, disk worker |
| Disk (`io_devices/disk`) | registers, command, status, worker thread | command, tick, transfer, close | core 0, BIOS |
| Serial receiver (`io.c`, `vm.c`, `kernel/src/irq.c`) | ring, status, interrupt enable | enqueue (host thread), IN, drain (handler) | console |
| Timer and clocks (`io_devices/time`) | enable, period, deadline; latched clocks | guest writes, timer thread, latch and read | core 0 |
| BIOS (`bios/bios.c`) | buffer, `disk_done` | read headers, validate, read file, jump | disk |
| Scheduler (`kernel/src/sched.c`) | task table, wait queues, ticks | spawn, yield, exit, sleep, wait, waitpid, tick, run loops | console, system calls |
| Descriptors (`sched.c`) | `fdtab`, `ofiles` | open, close, dup, dup2, fcntl, exit | system calls |
| Console and tty (`kernel/src/console.c`) | line buffer, counters, mode | feed (handler), read, set mode | serial, scheduler |
| System calls (`kernel/src/syscall.c`) | locals of a call, the result mailbox, the realtime offset | the calls of a task | all of the kernel |
| Self-test (`kernel/src/fd_selftest.c`) | its descriptors, failures | calls, one after the other | system calls |
| Division (`kernel/src/compiler_rt_divmod.c`) | – | 64-bit quotient and remainder | clock calls |
| Display, system information, printk | pixels, constants, text | output | – |

What makes it hard: device threads that set interrupt bits while a core takes
one; handlers that interrupt kernel code that is not in a trap; tasks that are
plain C functions, so that a task that blocks runs the others from inside its
own activation; a worker thread with a condition variable; threads that must all
have ended before memory is freed, whichever step of creation failed; counters
that wrap.

## Modules

| Module | Models | One action is |
|---|---|---|
| `Sched` | the scheduler | one call of a scheduler function, one tick, one wakeup, one step of a run loop |
| `FdTable` | the reference-counted descriptor tables of a task, its exit and the reuse of its slot | one descriptor call, one close of the exit loop |
| `PosixFds` | what descriptors promise: shared descriptions, no counts | one call |
| `Syscalls` | the descriptor calls of `syscall_dispatch` over `FdTable`, and `fd_selftest_run` | one system call |
| `Poll` | `poll`, `select`, `waitpid` and `nanosleep` with the ticks, input, child and other tasks around them | one step between two points where an interrupt can come |
| `Clock` | the clock calls over the latched registers of the time device | one register read |
| `DivMod` | shift-and-subtract division, as operators | |
| `Console` | line editing, modes and `console_read` below `SYS_READ` | a whole `console_rx_feed`; each load and store of `console_read` |
| `Interrupts` | delivery of interrupts to cores | one atomic access of a core or device |
| `Mmio` | the device lookup and its cache, and the lock around devices | one load or store of the cache |
| `Disk` | the disk device and its worker | one critical section |
| `BiosDisk` | `Disk` composed with the BIOS that boots from it, then with any program | one statement of the BIOS that touches the device |
| `Serial` | the receive ring, the host thread and the kernel's handler | one critical section |
| `ByteQueue` | what the ring promises | put or get |
| `Timer` | the timer thread against a guest that programs it | one atomic access |
| `Flags` | flags and conditional jumps, as operators over words of any width | |
| `Cpu` | the instructions of a core | one instruction |
| `Host` | the process: loading, creation and its failures, threads, debugger, shutdown | one allocation, thread creation, join or free; one command at the prompt; one phase of core 0's loop |
| `SchedProofs`, `ConsoleProofs` | theorems about `Sched` and `Console` | |
| `SyscallProofs` | theorems about `FdTable` and its refinement of `PosixFds`, and lemmas on the table during the self-test | |
| `SelfTestProofs` | the theorem about `fd_selftest_run` in `Syscalls`, call by call | |
| `InterruptProofs` | theorems about `Interrupts` and, for the calls that wait for them, `Poll` | |
| `CpuProofs` | theorems about what the cores execute and share: `Cpu` and `Flags`, `Mmio`, `Timer` | |
| `DeviceProofs` | induction on the naturals; theorems about `DivMod`, `Clock`, `Disk` and `BiosDisk` | |
| `HostProofs` | theorems about `Host` and `Serial` | |
| `MC*` | instances for TLC | |

Names of variables and operations are those of the C code.  Definitions marked
`Fault` are plausible bugs; no specification uses them.  They show, when one is
put in the place of the definition it follows, that a property can fail.

How state maps to code, where it is not one to one:

- `Sched`: a task entry is called and returns, so the C stack of the kernel is
  the sequence `stack` of activations; `prev` is the local of
  `sched_pump_once`.  A wait queue is `bits` (its bitmap) and `waitq` (the
  pointer in each slot).  Queues are numbered: the `child_waitq` of a slot by its
  slot, the console's queue by `RxWaitq`.  `trap` is the depth of the activation
  that is in INT 0x80 (0: none): until it leaves, the core takes no tick and no
  input, also while it runs others inside the call.  A task that is entered again
  keeps its tid in the model.  Sleeping on the console's queue is one step, the
  test for input and the wait together.  `wrapped` and `wait_pid` are history.
- `Syscalls`: memory of the caller is valid or not; `abi` is RET and ERRNO of the
  mailbox.  The step `pc` of the self-test is one call and the test of its result.
- `Poll`: `ctx` says whether the call came through INT 0x80 ("trap"), where no
  interrupt is taken before IRET, or directly from a kernel task ("direct").
  `mailbox` is shared by all tasks; `own` is history.  The last test of a wait
  and the wait are one step, as in the trap; in the direct context a tick or input
  between the two is taken as before or after both.
- `Clock`: a 64-bit time has `Bits` bits and a register half of them; the call
  in progress is `call`.  The host's wall clock only goes on: nobody sets it while
  the machine runs, so the clamp to 0 of `syscall.c:334` is met at equality only.
  `began`, `at` and `base` are history.
- `Console`: several tasks read through SYS_READ (`Readers`), one at a time since
  the trap is not interrupted; those asleep are `g_rx_waitq`, and `woken` are those
  that were woken and have not read the end of a line yet (history).  The init task
  reads outside the trap.
- `Serial`: `isr` says whether core 0 is in the receive handler, in a system call
  or another handler ("trap"), or takes interrupts.
- `Interrupts`: the registers other than `ip` and `r31` are one value.  A vector
  is two halves, stored and loaded separately.  IN of the keyboard port acknowledges
  its interrupt; when the status bit is cleared is a matter of `Serial`.  A start of
  a core whose store of `ip` is lost to that core's own leaves the state as it was.
  `owed` and `interrupted` are history.
- `Mmio`: an access is a 32-bit read, write or atomic at an address, which looks
  for a device, or one of a byte or a 64-bit store, which does not
  (`memory.c`): these reach the frame buffer or RAM, or panic.  What an access ends
  in (a device, RAM, a panic) is `outcome`.  The values of registers are left out.
- `Disk`: a sector is one value and the count of sectors is part of `lba`.
- `Timer`: times are relative to now.  `ages` and `late` are history.
- `Cpu`: the program is any sequence of the instructions of a group.  A word has
  `Width` bits.  Signed overflow is undefined in C: both outcomes of the
  overflow test of an addition are in the model.  `meaning`, `called` and
  `pushed` are history.
- `Host`: `held` is the set of allocated blocks; every allocation, thread and file
  access may fail, also after some of the blocks of a step were allocated.  A run
  is one with a window or a self-test without one. `wanted` and `stopped` are
  history.

Where two models share a run (`MCHost`, `MCDevices`, `MCSyscalls`), each
behaviour is one of a single model, and the run covers each of them.

## Runs

All passing runs are exhaustive for their constants.

| Run | Configuration | Shows |
|---|---|---|
| `sched` | 2 tasks and idle, nesting depth 3, 3 tids, counter modulo 3 | bitmaps and pointers of wait queues agree; a wakeup reaches a waiter; a child's exit is not missed; one task RUNNING and current at each depth, and the selected task is still runnable when called; a tick wakes exactly the sleepers whose deadline it is; sleepers wake and runnable tasks run |
| `fd_table` | 3 descriptors, 1 special type | reference counts are exact, exit leaves nothing, and the table implements `PosixFds` |
| `interrupts` | 2 cores and 2 interrupts in a word, with masking, or 1 core and 3 interrupts in two words | no raised interrupt is lost or invented; service routines do not nest; entered routines were installed; IRET restores; the lowest interrupt is taken in the end; after a halt all threads can end (deadlock check) |
| `disk_boot` | 3 sectors (1 past the end), 2 addresses (1 invalid), commands 0 to 3 | no missed signal, no erased command; each read of the BIOS returns its own data; commands, shutdown and boot end |
| `host` | 2 cores, 3 addresses, 2 breakpoints; ring of 4, 2 bytes | everything is freed on every way out and nothing under a thread; breakpoints stop; a halt ends the process; the ring is a FIFO queue and each byte is read, if system calls return |
| `console` | 2 tasks that sleep, buffer of 4, chunk of 2, reads of 1 and 3 | counters are exact, a reader removes what it read, for each line that is there a task was woken or none sleeps |
| `devices` | 4-bit times; 2 cores, 3 devices, RAM, and an address past both; periods 0, 1 and 3, minimum 2, lag 4 | clocks are read whole, follow `clock_settime` and are split exactly into seconds and fractions by the division routine; no 32-bit access takes a register for memory, and one core alone always reaches the right device; no burst of timer interrupts, one late one at most, ticks continue |
| `syscalls` | counter modulo 5, timeouts -1 to 2; 4 descriptors, 3 calls before or between tests | no timeout early; a direct call with a timeout returns; each task reads its own result; the self-test passes and leaves no trace |
| `cpu` | words of 2 bits, 2 registers, stacks of 2 | jumps decide what was compared or computed; stacks hold what was pushed |
| `cpu_signed` | words of 2 bits | violated: see below |
| `blocking_calls` | as `syscalls`, in the trap | violated: see below |
| `boot_clock` | as `devices` | violated: see below |

Deadlock is checked in all runs but `host`, where the process ends.

Why the bounds are enough.  Three slots give a parent, a child and the idle task,
and one slot that is reused; depth 3 is the first at which an activation is
neither the outermost nor the innermost.  Counters wrap after a few ticks, so
deadlines across the wrap happen in most behaviours; `MaxTid` bounds the number of
spawned tasks only.  Three descriptors are needed for stdio, and with three
entries all ways to share a file occur; the self-test needs a fourth that is free,
and with `MaxCalls` calls of the shell it also finds none.  Two cores and two
interrupts make every race on a bitmap word, and two cores every race on the
device cache; three devices leave one that is in the cache, one that is looked up
and one that is neither.  A buffer of 4 wraps, fills up and holds a line of two
chunks; two readers are the fewest of which one sleeps while another was woken.
Two breakpoints and three addresses fill the list, with duplicates and one that
does not fit.  Two bits are the smallest words that have a positive and a least
number besides 0 and -1.  With times of four bits in registers of two, the low
word wraps while a clock is read, and the realtime clock can be set before and
after the host's and saturates.  `MaxLag` of `Poll` bounds the ticks that pass
while a call runs from one wait to the next (in the code, less than 2^32),
`MaxLag` of `Timer` how late the thread is, `Last` how far the host's clock goes,
`MaxEofs` a 32-bit count.

The types of the modules that have theorems are proved, as parts of the
inductive invariants, and are not in a run.

### Fairness

- `Sched`: the loops go on; entries return and so do system calls (strongly fair,
  since a task may block and resume in between).  The timer's interrupt stays pending
  while the core is in a trap, so it is taken if the core is outside of one again
  and again (strongly fair), and it hits running tasks again and again, since it
  is independent of them.  Nothing is assumed of a core that stays in a trap:
  `SleeperWakes` says `[]<>(trap = 0)` itself.
- `Interrupts`: core threads run; a compare-exchange that can succeed again and
  again does; service routines return.
- `Disk` and `BiosDisk`: core 0 executes, takes its interrupt and polls the disk
  after each instruction; the worker thread runs; `vm_destroy` goes on.
- `Serial`: core 0 executes the handler, and takes its interrupt if it is outside
  of handlers and system calls again and again (strongly fair).  System calls need
  not return (`poll` may wait in INT 0x80 for ever), so `InputIsDrained` has that
  as its premise.  The host need not type.
- `Timer`: the thread, the guest's three stores and time go on.
- `Poll`: the timer ticks when the core can take it, the call takes its steps,
  and a child that is run comes to its exit.
- `Host`: the main thread and those of the cores, the timer and the disk run, and
  a session at the debugger's prompt ends.  Without the last, core 0 waits for
  the user and so do the joins.

`NoStarvation` assumes that no task blocks in place: the nested loop of a
blocked task runs others only while that task waits, and gives no turns after.

## Proofs

Each theorem holds for every value of the constants that the named `ASSUME` of
the module admits; TLC evaluates those assumptions in the runs.  The constants
bound nothing but sizes (`SchedAssumption`: at least one slot, a quantum and a
counter; `FdAssumption`: at least 3 descriptors; `SerialAssumption` and
`ConsoleAssumption`: a ring or buffer of at least 2; `BitsAssumption`,
`HalfAssumption` and `WidthAssumption`: a word has a bit) except for these, which
the code guarantees:

- `MmioAssumption`: the ranges of devices do not overlap;
- `InterruptsAssumption`, `DiskAssumption`: the sets fit each other;
- `TimerAssumption`: the minimal period is positive;
- `HostAssumption`: core 0 exists, and the breakpoints given at the start are
  addresses;
- `ClockAssumption`: the host's clocks fit in a word (64 bits), and so does the
  largest `timespec` (2^31 seconds) and the units;
- `PollAssumption`: `tv_nsec` was tested to be less than a second;
- `SyscallsAssumption`: the types and modes that `open` and `socket` give to a file
  are among those of the table.

Every invariant, action property and refinement of the passing runs is a theorem.

`SchedProofs`, for every number of slots, quantum, width of the counter and depth:

- `TypeCorrect`: `TypeOK` is invariant, and inductive as it stands.
- `WaitQueuesLinked` (`WaitqLinked`) and `WaitQueuesCorrect`
  (`WakeupReachesWaiter`).  The two with the types are inductive together
  (`QueueInv`): detaching a slot clears its bit in the queue that its pointer
  names, which is the only bit it has by `WaitqLinked`.
- `DeadlinesKept` (`WokenOnTime`): a tick wakes the sleepers whose deadline it
  reaches, and no other.  `NothingOverdue`, that no deadline is behind the counter,
  is the invariant it needs: `try_wake_sleepers` tests that the counter is not less
  than the deadline, and with the invariant that is equality.
- `WaitpidCorrect`: `ChildExitNotMissed` and `TidsDistinct`.  `sched_exit_code`
  wakes the first slot that has the parent's tid, so the argument needs distinct
  tids, and the queue invariant for the bit of the parent (`ChildInv`).
- `NestingCorrect`: `NestingHolds`, from `NestInv`.  The link of each activation
  to the one below it makes the return of a nested activation restore the right
  slot.

`SyscallProofs`, for every size of the tables of at least 3:

- `RefCountsCorrect`: counts are exact and exit leaves nothing.  `FdInv` adds
  that entries below the one exit is at are closed and that only open
  descriptors have FD_CLOEXEC.  The counting argument is `Redirect`: storing an
  entry changes the number of holders of a file by at most one.
- `FdTableRefinesPosix`: every step is a step of `PosixFds` or none.  From the
  exact counts follows that a free descriptor comes with a free file entry, so
  that EMFILE is returned for descriptors only.

`SelfTestProofs`, for every size of the tables of at least 3:

- `SelfTestCorrect` (`SelfTestHolds`): whatever the shell called before, the test
  reports no failure on a fresh table, and leaves any table as it found it, also
  when it ends early.  `Stage` gives the table at each of the 31 calls in terms of
  the table when the test began: with a duplicate of stdin (`Duplicated`, with or
  without FD_CLOEXEC and O_NONBLOCK), with the duplicate closed and O_NONBLOCK left
  on stdin (`FlagLeft`), with one device or socket open (`Opened`), or the same.
  `TestInv` adds that the table at the beginning was that of a living task
  (`Sound0`, which needs `FdInv`) and that unused file entries are clear
  (`FilesInv`): only so does closing what was opened restore the entry.  The calls
  that only look need one lemma for all of them (`LookingStep`).

`ConsoleProofs`, for every size of the buffer and of a chunk, from `ConsoleInv`:

- `CountersCorrect` (`CountersExact`), for readers in the trap.  The counts are
  the cardinalities of the sets of lines and marks between `tail` and `head`;
  `Gone` is the one that `console_read` has counted off and not yet removed.
- `NoLostWakeup` (`WakeupPerLine`), for any number of readers, from `WakeInv`: each
  line that comes wakes a task if one sleeps, and a task that was woken gives that up
  only with the end of a line, which takes a line off the count.  A task goes to
  sleep only when there is nothing to read.
- `EditingTakesNothingRead` (`TakesWhatItRead`), in canonical mode, also for
  readers outside the trap, where a counter can be too small.  `CanonicalInv` says
  that it is never too large; so a read that begins has a line or a mark in the
  buffer, and editing stops at the last of them.

`InterruptProofs`, for every number of cores, interrupts and words of the bitmap:

- `NothingIsLost` (`NoLostInterrupt`): the word that a core loaded may be stale,
  but the compare-exchange takes exactly one bit off the word as it is.
- `RoutinesDoNotNest` (`NoNesting`), from `ScanInv` (between the test of
  `in_interrupt` and the entry the core is not in a routine) and `FrameInv` (the
  interrupt stack is empty or holds what was interrupted).
- `IretResumes` (`ResumesInterrupted`), from `FrameInv`.
- `EntryIsInstalled` (`EntersIsr`), from `VectorInv`: the low half of a vector is
  stored first, and core 0, which alone stores vectors, uses what it loaded before
  it stores another.  It is a theorem about core 0; see below for the others.

and for every length of a tick, width of the counter, time and set of descriptors:

- `ResultsAreOwn` (`OwnResult`), from `MailboxInv`: other tasks overwrite the
  mailbox while a call waits, but never between its result and the read of it.
- `TimeoutsAreNotEarly` (`NotEarly`), from `PollInv`.  `ElapsedInv` says that a
  call measures the ticks that have passed, as a difference modulo the counter,
  until it comes round; `NapInv` that the ticks that have passed of a `nanosleep`
  and those until its deadline are enough together.  The lemmas before it say that
  the quotients round up and saturate.
- `DeadlinesAreInTime` (`DueInTime`), the other side of it: the deadline of a parked
  `poll` or `select` is its start plus its timeout modulo the counter, plus at most
  the ticks between its look at the clock and its wait.  `DueInv` says so of the
  rest it has computed, from that look on.

`CpuProofs`, for words of every width, any registers and sizes of the stacks:

- `ComparisonsCorrect` (`CompareDecides`) and `ResultsCorrect` (`ResultDecides`):
  a lemma for each way to compute flags says what each jump decides after it
  (`DecidedBy`); one induction carries it to any later jump, since only these
  instructions write flags.
- `StacksCorrect` (`StacksHold`), from `MachineInv`: both stack pointers stay in
  the stacks' ranges, which `vm_create` lays out apart, and what is below them is
  what was pushed.

and for any cores, devices and periods:

- `RegistersAreNotMissed` (`DeviceNotMissed`): the lookup of a 32-bit access or
  an atomic gives no device only from the end of a whole scan, which does not use
  the cache (`LookInv`).
- `OneCoreIsExact` (`ExactAlone`): until another core is started, the cached range
  is that of the cached device whenever the cache is tested (`AloneInv`).
- `TimerCorrect` (`TicksBounded`), for any lateness of the thread: `AgesInv` says that
  a deadline is not before the last interrupt and a minimal period after the one
  before, except between an interrupt and the store of the next deadline.
- `TimerStaysOn` (`StaysOn`), for a guest that never writes 0 (`NeverOff`, the
  assumption of `TicksContinue`): a period is stored before the thread can see the
  timer on, so the thread never finds none and switches it off (`OnInv`).

`DeviceProofs`:

- `DivisionCorrect`: `DivisionExact`, for words of every width, which TLC reaches
  only through the times of the clock calls: the first loop
  ends with a shift at which the shifted divisor is past half of the dividend, and
  does not overflow; the second keeps quotient and remainder those of the division
  by the divisor as far as it is still shifted (`Divides`), by induction over its
  turns.
- `MonotonicCorrect` (`MonotonicIsWhole`) and `RealtimeCorrect`
  (`RealtimeFollowsSet`), for every time, clock and time set, from `ClockInv`: the
  two words of a time belong to the moment at which the low one was read, and sign
  and magnitude are the distance that was set last.
- `ConversionsCorrect` (`TimeIsSplit`), from `DivisionCorrect` and `ClockInv`: the
  time is a word, so what the calls return makes it up.
- `SignalsAreNotMissed` (`NoMissedSignal`) and `CommandsAreServed`
  (`CommandNotErased`), for any sectors, addresses, data and program.  `DiskInv` adds
  that a command is in `current_cmd` from its acceptance until the worker is done,
  and that `op_complete` keeps the disk busy from then on.
- `DiskHasWork` (`DiskProceeds`): an open disk with a command in progress has its
  answer ready or its worker awake, and `disk_close` joins a worker that was told to
  end and does not wait; with `CloseInv`, which ties `thread_running` to the close.
- `BiosReadsCorrect` (`ReadsItsOwn`): `BiosInv` divides the loop that waits for
  `disk_done` into four stages (the transfer, its end, the interrupt, the flag),
  and each step of the device stays in a stage or moves to the next.
- `BootHasAnswer` (`BootProceeds`), from `BiosInv` and `CloseInv`: in each stage
  somebody has the next step to take.

`HostProofs`:

- `MemoryCorrect` (`MemoryIsHeld`), for any number of cores: `HeldInv` gives the
  blocks that are held at each place of the main thread (`MachineAt`), and
  `ThreadInv` the threads that can live there.
- `JoinsCorrect` (`JoinsEnd`): at each `pthread_join` the thread was started and told
  to end (`EndInv`).
- `BreakpointsCorrect` (`BreakpointStops`), for any list at the start and any size
  of the table: what `b` and `d` leave in the list is what was asked for, without
  duplicates, and core 0 passes the test of an address in it only with a stop
  (`DebugInv`).  That parsing the list at the start adds each of its addresses goes
  by induction over it.
- `RingImplementsQueue` (`ImplementsByteQueue`), for any size of the ring, by the
  mapping of the ring from `tail` to `head` to a sequence.  `RingInv` says that the
  status bit is right and that the handler reads only from a ring that is not empty.
- `InputHasInterrupt` (`InputIsNoticed`), from `RingInv`: a byte that came after the
  interrupt was enabled has an interrupt pending or a handler that still reads.

Induction over data.  The library's induction theorems take an operator, which
these provers cannot instantiate.  `DeviceProofs` states them about sets and
functions instead: `Induction` (a set of naturals with 0 and every successor is
all of them), `LeastNat`, and `Recursion` (for a start and a function of steps
there is a function on the naturals that follows them), from which a recursive
function definition equals its body.

Model-checked only:

- liveness, and what needs `ENABLED` (`TasksProceed`, `LowestIsTaken`, `DiskEnds`,
  `BootEnds`, `ExitFollowsHalt`, `InputIsDrained`, `TicksContinue`,
  `DirectReturns`): the provers at hand do neither.  For six of them a theorem gives
  the safety part, that the one who waits does not wait in vain: `DiskHasWork`,
  `BootHasAnswer`, `JoinsCorrect`, `InputHasInterrupt`, `TimerStaysOn` and
  `DeadlinesAreInTime`.  What is left to TLC is that fair steps get there.

## Where code and documents disagree

Checked by a run:

- `cpu_signed`: signed jumps are wrong when the difference overflows.  They
  compare the masked bits 0x10 (SF) and 0x20 (OF) as numbers, so "SF == OF" fails
  when both are set, and `update_sub_flags` does not set OF for 0 minus the least
  number.  `docs/isa.md:515`: "Signed comparison semantics are used."
- `blocking_calls`: a `poll` or `select` through INT 0x80 that has to wait never
  returns, since the core takes no interrupt before IRET and no tick or input
  comes; `waitpid` does not park at all but tries again at once
  (`syscall.c:519-522`).  `docs/kernel.md:117`: "return only when
  ready/child-exit/timeout".
- `boot_clock`: the time device is registered without its last register
  (`time_mmio_register.c:78`), and the high word of the boot clock is read from
  RAM.  `README.md:121` gives the range of the device to 0x00201B.

Met while modelling, and in the models without a run of their own:

- Two cores that look up devices overwrite the three unlocked words of the cache
  one by one (`mmio.h:19-21`), and an access can go to another device than its address
  belongs to.  `README.md:71`: "Shared VM state is serialized by a global VM
  lock."  `ExactAlone` is about one core for this reason.
- Outside the trap, `g_rx_lines--` of `console_read` can lose a line that the
  handler counts between its load and its store (`console.c:206`).
- With two cores, a vector that is being installed can be loaded half old, half
  new (`interrupt.c:37`, `memory.c:99`), and the core jumps to 0xFFFFFFFF.
- A kernel task that blocked in place can be entered again from the top by a
  nested loop (`sched.c:850`), against `docs/kernel.md:64`.
- A deadline that comes out as 0 is none (`sched.c:352`, `sched.c:531`), and one
  that wraps around is less than the counter: its task is woken at the next tick
  (`sched.c:361`).  `WokenOnTime` is about the others.
- A line wakes one reader.  When that one asks for less than the line, the rest is
  there while another reader sleeps on; nothing wakes it.
- Loads and stores of bytes and 64-bit stores do not look for a device
  (`memory.c`): at a register they reach RAM or panic.  `DeviceNotMissed` is
  about the others.
- `waitpid` called directly by a kernel task spins in the same way as in the
  trap, against `docs/posix.md:102`; and a child is gone once it is reaped even
  when its status cannot be written (EFAULT).
- Bytes typed before `irq_input_init` leave the ring non-empty, and later ones
  raise no interrupt.
- SYS_READ of a blocking caller returns EAGAIN when it would have to wait.
- An end-of-file mark read in raw mode stays counted.
- A timer that the guest turns off and on can be left off by the thread.
- Disk errors are reported as success.
- SAR shifts in zeros, since registers are unsigned; `docs/isa.md:225` has
  `(int32)rs1 >> sh`.  LOAD leaves CF and OF (`vm.c:213`),
  which `docs/isa.md:95-127` has it clear; `ResultDecides` leaves out jumps on them
  after a LOAD.
- The debugger tests the address before the interrupt is taken, so a breakpoint at
  the first instruction of a handler is passed; `q` lets core 0 execute one more
  instruction; `b` reports a breakpoint that a full list did not take.  While core 0
  is at the prompt, a shutdown waits for the user.
- The error paths of `vm_create` free all memory but do not destroy `shared_lock`.
- The latched clocks are shared by all readers: a second core that reads the low
  word between the two reads of the first changes its high word.  The kernel
  reads them on one core.
- The quotient of the least number by -1 is no signed word (`__divdi3`).

## Not modelled

- Pixels, SDL and the frame buffer console, system information, printk and kernel
  panic text: output and constants that no other state depends on.
- `spinlock.c`, which nothing calls, `smp.c`, whose functions are empty, and
  `disk_read` and `disk_write`, which nothing uses.
- Values of floats (their order is modelled), MEMSET and MEMCPY: bulk data.
- The bytes of a word in RAM that two cores access at once, and the parsing of
  images and the layout of ELF segments: each part succeeds or fails.
- The text of the shell's other commands, and the console's echo.
- The scheduler, console and interrupts as one model: `Sched` and `Console` take a
  handler as a step that can come where interrupts are enabled, and `Interrupts`
  shows when it comes; their product is beyond TLC.
