-------------------------------- MODULE Host --------------------------------
(***************************************************************************)
(* The process around the machine (vm.c): loading the image, vm_create with *)
(* its failures, the threads of the cores, the timer and the disk, the end  *)
(* of a run and vm_destroy; and the debugger of core 0 (debug.c), which     *)
(* stops that thread at breakpoints.  A run is one with a window, from      *)
(* main, or a self-test without one.                                        *)
(***************************************************************************)
EXTENDS Integers, SequencesExt

CONSTANTS
  HostCores,   \* 0 .. smp_cores - 1
  Addrs,       \* instruction addresses
  Handler,     \* the one that the taken interrupts lead to
  MaxBreaks,   \* VM_DEBUG_MAX_BREAKPOINTS
  EnvBreaks    \* lists of addresses given in VM_BREAKPOINTS

ASSUME HostAssumption ==
  /\ HostCores \subseteq Int /\ 0 \in HostCores
  /\ MaxBreaks \in Nat /\ EnvBreaks \subseteq Seq(Addrs)

VARIABLES
  windowed,    \* a run from main, not a self-test
  main,        \* where the main thread is
  held,        \* what is allocated
  args,        \* the CpuThreadArgs that are allocated
  core,        \* the threads of the cores
  timer_thread, disk_thread,  \* "none", "runs" or "ended"
  timer_run, disk_run,        \* timer_thread_running and disk.thread_running
  vm_halted,
  ip,          \* of core 0
  breakpoints, step_mode, pause_on_start,
  wanted,      \* history: the breakpoints that were set and not deleted
  stopped      \* history: core 0 was at the prompt, or took an interrupt,
               \* since its last instruction

process == <<windowed, main, held, args>>
threads == <<core, timer_thread, disk_thread, timer_run, disk_run>>
debug == <<ip, breakpoints, step_mode, pause_on_start, wanted, stopped>>
host == <<process, threads, vm_halted, debug>>

----------------------------------------------------------------------------
(* Breakpoints. *)

\* add_breakpoint
Added(list, a) ==
  IF a \in ToSet(list) \/ Len(list) >= MaxBreaks THEN list ELSE Append(list, a)

\* Fault: the last entry goes, whichever was asked for.
RemovedLast(list, a) == IF a \in ToSet(list) THEN Front(list) ELSE list

\* remove_breakpoint: the last entry moves to the place of the removed one
Removed(list, a) ==
  IF a \notin ToSet(list) THEN list ELSE
  LET i == CHOOSE i \in DOMAIN list : list[i] = a
  IN  Front([list EXCEPT ![i] = Last(list)])

\* load_breakpoints_from_env: the list after each of the addresses
FromEnv(env) ==
  LET list[i \in 0 .. Len(env)] == IF i = 0 THEN <<>> ELSE Added(list[i - 1], env[i])
  IN  list[Len(env)]

----------------------------------------------------------------------------
HostInit ==
  /\ windowed \in BOOLEAN
  /\ main = IF windowed THEN "header" ELSE "vm"
  /\ held = {} /\ args = {}
  /\ core = [c \in HostCores |-> "none"]
  /\ timer_thread = "none" /\ disk_thread = "none"
  /\ timer_run = FALSE /\ disk_run = FALSE
  /\ vm_halted = FALSE
  /\ ip = CHOOSE a \in Addrs : a # Handler
  /\ step_mode \in {0, 1} /\ pause_on_start \in {0, 1}
  /\ \E env \in EnvBreaks : breakpoints = FromEnv(env)
  /\ wanted = ToSet(breakpoints)
  /\ stopped = FALSE

Goto(next) == main' = next /\ UNCHANGED <<windowed, args>>

\* panic: exit(1), with everything
Panic ==
  /\ Goto("panic")
  /\ UNCHANGED <<held, threads, vm_halted, debug>>

----------------------------------------------------------------------------
(* load_program_single, then vm_create. *)

\* An image without text, or without data, gives no block.
LoadHeader ==
  /\ main = "header"
  /\ Goto("text") \/ Goto("done")
  /\ UNCHANGED <<held, threads, vm_halted, debug>>
LoadText ==
  /\ main = "text"
  /\ \/ Goto("data") /\ held' \in {held, held \cup {"program"}}
     \/ Goto("done") /\ UNCHANGED held
  /\ UNCHANGED <<threads, vm_halted, debug>>
LoadData ==
  /\ main = "data"
  /\ \/ Goto("vm") /\ held' \in {held, held \cup {"data"}}
     \/ Goto("done") /\ held' = held \ {"program"}
  /\ UNCHANGED <<threads, vm_halted, debug>>

\* The blocks of vm_create, in order, and what it frees when one cannot be had
Blocks == <<"vm", "cpus", "released", "bitmap", "memory", "fbs", "rows">>
Before == [vm |-> {}, cpus |-> {"vm"}, released |-> {"cpus", "vm"},
           bitmap |-> {"released", "cpus", "vm"},
           memory |-> {"bitmap", "released", "cpus", "vm"},
           fbs |-> {"front", "fb", "memory", "bitmap", "released", "cpus", "vm"},
           rows |-> {"front", "fb", "memory", "bitmap", "released", "cpus", "vm"}]

\* Fault: the memory is forgotten when there is no frame buffer.
FreedForgets(b) == IF b = "fbs" THEN Before.memory ELSE Before[b]
Freed(b) == Before[b]

\* The two frame buffers are tested together, and one of them can be there when
\* the other is not; of the row locks, those that were made are destroyed before
\* the return.
Got(b) == IF b = "fbs" THEN {"fb", "front"} ELSE {b}
Alloc(k) ==
  /\ main = Blocks[k]
  /\ \/ /\ held' = held \cup Got(Blocks[k])
        /\ Goto(IF k < Len(Blocks) THEN Blocks[k + 1] ELSE "timer")
     \/ /\ \E part \in SUBSET Got(Blocks[k]) :
             part # Got(Blocks[k]) /\ held' = (held \cup part) \ Freed(Blocks[k])
        /\ Goto(IF windowed THEN "free" ELSE "done")
  /\ UNCHANGED <<threads, vm_halted, debug>>

\* register_time_mmio starts the timer thread
StartTimer ==
  /\ main = "timer"
  /\ \/ /\ Goto("layout")
        /\ timer_thread' = "runs" /\ timer_run' = TRUE
        /\ UNCHANGED <<held, core, disk_thread, disk_run, vm_halted, debug>>
     \/ Panic

\* The image has to fit, and the debugger is made.
Layout ==
  /\ main = "layout"
  /\ \/ /\ Goto("disk")
        /\ held' = held \cup {"debug"}
        /\ UNCHANGED <<threads, vm_halted, debug>>
     \/ Panic

\* disk_init
StartDisk ==
  /\ main = "disk"
  /\ \/ /\ Goto("ids")
        /\ disk_thread' = "runs" /\ disk_run' = TRUE
        /\ UNCHANGED <<held, core, timer_thread, timer_run, vm_halted, debug>>
     \/ Panic

----------------------------------------------------------------------------
(* vm_run and vm_run_headless. *)

\* No memory for the list of threads: a panic in both
Ids ==
  /\ main = "ids"
  /\ \/ Goto("spawn") /\ held' = held \cup {"ids"} /\ UNCHANGED <<threads, vm_halted, debug>>
     \/ Panic

NotMade == {c \in HostCores : core[c] = "none"}

SpawnCore ==
  /\ main = "spawn"
  /\ \E c \in NotMade :
       /\ \A d \in NotMade : c <= d
       /\ \/ /\ core' = [core EXCEPT ![c] = "start"]
             /\ args' = args \cup {c}
             /\ main' = IF NotMade = {c} THEN "wait" ELSE "spawn"
             /\ UNCHANGED <<windowed, held, timer_thread, disk_thread, timer_run, disk_run,
                            vm_halted, debug>>
          \/ windowed /\ Panic
          \/ /\ ~windowed
             /\ vm_halted' = TRUE
             /\ Goto("join")
             /\ UNCHANGED <<held, threads, debug>>

\* display_loop until the machine has halted, or the loop of the self-tests
Wait ==
  /\ main = "wait" /\ vm_halted
  /\ Goto("join")
  /\ UNCHANGED <<held, threads, vm_halted, debug>>

\* SDL_QUIT in the window, or the time limit of a self-test
Quit ==
  /\ main = "wait"
  /\ vm_halted' = TRUE
  /\ UNCHANGED <<process, threads, debug>>

\* pthread_join of those that were made, and the list is freed
Join ==
  /\ main = "join"
  /\ \A c \in HostCores : core[c] \in {"none", "ended"}
  /\ Goto("stop_timer")
  /\ held' = held \ {"ids"}
  /\ UNCHANGED <<threads, vm_halted, debug>>

----------------------------------------------------------------------------
(* vm_destroy. *)

StopTimer ==
  /\ main = "stop_timer"
  /\ timer_run' = FALSE
  /\ Goto("join_timer")
  /\ UNCHANGED <<held, core, timer_thread, disk_thread, disk_run, vm_halted, debug>>

\* ... and vm_debug_destroy behind it
JoinTimer ==
  /\ main = "join_timer" /\ timer_thread = "ended"
  /\ held' = held \ {"debug"}
  /\ Goto("stop_disk")
  /\ UNCHANGED <<threads, vm_halted, debug>>

\* Fault: the worker is not told.
StopDiskNot ==
  /\ main = "stop_disk"
  /\ Goto("join_disk")
  /\ UNCHANGED <<held, threads, vm_halted, debug>>

\* disk_close
StopDisk ==
  /\ main = "stop_disk"
  /\ disk_run' = FALSE
  /\ Goto("join_disk")
  /\ UNCHANGED <<held, core, timer_thread, disk_thread, timer_run, vm_halted, debug>>

\* ... its join, the locks and the blocks
JoinDisk ==
  /\ main = "join_disk" /\ disk_thread = "ended"
  /\ held' = held \ {"rows", "bitmap", "released", "cpus", "memory", "fb", "front", "vm"}
  /\ Goto(IF windowed THEN "free" ELSE "done")
  /\ UNCHANGED <<threads, vm_halted, debug>>

\* main frees what it loaded
FreeImage ==
  /\ main = "free"
  /\ held' = held \ {"program", "data"}
  /\ Goto("done")
  /\ UNCHANGED <<threads, vm_halted, debug>>

Main ==
  \/ LoadHeader \/ LoadText \/ LoadData
  \/ \E k \in DOMAIN Blocks : Alloc(k)
  \/ StartTimer \/ Layout \/ StartDisk \/ Ids \/ SpawnCore \/ Wait \/ Join
  \/ StopTimer \/ JoinTimer \/ StopDisk \/ JoinDisk \/ FreeImage

----------------------------------------------------------------------------
(* The other threads: they run until the process ends. *)

Up == main \notin {"panic", "done"}
At(c, pc) == Up /\ core[c] = pc
Move(c, pc) ==
  /\ core' = [core EXCEPT ![c] = pc]
  /\ UNCHANGED <<timer_thread, disk_thread, timer_run, disk_run>>

\* vm_thread begins and frees its argument
ThreadStart(c) ==
  /\ At(c, "start") /\ Move(c, "loop")
  /\ args' = args \ {c}
  /\ UNCHANGED <<windowed, main, held, vm_halted, debug>>

\* The test at the head of the loop
ThreadEnd(c) ==
  /\ At(c, "loop") /\ vm_halted /\ Move(c, "ended")
  /\ UNCHANGED <<process, vm_halted, debug>>

\* vm_debug_pause_if_needed, on core 0
Pauses == pause_on_start = 1 \/ step_mode = 1 \/ ip \in ToSet(breakpoints)
DebugTest ==
  /\ At(0, "loop") /\ ~vm_halted
  /\ Move(0, IF Pauses THEN "prompt" ELSE "interrupts")
  /\ pause_on_start' = 0
  /\ stopped' = Pauses
  /\ UNCHANGED <<process, vm_halted, ip, breakpoints, step_mode, wanted>>

\* interactive_wait: the commands that change the list of breakpoints
Break(a) ==
  /\ At(0, "prompt")
  /\ breakpoints' = Added(breakpoints, a)
  /\ wanted' = IF Cardinality(wanted) < MaxBreaks THEN wanted \cup {a} ELSE wanted
  /\ UNCHANGED <<process, threads, vm_halted, ip, step_mode, pause_on_start, stopped>>
Delete(a) ==
  /\ At(0, "prompt")
  /\ breakpoints' = Removed(breakpoints, a)
  /\ wanted' = wanted \ {a}
  /\ UNCHANGED <<process, threads, vm_halted, ip, step_mode, pause_on_start, stopped>>

\* ... and those that leave it: step, continue, the end of its input, quit
Leave ==
  /\ At(0, "prompt") /\ Move(0, "interrupts")
  /\ \/ step_mode' \in {0, 1} /\ UNCHANGED vm_halted
     \/ vm_halted' = TRUE /\ UNCHANGED step_mode
  /\ UNCHANGED <<process, ip, breakpoints, pause_on_start, wanted, stopped>>

\* vm_handle_interrupts: none, or one whose handler the core goes to
Interrupts ==
  /\ At(0, "interrupts") /\ Move(0, "execute")
  /\ \/ UNCHANGED <<ip, stopped>>
     \/ ip' = Handler /\ stopped' = TRUE
  /\ UNCHANGED <<process, vm_halted, breakpoints, step_mode, pause_on_start, wanted>>

\* vm_instruction_case, HALT among the instructions
Execute ==
  /\ At(0, "execute") /\ Move(0, "loop")
  /\ ip' \in Addrs
  /\ vm_halted' \in {vm_halted, TRUE}
  /\ stopped' = FALSE
  /\ UNCHANGED <<process, breakpoints, step_mode, pause_on_start, wanted>>

\* An instruction of any core can panic
Crash ==
  /\ Up
  /\ core[0] = "execute" \/ \E c \in HostCores \ {0} : core[c] = "loop"
  /\ Panic

\* timer_tick, and disk_worker (the wait for its condition is in Disk)
TimerEnds ==
  /\ Up /\ timer_thread = "runs" /\ (~timer_run \/ vm_halted)
  /\ timer_thread' = "ended"
  /\ UNCHANGED <<process, core, disk_thread, timer_run, disk_run, vm_halted, debug>>
DiskEnds ==
  /\ Up /\ disk_thread = "runs" /\ ~disk_run
  /\ disk_thread' = "ended"
  /\ UNCHANGED <<process, core, timer_thread, timer_run, disk_run, vm_halted, debug>>

Thread(c) == ThreadStart(c) \/ ThreadEnd(c)
Bsp == DebugTest \/ Interrupts \/ Execute

HostNext ==
  \/ Main \/ Quit \/ Bsp \/ Crash \/ Leave \/ TimerEnds \/ DiskEnds
  \/ \E c \in HostCores : Thread(c)
  \/ \E a \in Addrs : Break(a) \/ Delete(a)

HostSpec == HostInit /\ [][HostNext]_host

----------------------------------------------------------------------------
(* Correctness. *)

\* Everything that load_program_single, vm_create and vm_run allocated is
\* freed when the process returns from main or a self-test, whichever of the
\* allocations failed: the seven lists of vm_create's error paths are right.
NothingLeft == main = "done" => held = {} /\ args = {}

\* What each thread works with
AllBlocks == {"vm", "cpus", "released", "bitmap", "memory", "fb", "front", "rows"}
Lives(t) == t \notin {"none", "ended"}

\* No thread works with freed memory: vm_destroy frees a block only after
\* every thread that uses it has ended, in the order of its joins, also when
\* only some of the threads were made.
ThreadsWithin ==
  Up => /\ \A c \in HostCores : Lives(core[c]) => AllBlocks \cup {"debug"} \subseteq held
        /\ Lives(timer_thread) => {"vm", "bitmap"} \subseteq held
        /\ Lives(disk_thread) => {"vm", "bitmap", "memory"} \subseteq held

\* Memory is held as long as it is used and no longer.
MemoryIsHeld == NothingLeft /\ ThreadsWithin

\* Core 0 executes no instruction at a breakpoint without having been at the
\* prompt, through any sequence of b and d, duplicates and a full list.  (An
\* instruction that an interrupt leads to is the exception: the address is
\* tested before the interrupt is taken, and a breakpoint at the first
\* instruction of a handler is passed.)
BreakpointStops ==
  [][core[0] = "execute" /\ core'[0] = "loop" /\ ip \in wanted => stopped]_host

\* Once the machine has halted the process ends: no join of the cores, the
\* timer and the disk waits for ever.
ExitFollowsHalt == vm_halted ~> ~Up
=============================================================================
