------------------------------- MODULE Sched -------------------------------
(***************************************************************************)
(* The kernel's task scheduler (kernel/src/sched.c): the fixed task table, *)
(* sleeping with a deadline, wait queues, waitpid, the tick handler, and   *)
(* the two loops that run tasks: sched_run and, nested inside a task that  *)
(* blocks, sched_block_until_runnable / sched_pump_once.                   *)
(*                                                                         *)
(* A task is a C function that sched_run calls; the call returns before    *)
(* the next task is called.  A task that blocks calls the scheduler from   *)
(* inside its own activation, so activations form a stack.                 *)
(*                                                                         *)
(* One action is one call of a scheduler function.  The timer interrupt    *)
(* (Tick) and the serial interrupt (RxWake) come between any two of them,  *)
(* except in a system call: from INT 0x80 to IRET the virtual CPU takes no *)
(* interrupt, also while the call blocks and other tasks run inside it.    *)
(***************************************************************************)
EXTENDS Integers, Sequences

CONSTANTS
  MaxTasks,   \* SCHED_MAX_TASKS: slots of the task table, slot 0 is idle
  Quantum,    \* SCHED_QUANTUM_TICKS
  TickMod,    \* g_ticks and wake_tick are counted modulo TickMod (2^32)
  Durations,  \* tick counts passed to the sleeping functions
  MaxTid,     \* bound: tasks are spawned while g_next_tid <= MaxTid
  MaxDepth    \* bound: a task blocks in place below this nesting depth

ASSUME SchedAssumption ==
  /\ MaxTasks \in Nat \ {0}
  /\ Quantum \in Nat \ {0}
  /\ TickMod \in Nat \ {0, 1}
  /\ Durations \subseteq Nat
  /\ MaxTid \in Nat
  /\ MaxDepth \in Nat

VARIABLES
  state,          \* pub.state of each slot; UNUSED also stands for used = 0
  tid,            \* pub.tid
  parent_tid,     \* parent_tid, -1 for the idle task
  wake_tick,      \* pub.wake_tick, 0 for no deadline
  quantum_used,   \* quantum_used, counted up to Quantum
  waitq,          \* the queue the slot is linked to, or NoWaitq
  bits,           \* the bitmap of each wait queue, as a set of slots
  wrapped,        \* history: slots whose wake_tick overflowed 32 bits
  wait_pid,       \* pid argument of the waitpid call that parked the slot
  g_ticks,
  g_need_resched,
  g_current_idx,
  g_next_tid,
  run_pc,         \* where sched_run is
  stack,          \* activations of task entries, innermost last
  trap            \* the depth of the activation that is in INT 0x80, or 0

slotVars  == <<state, tid, parent_tid, wake_tick, quantum_used, waitq, bits,
               wrapped, wait_pid>>
globalVars == <<g_ticks, g_need_resched, g_current_idx, g_next_tid>>
vars == <<state, tid, parent_tid, wake_tick, quantum_used, waitq, bits,
          wrapped, wait_pid, g_ticks, g_need_resched,
          g_current_idx, g_next_tid, run_pc, stack, trap>>

Slots == 0 .. MaxTasks - 1
Tasks == 1 .. MaxTasks - 1          \* every slot but the idle one

(***************************************************************************)
(* The wait queues of the kernel: the child_waitq inside each slot, named  *)
(* by the slot's index, and the console's g_rx_waitq.                      *)
(***************************************************************************)
RxWaitq == MaxTasks
Waitqs  == 0 .. MaxTasks
NoWaitq == MaxTasks + 1

AnyChild == -1                      \* SCHED_WAITPID_ANY

States == {"UNUSED", "RUNNABLE", "RUNNING", "SLEEPING", "BLOCKED", "ZOMBIE"}
Waiting == {"SLEEPING", "BLOCKED"}

Used(s) == state[s] # "UNUSED"

----------------------------------------------------------------------------
(* Helpers of sched.c that only read the state. *)

Runnable(s) == s # 0 /\ state[s] = "RUNNABLE"

\* sched_pick_next_idx: the first runnable slot after g_current_idx, in
\* cyclic order and the current slot last; the idle slot if there is none.
IsPickNext(next) ==
  \/ /\ Runnable(next)
     /\ \E off \in 1 .. MaxTasks :
          /\ next = (g_current_idx + off) % MaxTasks
          /\ \A o \in 1 .. off - 1 : ~Runnable((g_current_idx + o) % MaxTasks)
  \/ /\ \A s \in Slots : ~Runnable(s)
     /\ next = 0

\* sched_alloc_slot: the lowest unused slot.
IsFreeSlot(s) ==
  /\ s \in Tasks
  /\ ~Used(s)
  /\ \A i \in 1 .. s - 1 : Used(i)

\* Fault: the search starts one slot late.
IsSlotOfLate(s, t) ==
  IF t = 0 THEN s = 0 ELSE s \in Tasks \ {1} /\ Used(s) /\ tid[s] = t

\* sched_find_by_tid
IsSlotOf(s, t) ==
  IF t = 0 THEN s = 0
  ELSE /\ s \in Tasks
       /\ Used(s)
       /\ tid[s] = t
       /\ \A i \in 1 .. s - 1 : ~(Used(i) /\ tid[i] = t)

\* sched_task_is_child_of, for the children of slot p
IsChildOf(s, p, pid) ==
  /\ s \in Tasks
  /\ Used(s)
  /\ parent_tid[s] = tid[p]
  /\ pid = AnyChild \/ tid[s] = pid

IsZombieOf(s, p, pid) == IsChildOf(s, p, pid) /\ state[s] = "ZOMBIE"

----------------------------------------------------------------------------
(* Parts of actions. *)

\* Fault: the bit is not cleared.
DetachedBitsKept(W) == bits

\* sched_detach_waitq on every slot of W: the bitmaps and the links.
DetachedBits(W) == [q \in Waitqs |-> bits[q] \ {s \in W : waitq[s] = q}]
DetachedWaitq(W) == [s \in Slots |-> IF s \in W THEN NoWaitq ELSE waitq[s]]

\* Fault: the woken task is not taken off its queue.
WakeStillQueued(W) ==
  /\ state' = [s \in Slots |-> IF s \in W THEN "RUNNABLE" ELSE state[s]]
  /\ wake_tick' = [s \in Slots |-> IF s \in W THEN 0 ELSE wake_tick[s]]
  /\ wrapped' = wrapped \ W
  /\ UNCHANGED <<waitq, bits, wait_pid>>

\* sched_wake_slot / the body of sched_try_wake_sleepers on every slot of W
Wake(W) ==
  /\ state' = [s \in Slots |-> IF s \in W THEN "RUNNABLE" ELSE state[s]]
  /\ wake_tick' = [s \in Slots |-> IF s \in W THEN 0 ELSE wake_tick[s]]
  /\ wrapped' = wrapped \ W
  /\ waitq' = DetachedWaitq(W)
  /\ bits' = DetachedBits(W)
  /\ wait_pid' = [s \in Slots |-> IF s \in W THEN AnyChild ELSE wait_pid[s]]

WokenQuantum(W) ==
  [s \in Slots |-> IF s \in W THEN 0 ELSE quantum_used[s]]

\* The slots that sched_wake_slot changes among the members of a queue
Wakeable(Q) == {s \in Q : s # 0 /\ state[s] \in Waiting}

\* The deadline of a sleep of d ticks: 32-bit addition
Deadline(d) == (g_ticks + d) % TickMod
Overflows(d) == g_ticks + d >= TickMod

\* The task whose activation is innermost executes: it is the one that calls
Top == stack[Len(stack)]
Executing == stack # <<>> /\ Top.pc = "run"

\* Callers of functions that return early for a missing or idle current slot
CallerIsTask ==
  /\ Executing
  /\ g_current_idx # 0
  /\ Used(g_current_idx)

\* Fault: the interrupted task is not saved.
ActivationUnsaved(s) == [idx |-> s, prev |-> 0, pc |-> "run"]

Activation(s) == [idx |-> s, prev |-> g_current_idx, pc |-> "run"]
TopAt(pc) == [stack EXCEPT ![Len(stack)].pc = pc]

----------------------------------------------------------------------------
Init ==
  /\ state = [s \in Slots |-> IF s = 0 THEN "RUNNABLE" ELSE "UNUSED"]
  /\ tid = [s \in Slots |-> 0]
  /\ parent_tid = [s \in Slots |-> IF s = 0 THEN -1 ELSE 0]
  /\ wake_tick = [s \in Slots |-> 0]
  /\ quantum_used = [s \in Slots |-> 0]
  /\ waitq = [s \in Slots |-> NoWaitq]
  /\ bits = [q \in Waitqs |-> {}]
  /\ wrapped = {}
  /\ wait_pid = [s \in Slots |-> AnyChild]
  /\ g_ticks = 0
  /\ g_need_resched = 0
  /\ g_current_idx = 0
  /\ g_next_tid = 1
  /\ run_pc = "boot"
  /\ stack = <<>>
  /\ trap = 0

\* sched_spawn, by whoever runs with the current slot.  The tids end at MaxTid:
\* the reset of g_next_tid after 2^31 of them is left out.
SpawnIn(s) ==
  /\ IsFreeSlot(s)
  /\ g_next_tid <= MaxTid
  /\ state' = [state EXCEPT ![s] = "RUNNABLE"]
  /\ tid' = [tid EXCEPT ![s] = g_next_tid]
  /\ parent_tid' = [parent_tid EXCEPT
                      ![s] = IF Used(g_current_idx) THEN tid[g_current_idx] ELSE 0]
  /\ wake_tick' = [wake_tick EXCEPT ![s] = 0]
  /\ quantum_used' = [quantum_used EXCEPT ![s] = 0]
  /\ waitq' = [waitq EXCEPT ![s] = NoWaitq]
  /\ bits' = [bits EXCEPT ![s] = {}]
  /\ g_next_tid' = g_next_tid + 1
  /\ g_need_resched' = 1
  /\ UNCHANGED <<wrapped, wait_pid, g_ticks, g_current_idx, stack, trap>>

\* kernel_entry: init_task_spawn between sched_init and sched_run
BootSpawn ==
  /\ run_pc = "boot"
  /\ \E s \in Tasks : SpawnIn(s)
  /\ run_pc' = "select"

Spawn ==
  /\ Executing
  /\ g_current_idx # 0
  /\ \E s \in Tasks : SpawnIn(s)
  /\ UNCHANGED run_pc

----------------------------------------------------------------------------
(* Calls made by the executing task. *)

\* sched_yield
Yield ==
  /\ CallerIsTask
  /\ state' = [state EXCEPT ![g_current_idx] =
                 IF @ = "RUNNING" THEN "RUNNABLE" ELSE @]
  /\ quantum_used' = [quantum_used EXCEPT ![g_current_idx] = 0]
  /\ g_need_resched' = 1
  /\ UNCHANGED <<tid, parent_tid, wake_tick, waitq, bits, wrapped, wait_pid,
                 g_ticks, g_current_idx, g_next_tid, run_pc, stack, trap>>

\* sched_exit_code: the slot becomes a zombie and its parent's waiters wake
Exit ==
  LET me == g_current_idx
      W  == UNION {Wakeable(bits[p]) : p \in {s \in Slots : IsSlotOf(s, parent_tid[me])}}
  IN
  /\ CallerIsTask
  /\ state' = [s \in Slots |-> IF s = me THEN "ZOMBIE"
                               ELSE IF s \in W THEN "RUNNABLE" ELSE state[s]]
  /\ wake_tick' = [s \in Slots |-> IF s \in W \cup {me} THEN 0 ELSE wake_tick[s]]
  /\ wrapped' = wrapped \ (W \cup {me})
  /\ quantum_used' = WokenQuantum(W \cup {me})
  /\ waitq' = DetachedWaitq(W \cup {me})
  /\ bits' = DetachedBits(W \cup {me})
  /\ wait_pid' = [s \in Slots |-> IF s \in W \cup {me} THEN AnyChild ELSE wait_pid[s]]
  /\ g_need_resched' = 1
  /\ UNCHANGED <<tid, parent_tid, g_ticks, g_current_idx, g_next_tid, run_pc, stack, trap>>

\* sched_sleep_ticks: the link to a wait queue, if there is one, is kept
SleepTicks(d) ==
  /\ CallerIsTask
  /\ wake_tick' = [wake_tick EXCEPT ![g_current_idx] = Deadline(IF d = 0 THEN 1 ELSE d)]
  /\ wrapped' = IF Overflows(IF d = 0 THEN 1 ELSE d)
                  THEN wrapped \cup {g_current_idx} ELSE wrapped \ {g_current_idx}
  /\ state' = [state EXCEPT ![g_current_idx] = "SLEEPING"]
  /\ quantum_used' = [quantum_used EXCEPT ![g_current_idx] = 0]
  /\ g_need_resched' = 1
  /\ UNCHANGED <<tid, parent_tid, waitq, bits, wait_pid,
                 g_ticks, g_current_idx, g_next_tid, run_pc, stack, trap>>

\* sched_waitq_sleep on queue q; pid is the caller's argument, if it has one
WaitqSleep(q, timeout, pid) ==
  LET me == g_current_idx IN
  /\ waitq' = [waitq EXCEPT ![me] = q]
  /\ bits' = [DetachedBits({me}) EXCEPT ![q] = @ \cup {me}]
  /\ state' = [state EXCEPT ![me] = "BLOCKED"]
  /\ wake_tick' = [wake_tick EXCEPT ![me] = IF timeout = 0 THEN 0 ELSE Deadline(timeout)]
  /\ wrapped' = IF timeout # 0 /\ Overflows(timeout)
                  THEN wrapped \cup {me} ELSE wrapped \ {me}
  /\ wait_pid' = [wait_pid EXCEPT ![me] = pid]
  /\ quantum_used' = [quantum_used EXCEPT ![me] = 0]
  /\ g_need_resched' = 1
  /\ UNCHANGED <<tid, parent_tid, g_ticks, g_current_idx, g_next_tid,
                 run_pc, stack, trap>>

\* A reader of the console parks on the receive queue, in one step with its
\* test of the queue: no interrupt comes between the two in a system call, and
\* no task of the kernel makes a blocking read without one
RxSleep(timeout) ==
  /\ CallerIsTask
  /\ WaitqSleep(RxWaitq, timeout, AnyChild)

\* sched_clear_task
ClearTask(z) ==
  /\ state' = [state EXCEPT ![z] = "UNUSED"]
  /\ tid' = [tid EXCEPT ![z] = 0]
  /\ parent_tid' = [parent_tid EXCEPT ![z] = 0]
  /\ wake_tick' = [wake_tick EXCEPT ![z] = 0]
  /\ quantum_used' = [quantum_used EXCEPT ![z] = 0]
  /\ waitq' = [waitq EXCEPT ![z] = NoWaitq]
  /\ bits' = [bits EXCEPT ![z] = {}]

\* sched_waitpid when a matching child is a zombie: the lowest slot is cleared
WaitpidReap(pid) ==
  /\ CallerIsTask
  /\ \E z \in Tasks :
       /\ IsZombieOf(z, g_current_idx, pid)
       /\ \A s \in 1 .. z - 1 : ~IsZombieOf(s, g_current_idx, pid)
       /\ ClearTask(z)
  /\ UNCHANGED <<wrapped, wait_pid, globalVars, run_pc, stack, trap>>

\* sched_waitpid without WNOHANG when no matching child has exited yet
WaitpidBlock(pid) ==
  /\ CallerIsTask
  /\ \E s \in Tasks : IsChildOf(s, g_current_idx, pid)
  /\ \A s \in Tasks : ~IsZombieOf(s, g_current_idx, pid)
  /\ WaitqSleep(g_current_idx, 0, pid)

----------------------------------------------------------------------------
(* The loops that run tasks. *)

\* sched_run: keep the current task or select the next one
RunSelect ==
  /\ run_pc = "select"
  /\ IF g_need_resched = 1 \/ ~Runnable(g_current_idx)
       THEN /\ g_need_resched' = 0
            /\ \E next \in Slots : IsPickNext(next) /\ g_current_idx' = next
       ELSE UNCHANGED <<g_need_resched, g_current_idx>>
  /\ run_pc' = "dispatch"
  /\ UNCHANGED <<slotVars, g_ticks, g_next_tid, stack, trap>>

\* sched_run: call the entry of the selected task
RunDispatch ==
  /\ run_pc = "dispatch"
  /\ IF state[g_current_idx] = "RUNNABLE"
       THEN /\ state' = [state EXCEPT ![g_current_idx] = "RUNNING"]
            /\ stack' = <<Activation(g_current_idx)>>
            /\ run_pc' = "entry"
            /\ UNCHANGED g_need_resched
       ELSE /\ g_need_resched' = 1
            /\ run_pc' = "select"
            /\ UNCHANGED <<state, stack>>
  /\ UNCHANGED <<tid, parent_tid, wake_tick, quantum_used, waitq, bits,
                 wrapped, wait_pid, g_ticks, g_current_idx, g_next_tid, trap>>

\* sched_block_until_runnable is called
Block ==
  /\ CallerIsTask
  /\ Len(stack) < MaxDepth
  /\ stack' = TopAt("block")
  /\ UNCHANGED <<slotVars, globalVars, run_pc, trap>>

\* sched_block_until_runnable: the test of the loop
BlockTest ==
  /\ stack # <<>>
  /\ Top.pc = "block"
  /\ stack' = TopAt(IF state[Top.idx] \in Waiting THEN "pump" ELSE "run")
  /\ UNCHANGED <<slotVars, globalVars, run_pc, trap>>

\* sched_pump_once, up to the call of the entry
Pump ==
  /\ stack # <<>>
  /\ Top.pc = "pump"
  /\ \E next \in Slots :
       /\ IsPickNext(next)
       /\ IF state[next] = "RUNNABLE"
            THEN /\ g_current_idx' = next
                 /\ state' = [state EXCEPT ![next] = "RUNNING"]
                 /\ stack' = Append(TopAt("block"), Activation(next))
            ELSE /\ stack' = TopAt("block")
                 /\ UNCHANGED <<g_current_idx, state>>
  /\ UNCHANGED <<tid, parent_tid, wake_tick, quantum_used, waitq, bits,
                 wrapped, wait_pid, g_ticks, g_need_resched, g_next_tid, run_pc, trap>>

\* The innermost entry returns to sched_run or to sched_pump_once
EntryReturn ==
  /\ Executing
  /\ Len(stack) # trap
  /\ state' = [state EXCEPT ![Top.idx] = IF @ = "RUNNING" THEN "RUNNABLE" ELSE @]
  /\ stack' = SubSeq(stack, 1, Len(stack) - 1)
  /\ IF Len(stack) = 1
       THEN run_pc' = "select" /\ UNCHANGED g_current_idx
       ELSE g_current_idx' = Top.prev /\ UNCHANGED run_pc
  /\ UNCHANGED <<tid, parent_tid, wake_tick, quantum_used, waitq, bits,
                 wrapped, wait_pid, g_ticks, g_need_resched, g_next_tid, trap>>

----------------------------------------------------------------------------
(* System calls. *)

\* INT 0x80, by the executing task.  In a trap it has no effect.
EnterTrap ==
  /\ CallerIsTask
  /\ trap = 0
  /\ trap' = Len(stack)
  /\ UNCHANGED <<slotVars, globalVars, run_pc, stack>>

\* IRET, when the call is done
LeaveTrap ==
  /\ Executing
  /\ trap = Len(stack)
  /\ trap' = 0
  /\ UNCHANGED <<slotVars, globalVars, run_pc, stack>>

----------------------------------------------------------------------------
(* Interrupt handlers. *)

\* Fault: a deadline that is now is not due.
DueLate(now) ==
  {s \in Slots : state[s] \in Waiting /\ wake_tick[s] # 0 /\ wake_tick[s] < now}

\* sched_try_wake_sleepers: the slots whose deadline has come
Due(now) ==
  {s \in Slots : state[s] \in Waiting /\ wake_tick[s] # 0 /\ wake_tick[s] <= now}

\* The current task is charged for the tick, if it is running
Charged == g_current_idx # 0 /\ state[g_current_idx] = "RUNNING"
\* Fault: the tick is not charged.
ChargedNothing == quantum_used[g_current_idx]

ChargedQuantum ==
  IF quantum_used[g_current_idx] < Quantum THEN quantum_used[g_current_idx] + 1 ELSE Quantum

\* g_ticks++
NextTick == (g_ticks + 1) % TickMod

\* schedule_tick
Tick ==
  LET W == Due(NextTick) IN
  /\ trap = 0
  /\ g_ticks' = NextTick
  /\ Wake(W)
  /\ quantum_used' = IF Charged
                       THEN [WokenQuantum(W) EXCEPT ![g_current_idx] = ChargedQuantum]
                       ELSE WokenQuantum(W)
  /\ g_need_resched' = IF W # {} \/ (Charged /\ ChargedQuantum = Quantum)
                         THEN 1 ELSE g_need_resched
  /\ UNCHANGED <<tid, parent_tid, g_current_idx, g_next_tid, run_pc, stack, trap>>

\* sched_waitq_wake_one on the receive queue, from the serial interrupt: the
\* first set bit is taken, whether or not its task is still waiting
RxWake ==
  /\ trap = 0
  /\ \E s \in Tasks :
       /\ s \in bits[RxWaitq]
       /\ \A i \in 1 .. s - 1 : i \notin bits[RxWaitq]
       /\ Wake(Wakeable({s}))
       /\ quantum_used' = WokenQuantum(Wakeable({s}))
       /\ g_need_resched' = IF Wakeable({s}) # {} THEN 1 ELSE g_need_resched
  /\ UNCHANGED <<tid, parent_tid, g_ticks, g_current_idx, g_next_tid,
                 run_pc, stack, trap>>

----------------------------------------------------------------------------
Pids == {AnyChild} \cup 1 .. MaxTid

Call ==
  \/ Spawn
  \/ Yield
  \/ Exit
  \/ \E d \in Durations : SleepTicks(d)
  \/ \E d \in Durations : RxSleep(d)
  \/ \E pid \in Pids : WaitpidReap(pid)
  \/ \E pid \in Pids : WaitpidBlock(pid)

Loop ==
  \/ RunSelect
  \/ RunDispatch
  \/ Block
  \/ BlockTest
  \/ Pump
  \/ EntryReturn
  \/ EnterTrap
  \/ LeaveTrap

Next ==
  \/ BootSpawn
  \/ Call
  \/ Loop
  \/ Tick
  \/ RxWake

Spec == Init /\ [][Next]_vars

(***************************************************************************)
(* Fairness: sched_run and sched_pump_once never stop; a task entry is a   *)
(* short step that does not call the scheduler for ever but returns, and   *)
(* so does a system call, unless it stays blocked.  The timer keeps firing *)
(* and its interrupt stays pending while the CPU is in a trap, so it is    *)
(* taken again and again if the CPU is outside of one again and again;     *)
(* since it fires independently of what the CPU does, it keeps hitting a   *)
(* running task.  Nothing is assumed of a CPU that does not leave a trap.  *)
(***************************************************************************)
TickCharged == Tick /\ Charged
LoopGoesOn == BootSpawn \/ RunSelect \/ RunDispatch \/ BlockTest \/ Pump

Fairness ==
  /\ WF_vars(LoopGoesOn)
  /\ SF_vars(EntryReturn)
  /\ SF_vars(LeaveTrap)
  /\ SF_vars(Tick)
  /\ SF_vars(TickCharged)

FairSpec == Spec /\ Fairness

----------------------------------------------------------------------------
(* Correctness. *)

ActivationType == [idx : Slots, prev : Slots, pc : {"run", "block", "pump"}]

\* The state of sched.c stays within its types.
TypeOK ==
  /\ state \in [Slots -> States]
  /\ tid \in [Slots -> Nat]
  /\ parent_tid \in [Slots -> Int]
  /\ wake_tick \in [Slots -> 0 .. TickMod - 1]
  /\ quantum_used \in [Slots -> 0 .. Quantum]
  /\ waitq \in [Slots -> Waitqs \cup {NoWaitq}]
  /\ bits \in [Waitqs -> SUBSET Slots]
  /\ wrapped \subseteq Slots
  /\ wait_pid \in [Slots -> Int]
  /\ g_ticks \in 0 .. TickMod - 1
  /\ g_need_resched \in {0, 1}
  /\ g_current_idx \in Slots
  /\ g_next_tid \in Nat \ {0}
  /\ run_pc \in {"boot", "select", "dispatch", "entry"}
  /\ stack \in Seq(ActivationType)
  /\ trap \in Nat

\* The two halves of a wait queue agree: the bitmap that the wake functions
\* scan holds exactly the slots whose waitq pointer names the queue, although
\* sleeping, timing out, waking, exiting, reaping and spawning each touch them.
\* Nobody but the slot itself is on its child_waitq, which dies with the slot.
WaitqLinked ==
  /\ \A s \in Slots, q \in Waitqs : s \in bits[q] <=> waitq[s] = q
  /\ \A s \in Slots : bits[s] \subseteq {s}

\* Nobody but a sleeping or blocked task is queued, and every blocked task is:
\* sched_waitq_wake_one, which gives its single wakeup to the first set bit
\* without looking further, never spends it on a task that is not waiting.
WakeupReachesWaiter ==
  \A s \in Slots :
    /\ waitq[s] # NoWaitq => s # 0 /\ state[s] \in Waiting
    /\ state[s] = "BLOCKED" => waitq[s] # NoWaitq

\* A parent parked in waitpid has no zombie child that its call would reap:
\* the exit of a child always reaches the parent's child_waitq.
ChildExitNotMissed ==
  \A p, z \in Tasks :
    p \in bits[p] => ~IsZombieOf(z, p, wait_pid[p])

\* Live tasks have different tids, below the next one to be given out, so
\* sched_find_by_tid finds the task that was meant.
TidsDistinct ==
  /\ \A s \in Tasks : Used(s) => tid[s] \in 1 .. g_next_tid - 1
  /\ \A s, r \in Tasks : Used(s) /\ Used(r) /\ tid[s] = tid[r] => s = r

\* At most one task is RUNNING, it is the current one, and its activation is
\* the innermost: sched_pump_once never leaves an outer task marked RUNNING.
OneRunning ==
  \A s \in Slots : state[s] = "RUNNING" =>
    stack # <<>> /\ s = g_current_idx /\ s = Top.idx /\ Top.pc # "pump"

\* sched_current_slot is the task that executes: g_current_idx is restored
\* when a nested activation returns, however deep the nesting.
CurrentIsTop ==
  /\ run_pc = "entry" <=> stack # <<>>
  /\ stack # <<>> => g_current_idx = Top.idx
  /\ \A k \in 2 .. Len(stack) : stack[k].prev = stack[k - 1].idx

\* What sched_run selects is still runnable when it calls the entry, whatever
\* the interrupts between the two did: its retry branch is never taken.  The
\* idle task, which is selected when nobody else is runnable, never waits.
DispatchReady ==
  /\ state[0] \in {"RUNNABLE", "RUNNING"}
  /\ run_pc = "dispatch" => state[g_current_idx] = "RUNNABLE"

\* The activations are sound at every depth of tasks that block in tasks: one
\* task is RUNNING, it is the innermost and the current one, g_current_idx is
\* restored on every return, and what sched_run selected can still run.
NestingHolds == OneRunning /\ CurrentIsTop /\ DispatchReady

\* schedule_tick wakes a task at its deadline, not at a tick before or after
\* it, unless the computation of the deadline overflowed.
WokenOnTime ==
  [][g_ticks' # g_ticks =>
       \A s \in Slots :
         state[s] \in Waiting /\ wake_tick[s] # 0 /\ s \notin wrapped =>
           (state'[s] \notin Waiting <=> g_ticks' = wake_tick[s])]_vars

\* A task that sleeps with a deadline wakes up, if the CPU does not stay in a
\* system call: one that blocks inside INT 0x80 keeps the timer from everyone.
\* A deadline that wraps around to 0 is none: try_wake_sleepers skips it, and
\* the task sleeps until it is woken otherwise.
SleeperWakes ==
  []<>(trap = 0) =>
    \A s \in Tasks :
      state[s] = "SLEEPING" /\ wake_tick[s] # 0 ~> state[s] # "SLEEPING" \/ wake_tick[s] = 0

\* Round robin: a runnable task gets to run, even if the others never yield
\* and leave it to the tick quantum, as long as no task blocks in place: the
\* nested loop of a blocked task runs others only while that task waits.
NoStarvation ==
  [](Len(stack) <= 1) => \A s \in Tasks : state[s] = "RUNNABLE" ~> state[s] # "RUNNABLE"

\* The scheduler neither forgets a sleeper nor passes over a runnable task.
TasksProceed == SleeperWakes /\ NoStarvation
=============================================================================
