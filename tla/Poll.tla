-------------------------------- MODULE Poll --------------------------------
(* The system calls of a task that wait (syscall.c): poll and select, which   *)
(* wait in place until a descriptor is ready or a timeout has passed, waitpid, *)
(* which loops until a child has exited, and nanosleep, which leaves the task  *)
(* asleep and returns.  A call ends by publishing its result in the mailbox    *)
(* that all tasks share, from where the caller reads it.                       *)
(* syscall_dispatch is called in the trap of INT 0x80, where the core takes   *)
(* no interrupt before IRET, or directly by a kernel task, between whose      *)
(* steps the timer and serial handlers can run.                               *)
EXTENDS Integers

CONSTANTS
  TickMod,     \* 2^32: the width of g_ticks and of the deadlines
  TickUs,      \* sched_tick_period_us
  UsMax,       \* 2^32 - 1, where the conversions saturate
  NS_PER_US, US_PER_SEC,
  Millis,      \* timeouts of poll and select; negative ones are for ever
  Seconds, Nanos,  \* requests of nanosleep
  Watched,     \* sets of descriptors that poll and select are called with
  Contexts,    \* where syscall_dispatch is called: "trap", "direct"
  MaxLag       \* bound on the ticks while a call runs, from one wait to the next

\* Descriptors that are waited for: console input, one that is always ready
\* (output, /dev/null, /dev/zero), one that never is (a socket), a closed one.
Descriptors == {"console", "always", "never", "closed"}

ASSUME PollAssumption ==
  /\ TickMod \in Nat \ {0, 1} /\ TickUs \in Nat \ {0} /\ UsMax \in Nat
  /\ NS_PER_US \in Nat \ {0} /\ US_PER_SEC \in Nat \ {0}
  /\ Millis \subseteq Int /\ Seconds \subseteq Nat
  /\ Nanos \subseteq 0 .. NS_PER_US * US_PER_SEC - 1
  /\ Watched \subseteq SUBSET Descriptors
  /\ MaxLag \in Nat \ {0}
  /\ Contexts \subseteq {"trap", "direct"}

VARIABLES
  g_ticks,
  readable,   \* console_can_read
  g_rx_waitq, \* 1 when the task is BLOCKED on it
  sleeping,   \* 1 when the task is SLEEPING
  wake_tick,  \* its deadline, 0 for none
  child,      \* the child of the task: "none", "running" or "zombie"
  child_waitq,  \* 1 when the task is BLOCKED on it
  p,          \* the call in progress and its locals
  mailbox,    \* the result that was published last
  got,        \* what the task read there after its last call
  own,        \* history: the result of its last call
  lag,        \* ticks since the call last waited, while it runs
  passed      \* history: ticks since the call began, counted to TickMod

clock == <<g_ticks, lag, passed>>
console == <<readable, g_rx_waitq>>
asleep == <<sleeping, wake_tick>>
family == <<child, child_waitq>>
results == <<mailbox, got, own>>
pollvars == <<clock, console, asleep, family, p, results>>

Idle == [pc |-> "idle", kind |-> "none", ctx |-> "none", fds |-> {}, ms |-> 0,
         ns |-> 0, start |-> 0, remaining |-> 0, wraps |-> 0]

PollInit ==
  /\ g_ticks = 0 /\ readable = 0
  /\ g_rx_waitq = 0 /\ sleeping = 0 /\ wake_tick = 0
  /\ child = "none" /\ child_waitq = 0
  /\ p = Idle /\ mailbox = "none" /\ got = "none" /\ own = "none"
  /\ lag = 0 /\ passed = 0

-----------------------------------------------------------------------------
\* Fault: rounding down.
DivFloor(n, d) == n \div d
\* div_ceil_u32; the tick period is a constant and not 0.
DivCeil(n, d) == n \div d + IF n % d # 0 THEN 1 ELSE 0

\* timeout_ms_to_ticks: 1000 us for each ms, under the name of NS_PER_US
TimeoutTicks(ms) ==
  IF ms <= 0 THEN 0 ELSE
  DivCeil(IF ms > UsMax \div NS_PER_US THEN UsMax ELSE ms * NS_PER_US, TickUs)

\* SYS_NANOSLEEP: the sum in microseconds, saturated, and its ticks
TotalUs(sec, nsec) ==
  LET us == sec * US_PER_SEC + DivCeil(nsec, NS_PER_US)
  IN  IF sec > UsMax \div US_PER_SEC \/ us > UsMax THEN UsMax ELSE us
NanosleepTicks(sec, nsec) ==
  LET ticks == DivCeil(TotalUs(sec, nsec), TickUs) IN IF ticks = 0 THEN 1 ELSE ticks

Asleep == g_rx_waitq = 1 \/ sleeping = 1
Elapsed == (g_ticks - p.start) % TickMod

\* The deadline of sched_waitq_sleep, and that of sched_sleep_ticks
RxDeadline(ticks) == IF ticks = 0 THEN 0 ELSE (g_ticks + ticks) % TickMod
SleepDeadline(ticks) == (g_ticks + IF ticks = 0 THEN 1 ELSE ticks) % TickMod

-----------------------------------------------------------------------------
(* The calls. *)

\* A poll or select that begins: its timeout and its start.
PollOrSelect(kind, fds, ms, ctx) ==
  /\ p.pc = "idle"
  /\ p' = [Idle EXCEPT !.pc = "scan", !.kind = kind, !.ctx = ctx, !.fds = fds, !.ms = ms,
                       !.start = g_ticks]
  /\ UNCHANGED <<clock, console, asleep, family, results>>

\* SYSCALL_PUBLISH_RESULT, and the return to the caller
PublishResult(r) == mailbox' = r /\ own' = r /\ UNCHANGED got
Finish(r) ==
  /\ p' = [Idle EXCEPT !.pc = "back"]
  /\ PublishResult(r)
  /\ lag' = 0 /\ passed' = 0

\* Arguments out of range, or memory that is not the caller's
Reject ==
  /\ p.pc = "idle"
  /\ Finish("error")
  /\ UNCHANGED <<g_ticks, console, asleep, family>>

\* The caller reads the result in the mailbox.
Back ==
  /\ p.pc = "back"
  /\ got' = mailbox
  /\ p' = IF p.kind = "nanosleep" THEN [p EXCEPT !.pc = "nap"] ELSE Idle
  /\ lag' = IF p.kind = "nanosleep" THEN lag ELSE 0
  /\ UNCHANGED <<g_ticks, passed, console, asleep, family, mailbox, own>>

\* Descriptors with an event; poll reports closed ones as events.
ReadyFds ==
  {f \in p.fds : \/ f = "always"
                 \/ f = "console" /\ readable = 1
                 \/ f = "closed" /\ p.kind = "poll"}

\* select gives EBADF for a closed one, before it writes any result.
SelectFails == p.kind = "select" /\ "closed" \in p.fds

\* One round over the descriptors and the tests behind it
ScanFds ==
  /\ p.pc = "scan"
  /\ LET timedOut == p.ms > 0 /\ Elapsed >= TimeoutTicks(p.ms)
         remaining == IF p.ms > 0 THEN TimeoutTicks(p.ms) - Elapsed ELSE 0
     IN  IF SelectFails THEN Finish("error")
         ELSE IF ReadyFds # {} THEN Finish("ready")
         ELSE IF p.ms = 0 THEN Finish("nothing")
         ELSE IF timedOut THEN Finish("timeout")
         ELSE /\ p' = [p EXCEPT !.pc = IF "console" \in p.fds THEN "retest" ELSE "sleep",
                                !.remaining = remaining]
              /\ UNCHANGED <<results, lag, passed>>
  /\ UNCHANGED <<g_ticks, console, asleep, family>>

\* console_wait_readable: its test, and sched_waitq_sleep in one step.  Called
\* in the trap nothing comes between its stores; called directly, a serial
\* interrupt after the bit and before the state is stored finds a task that does
\* not wait yet, which is left out: no task of the kernel polls directly.
Retest ==
  /\ p.pc = "retest"
  /\ p' = [p EXCEPT !.pc = IF readable = 1 THEN "scan" ELSE "wait"]
  /\ UNCHANGED <<clock, console, asleep, family, results>>
Wait ==
  /\ p.pc = "wait"
  /\ p' = [p EXCEPT !.pc = "parked", !.remaining = 0]
  /\ lag' = 0
  /\ g_rx_waitq' = 1
  /\ wake_tick' = RxDeadline(p.remaining)
  /\ UNCHANGED <<g_ticks, passed, readable, sleeping, family, results>>

\* sched_sleep_ticks of the remaining ticks, or of 1 without a timeout
Sleep ==
  /\ p.pc = "sleep"
  /\ p' = [p EXCEPT !.pc = "parked", !.remaining = 0]
  /\ lag' = 0
  /\ sleeping' = 1
  /\ wake_tick' = SleepDeadline(IF p.ms < 0 THEN 1 ELSE p.remaining)
  /\ UNCHANGED <<g_ticks, passed, console, family, results>>

\* Fault: the time is measured from the wakeup.
ResumeRestarts ==
  /\ p.pc = "parked" /\ ~Asleep
  /\ p' = [p EXCEPT !.pc = "scan", !.start = g_ticks]
  /\ UNCHANGED <<clock, console, asleep, family, results>>

\* sched_block_until_runnable returns and the loop goes round.
Resume ==
  /\ p.pc = "parked" /\ ~Asleep
  /\ p' = [p EXCEPT !.pc = "scan"]
  /\ UNCHANGED <<clock, console, asleep, family, results>>

\* SYS_NANOSLEEP marks the task asleep and returns; the scheduler enters the
\* task again when it is runnable.
Nanosleep(sec, nsec) ==
  /\ p.pc = "idle"
  /\ IF sec = 0 /\ nsec = 0
       THEN Finish("nothing") /\ UNCHANGED asleep
       ELSE /\ sleeping' = 1
            /\ wake_tick' = SleepDeadline(NanosleepTicks(sec, nsec))
            /\ p' = [Idle EXCEPT !.pc = "back", !.kind = "nanosleep",
                     !.ns = (sec * US_PER_SEC * NS_PER_US) + nsec,
                     !.wraps = IF g_ticks + NanosleepTicks(sec, nsec) < TickMod THEN 0 ELSE 1]
            /\ PublishResult("nothing")
            /\ UNCHANGED <<lag, passed>>
  /\ UNCHANGED <<g_ticks, console, family>>
Nap ==
  /\ p.pc = "nap" /\ ~Asleep
  /\ p' = Idle
  /\ lag' = 0 /\ passed' = 0
  /\ UNCHANGED <<g_ticks, console, asleep, family, results>>

\* SYS_WAITPID for any child, with WNOHANG (ms = 0) or to wait (ms = -1)
Waitpid(ms, ctx) ==
  /\ p.pc = "idle"
  /\ p' = [Idle EXCEPT !.pc = "reap", !.kind = "waitpid", !.ctx = ctx, !.ms = ms]
  /\ UNCHANGED <<clock, console, asleep, family, results>>

\* One round of its loop.  A child is gone once it is reaped, also when its
\* status cannot be written; a caller that waits is marked BLOCKED by
\* sched_waitpid, and goes round without parking.
Reap ==
  /\ p.pc = "reap"
  /\ \/ /\ child = "zombie"
        /\ child' = "none"
        /\ Finish("reaped") \/ Finish("error")
        /\ UNCHANGED child_waitq
     \/ /\ child = "none"
        /\ Finish("error")
        /\ UNCHANGED family
     \/ /\ child = "running"
        /\ IF p.ms = 0
             THEN Finish("nothing") /\ UNCHANGED child_waitq
             ELSE child_waitq' = 1 /\ lag' = 0 /\ UNCHANGED <<p, results, passed>>
        /\ UNCHANGED child
  /\ UNCHANGED <<g_ticks, console, asleep>>

-----------------------------------------------------------------------------
(* What happens meanwhile. *)

\* The core is in the trap from INT to IRET, and takes no interrupt.
InTrap == p.ctx = "trap" /\ p.pc # "idle"

\* The call could take a step.
Runs == p.pc # "idle" /\ ~Asleep

\* The time of a call runs: until poll or select have a result, and until a
\* nanosleep has ended.
Counts == p.pc # "idle" /\ (p.pc = "back" => p.kind = "nanosleep")

\* schedule_tick with sched_try_wake_sleepers
Tick ==
  /\ ~InTrap
  /\ Runs => lag < MaxLag
  /\ lag' = IF Runs THEN lag + 1 ELSE 0
  /\ g_ticks' = (g_ticks + 1) % TickMod
  /\ IF Asleep /\ wake_tick # 0 /\ wake_tick <= g_ticks'
       THEN wake_tick' = 0 /\ g_rx_waitq' = 0 /\ sleeping' = 0
       ELSE UNCHANGED <<wake_tick, g_rx_waitq, sleeping>>
  /\ passed' = IF Counts /\ passed < TickMod THEN passed + 1 ELSE passed
  /\ UNCHANGED <<readable, family, p, results>>

\* console_rx_feed completes a line; sched_waitq_wake_one.
LineArrives ==
  /\ ~InTrap
  /\ readable' = 1
  /\ g_rx_waitq' = 0
  /\ wake_tick' = IF g_rx_waitq = 1 THEN 0 ELSE wake_tick
  /\ UNCHANGED <<clock, sleeping, family, p, results>>

\* Tasks have the core one at a time: the others while this one is between
\* its entries, asleep, or parked in sched_block_until_runnable.
OthersRun == p.pc \in {"idle", "nap", "parked"}

\* A task reads the line: this one between calls, another one while it waits.
Read ==
  /\ OthersRun
  /\ readable' = 0
  /\ UNCHANGED <<clock, g_rx_waitq, asleep, family, p, results>>

\* Fault: another task may be entered at any time.
OthersCallAnyTime ==
  /\ mailbox' = "other"
  /\ UNCHANGED <<clock, console, asleep, family, p, got, own>>

\* Another task calls, and the result of its call is published.
OthersCall ==
  /\ OthersRun
  /\ mailbox' = "other"
  /\ UNCHANGED <<clock, console, asleep, family, p, got, own>>

\* sched_spawn by the task, and sched_exit_code of its child
Spawn ==
  /\ p.pc = "idle" /\ child = "none"
  /\ child' = "running"
  /\ UNCHANGED <<clock, console, asleep, child_waitq, p, results>>
ChildExits ==
  /\ OthersRun
  /\ child = "running"
  /\ child' = "zombie"
  /\ child_waitq' = 0
  /\ UNCHANGED <<clock, console, asleep, p, results>>

PollStep == ScanFds \/ Retest \/ Wait \/ Sleep \/ Resume \/ Reap \/ Back \/ Nap

PollNext ==
  \/ PollStep \/ Tick \/ LineArrives \/ Read \/ Reject
  \/ OthersCall \/ Spawn \/ ChildExits
  \/ \E kind \in {"poll", "select"}, fds \in Watched, ms \in Millis, ctx \in Contexts :
       PollOrSelect(kind, fds, ms, ctx)
  \/ \E ms \in {-1, 0}, ctx \in Contexts : Waitpid(ms, ctx)
  \/ \E sec \in Seconds, nsec \in Nanos : Nanosleep(sec, nsec)

PollSpec == PollInit /\ [][PollNext]_pollvars

\* The timer ticks, and the core executes the call; the tasks that a parked
\* call runs return to it, and a child that is run comes to its exit.
PollFairSpec == PollSpec /\ WF_pollvars(Tick) /\ WF_pollvars(PollStep) /\ WF_pollvars(ChildExits)

-----------------------------------------------------------------------------
AtMost(n, bound) == IF n > bound THEN bound ELSE n

\* No call gives up early: when poll or select reports a timeout, and when
\* nanosleep ends, the ticks that passed make up the time that was asked for,
\* through all roundings (the longest time is UsMax), and also when the counter
\* wraps around (except for a nanosleep across it).
NotEarly ==
  [][/\ p.pc = "scan" /\ p'.pc = "back" /\ mailbox' = "timeout" =>
          passed * TickUs >= AtMost(p.ms * NS_PER_US, UsMax)
     /\ p.pc = "nap" /\ p'.pc = "idle" /\ p.wraps = 0 =>
          passed * TickUs * NS_PER_US >= AtMost(p.ns, UsMax * NS_PER_US)]_pollvars

\* A task reads the result of its own call in the mailbox of
\* SYSCALL_PUBLISH_RESULT, although other tasks publish theirs in the same
\* words while it is parked or asleep and interrupts come in between.
OwnResult == p.pc # "back" => got = own

NoDeadline == Asleep /\ wake_tick = 0

\* A poll or select of a kernel task with a timeout returns, unless its
\* deadline comes out as 0, which stands for no deadline.
DirectReturns ==
  p.ctx = "direct" /\ p.ms > 0 /\ p.pc # "idle" ~> p.pc = "idle" \/ NoDeadline

\* "blocking waitpid/poll/select now park the current task and return only when
\* ready/child-exit/timeout": with a timeout, and with a child that exits when
\* it is run, they return.
BlockingReturns ==
  p.pc # "idle" /\ (p.ms > 0 \/ p.kind = "waitpid") ~> p.pc = "idle"
=============================================================================
