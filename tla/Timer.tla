------------------------------- MODULE Timer -------------------------------
(***************************************************************************)
(* The programmable timer (io_devices/time/timer.c): a guest programs a     *)
(* period with three atomic stores (handle_programmable_tick), while the    *)
(* timer thread (timer_tick) loads and stores the same variables and raises *)
(* INT_TIMER.  Times are relative to the host's clock: a passing unit makes *)
(* each of them one less, so that no value of the clock is special.  How    *)
(* long nanosleep sleeps is left open.                                      *)
(***************************************************************************)
EXTENDS Integers

CONSTANTS
  Values,     \* periods that the guest writes, 0 to switch the timer off
  MinPeriod,  \* TIMER_MIN_PERIOD_US
  MaxLag      \* bound on how late the thread can be

ASSUME TimerAssumption ==
  /\ MinPeriod \in Nat \ {0} /\ MaxLag \in Nat
  /\ Values \subseteq Nat

VARIABLES
  timer_enabled,            \* 0 or 1
  timer_period,
  timer_next_deadline,      \* relative to now, or Zero
  halted,
  ctl,                      \* the next store of handle_programmable_tick
  value,                    \* the value being written or written last
  thread_pc,                       \* where the timer thread is
  period, thread_now, deadline,    \* its locals
  ages,                     \* history: time since the last three interrupts
  late                      \* history: interrupts since the timer was off

guest == <<ctl, value>>
locals == <<period, thread_now, deadline>>
shared == <<timer_enabled, timer_period, timer_next_deadline>>
ticks == <<ages, late>>
timer == <<shared, halted, guest, thread_pc, locals, ticks>>

Zero == -MaxLag - 1         \* a timer_next_deadline_ns of 0
NotWritten == -1
Off == ctl = "idle" /\ value = 0

TimerInit ==
  /\ timer_enabled = 0 /\ timer_period = 0 /\ timer_next_deadline = Zero
  /\ halted = 0
  /\ ctl = "idle" /\ value = NotWritten
  /\ thread_pc = "loop"
  /\ period = 0 /\ thread_now = 0 /\ deadline = 0
  /\ ages = [i \in 1 .. 3 |-> MinPeriod] /\ late = 0

----------------------------------------------------------------------------
(* handle_programmable_tick: what is written, and the three stores. *)

Write(v) ==
  /\ ctl = "idle" /\ halted = 0
  /\ value' = IF v = 0 THEN 0 ELSE IF v < MinPeriod THEN MinPeriod ELSE v
  /\ ctl' = IF v = 0 THEN "disable" ELSE "period"
  /\ late' = 0
  /\ UNCHANGED <<shared, halted, thread_pc, locals, ages>>

\* timer_enabled is stored first to switch off, last to switch on
StoreEnabled ==
  /\ ctl \in {"disable", "enable"}
  /\ timer_enabled' = IF value = 0 THEN 0 ELSE 1
  /\ ctl' = IF value = 0 THEN "period" ELSE "idle"
  /\ UNCHANGED <<timer_period, timer_next_deadline, halted, value, thread_pc, locals, ticks>>

StorePeriod ==
  /\ ctl = "period"
  /\ timer_period' = value
  /\ ctl' = "deadline"
  /\ UNCHANGED <<timer_enabled, timer_next_deadline, halted, value, thread_pc, locals, ticks>>

StoreDeadline ==
  /\ ctl = "deadline"
  /\ timer_next_deadline' = Zero
  /\ ctl' = IF value = 0 THEN "idle" ELSE "enable"
  /\ UNCHANGED <<timer_enabled, timer_period, halted, value, thread_pc, locals, ticks>>

Reprogram == StoreEnabled \/ StorePeriod \/ StoreDeadline

----------------------------------------------------------------------------
(* timer_tick. *)

Goto(l) == thread_pc' = l

Loop ==
  /\ thread_pc = "loop"
  /\ Goto(IF halted = 1 THEN "done" ELSE IF timer_enabled = 0 THEN "off" ELSE "period")
  /\ UNCHANGED <<shared, halted, guest, locals, ticks>>

\* The stores of 0 to timer_next_deadline_ns, after a sleep or a period of 0
ForgetDeadline ==
  /\ thread_pc \in {"off", "forget"}
  /\ timer_next_deadline' = Zero
  /\ Goto("loop")
  /\ UNCHANGED <<timer_enabled, timer_period, halted, guest, locals, ticks>>

\* Fault: a new period is taken for no period.
LoadPeriodChanged ==
  /\ thread_pc = "period"
  /\ period' = IF ctl = "idle" THEN timer_period ELSE 0
  /\ Goto(IF period' = 0 THEN "disable" ELSE "now")
  /\ UNCHANGED <<shared, halted, guest, thread_now, deadline, ticks>>

LoadPeriod ==
  /\ thread_pc = "period"
  /\ period' = timer_period
  /\ Goto(IF timer_period = 0 THEN "disable" ELSE "now")
  /\ UNCHANGED <<shared, halted, guest, thread_now, deadline, ticks>>

Disable ==
  /\ thread_pc = "disable"
  /\ timer_enabled' = 0
  /\ Goto("forget")
  /\ UNCHANGED <<timer_period, timer_next_deadline, halted, guest, locals, ticks>>

ReadClock ==
  /\ thread_pc = "now"
  /\ thread_now' = 0
  /\ Goto("load")
  /\ UNCHANGED <<shared, halted, guest, period, deadline, ticks>>

LoadDeadline ==
  /\ thread_pc = "load"
  /\ deadline' = IF timer_next_deadline = Zero THEN thread_now + period ELSE timer_next_deadline
  /\ Goto(IF timer_next_deadline = Zero THEN "arm" ELSE "test")
  /\ UNCHANGED <<shared, halted, guest, period, thread_now, ticks>>

Arm ==
  /\ thread_pc = "arm"
  /\ timer_next_deadline' = deadline
  /\ Goto("test")
  /\ UNCHANGED <<timer_enabled, timer_period, halted, guest, locals, ticks>>

\* Sleep and look again, or raise the interrupt
Test ==
  /\ thread_pc = "test"
  /\ IF thread_now < deadline
       THEN Goto("loop") /\ period' = 0 /\ deadline' = 0 /\ UNCHANGED ticks
       ELSE /\ Goto("next")
            /\ deadline' = deadline + period
            /\ ages' = [i \in 1 .. 3 |-> IF i = 1 THEN 0 ELSE ages[i - 1]]
            /\ late' = IF Off THEN late + 1 ELSE 0
            /\ UNCHANGED period
  /\ thread_now' = 0
  /\ UNCHANGED <<shared, halted, guest>>

\* Fault: the interrupts that were missed are made up for.
CatchUpEach ==
  /\ thread_pc = "next"
  /\ UNCHANGED deadline
  /\ Goto("store")
  /\ UNCHANGED <<shared, halted, guest, period, thread_now, ticks>>

\* The clock is read again, and deadlines that have passed are skipped
CatchUp ==
  /\ thread_pc = "next"
  /\ deadline' = IF deadline < 0 THEN deadline + period * ((-deadline) \div period + 1)
                 ELSE deadline
  /\ Goto("store")
  /\ UNCHANGED <<shared, halted, guest, period, thread_now, ticks>>

StoreNext ==
  /\ thread_pc = "store"
  /\ timer_next_deadline' = deadline
  /\ period' = 0 /\ deadline' = 0
  /\ Goto("loop")
  /\ UNCHANGED <<timer_enabled, timer_period, halted, guest, thread_now, ticks>>

Thread ==
  \/ Loop \/ ForgetDeadline \/ LoadPeriod \/ Disable \/ ReadClock \/ LoadDeadline
  \/ Arm \/ Test \/ CatchUp \/ StoreNext

----------------------------------------------------------------------------
HaltVm ==
  /\ halted = 0
  /\ halted' = 1
  /\ UNCHANGED <<shared, guest, thread_pc, locals, ticks>>

InUse(t) == t - 1 >= -MaxLag

\* A unit of time passes on the host.
Elapse ==
  /\ timer_next_deadline # Zero => InUse(timer_next_deadline)
  /\ thread_pc \in {"load", "arm", "test"} => InUse(thread_now)
  /\ thread_pc \in {"arm", "test", "next", "store"} => InUse(deadline)
  /\ timer_next_deadline' = IF timer_next_deadline = Zero THEN Zero ELSE timer_next_deadline - 1
  /\ thread_now' = IF thread_pc \in {"load", "arm", "test"} THEN thread_now - 1 ELSE thread_now
  /\ deadline' = IF thread_pc \in {"arm", "test", "next", "store"} THEN deadline - 1 ELSE deadline
  /\ ages' = [i \in 1 .. 3 |-> IF ages[i] < MinPeriod THEN ages[i] + 1 ELSE MinPeriod]
  /\ UNCHANGED <<timer_enabled, timer_period, halted, guest, thread_pc, period, late>>

\* vm_destroy joins the thread.
Joined == thread_pc = "done" /\ UNCHANGED timer

TimerNext == (\E v \in Values : Write(v)) \/ Reprogram \/ Thread \/ HaltVm \/ Elapse \/ Joined

\* The cores, the thread and the clock of the host go on.
TimerSpec ==
  /\ TimerInit /\ [][TimerNext]_timer
  /\ WF_timer(Reprogram) /\ WF_timer(Thread) /\ WF_timer(Elapse)

----------------------------------------------------------------------------
(* Correctness. *)

\* Interrupts that a late thread missed are skipped and not made up for: of
\* three interrupts in a row, the first and the last are a minimal period
\* apart, also across changes of the period.
NoBurst == ages[1] = 0 => ages[3] >= MinPeriod

\* Once the guest's write of 0 is done, at most one more interrupt comes,
\* which the thread was about to raise.
OneLateTick == late <= 1

\* What timer_tick raises is bounded: it neither makes up for the past nor
\* goes on after it was switched off.
TicksBounded == NoBurst /\ OneLateTick

\* The timer keeps ticking: if the guest never switches it off and leaves it
\* alone in the end, then whatever the order of the stores was, the thread
\* goes on raising the interrupt.
TicksContinue ==
  [](value # 0) /\ <>[](ctl = "idle" /\ value > 0 /\ halted = 0) => []<>(ages[1] = 0)
=============================================================================
