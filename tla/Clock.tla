------------------------------- MODULE Clock -------------------------------
(***************************************************************************)
(* The clock calls of the kernel (kernel/src/syscall.c) over the registers *)
(* of the time device (io_devices/time).  A 64-bit time is read as two     *)
(* words: the low register latches the host's clock, the high register     *)
(* returns the latched value, and the host's clock goes on in between.     *)
(* clock_settime keeps the difference from the host's clock as a sign and  *)
(* a magnitude.  The kernel runs on one core, which reads the registers.   *)
(***************************************************************************)
EXTENDS DivMod

CONSTANTS
  Start,        \* the host's monotonic clock when the machine is made
  Last,         \* bound on that clock
  Epoch,        \* how far the host's realtime clock is ahead of it
  NS_PER_SEC,
  NS_PER_US,
  MaxSec,       \* the largest tv_sec: 0x7FFFFFFF
  ClockIds,     \* clock ids passed to the calls
  Timespecs     \* <<tv_sec, tv_nsec>> passed to clock_settime

ASSUME ClockAssumption ==
  /\ Start \in Nat /\ Last \in Nat /\ Start <= Last /\ Epoch \in Nat
  /\ {NS_PER_SEC, NS_PER_US} \subseteq 1 .. MaxU /\ MaxSec \in Nat
  /\ Last + Epoch <= MaxU
  /\ (MaxSec + 1) * NS_PER_SEC <= MaxU + 1
  /\ Timespecs \subseteq Int \X Int

Word == Pow2[Bits \div 2]   \* values of a register: 2^32
Clocks == {"REALTIME", "MONOTONIC", "BOOT"}
Pointers == {"null", "ok", "bad"}

VARIABLES
  now,          \* the host's monotonic clock, in nanoseconds
  latched,      \* latched_realtime, latched_monotonic, latched_boottime
  neg, mag,     \* g_realtime_offset_neg and g_realtime_offset_mag_ns
  call,         \* the call in progress, or the last one
  pc,           \* idle, lo or hi
  lo,           \* the word read first
  ns,           \* the time that the call worked out
  ret,          \* its errno, seconds and fraction
  began,        \* history: now when the call began
  at,           \* history: now when the low register was read
  base          \* history: how far CLOCK_REALTIME was set ahead of the host's

kernel == <<neg, mag>>
history == <<began, at, base>>
clocks == <<now, latched, neg, mag, call, pc, lo, ns, ret, history>>

NoCall == [op |-> "none", clock |-> "REALTIME", addr |-> "ok", target |-> 0]
Result(e, s, f) == [err |-> e, sec |-> s, frac |-> f]

ClockInit ==
  /\ now = Start
  /\ latched = [c \in Clocks |-> 0]
  /\ neg = 0 /\ mag = 0
  /\ call = NoCall /\ pc = "idle" /\ lo = 0 /\ ns = 0
  /\ ret = Result("OK", 0, 0)
  /\ began = Start /\ at = Start /\ base = 0

----------------------------------------------------------------------------
(* The device. *)

\* host_unix_time_ns, host_monotonic_time_ns, and the time since the start.
\* Nobody sets the host's wall clock: it stays Epoch ahead of the monotonic one.
HostTime(c) == CASE c = "REALTIME" -> now + Epoch
                 [] c = "MONOTONIC" -> now
                 [] c = "BOOT" -> now - Start

\* Offsets of the high registers, and the last byte that the device serves
HiOffset == [REALTIME |-> 8, MONOTONIC |-> 16, BOOT |-> 24]
LastOffset == 23

\* Fault: the high register of the monotonic clock reads the clock again.
HiFresh(c) == IF c = "MONOTONIC" THEN HostTime(c) \div Word ELSE latched[c] \div Word

\* An access past the device's range goes to RAM, which is zeroed at the start
Hi(c) == IF HiOffset[c] <= LastOffset THEN latched[c] \div Word ELSE 0

----------------------------------------------------------------------------
(* Conversions of the kernel. *)

\* Fault: the magnitude is always added.
ApplyOffsetAdds(raw) == IF raw > MaxU - mag THEN MaxU ELSE raw + mag

\* clock_apply_realtime_offset
ApplyOffset(raw) ==
  IF neg = 0
    THEN IF raw > MaxU - mag THEN MaxU ELSE raw + mag
    ELSE IF raw <= mag THEN 0 ELSE raw - mag

\* time_ns_to_timespec and time_ns_to_timeval
Fits(t) == UDiv(t, NS_PER_SEC) <= MaxSec
Timespec(t) == Result("OK", UDiv(t, NS_PER_SEC), UMod(t, NS_PER_SEC))
Timeval(t) == Result("OK", UDiv(t, NS_PER_SEC), UDiv(UMod(t, NS_PER_SEC), NS_PER_US))

\* timespec_to_ns
ValidTime(ts) == ts[1] >= 0 /\ ts[2] >= 0 /\ ts[2] < NS_PER_SEC
Ns(ts) == ts[1] * NS_PER_SEC + ts[2]

\* clockid_is_supported, and the registers that clockid_read_time_ns reads
ClockOf == [i \in {0, 1, 2, 7} |->
              CASE i = 0 -> "REALTIME" [] i = 1 -> "MONOTONIC" [] OTHER -> "BOOT"]
Supported(i) == i \in DOMAIN ClockOf

----------------------------------------------------------------------------
(* The calls: their checks, up to the read of the clock. *)

Return(r) ==
  /\ call' = NoCall
  /\ ret' = r
  /\ UNCHANGED <<now, latched, kernel, pc, lo, ns, history>>

Fail(e) == Return(Result(e, 0, 0))

ReadTime(c) ==
  /\ call' = c
  /\ pc' = "lo"
  /\ began' = now
  /\ UNCHANGED <<now, latched, kernel, lo, ns, ret, at, base>>

Getres(i, a) ==
  /\ pc = "idle"
  /\ IF ~Supported(i) THEN Fail("EINVAL")
     ELSE IF a = "bad" THEN Fail("EFAULT")
     ELSE Return(Result("OK", 0, 0))

Gettime(i, a) ==
  /\ pc = "idle"
  /\ IF a = "null" THEN Fail("EFAULT")
     ELSE IF ~Supported(i) THEN Fail("EINVAL")
     ELSE ReadTime([op |-> "gettime", clock |-> ClockOf[i], addr |-> a, target |-> 0])

Settime(i, a, ts) ==
  /\ pc = "idle"
  /\ IF i # 0 THEN Fail("EINVAL")
     ELSE IF a # "ok" THEN Fail("EFAULT")
     ELSE IF ~ValidTime(ts) THEN Fail("EINVAL")
     ELSE ReadTime([op |-> "settime", clock |-> "REALTIME", addr |-> a, target |-> Ns(ts)])

\* The address is bad if that of the timeval or that of the zone is
Gettimeofday(a) ==
  /\ pc = "idle"
  /\ IF a = "null" THEN Fail("EFAULT")
     ELSE ReadTime([op |-> "gettimeofday", clock |-> "REALTIME", addr |-> a, target |-> 0])

----------------------------------------------------------------------------
(* mmio_read_time_ns, and what the call does with the time. *)

ReadLo ==
  /\ pc = "lo"
  /\ latched' = [latched EXCEPT ![call.clock] = HostTime(call.clock)]
  /\ lo' = HostTime(call.clock) % Word
  /\ at' = now
  /\ pc' = "hi"
  /\ UNCHANGED <<now, kernel, call, ns, ret, began, base>>

SetOffset(raw) ==
  /\ neg' = IF call.target >= raw THEN 0 ELSE 1
  /\ mag' = IF call.target >= raw THEN call.target - raw ELSE raw - call.target

FinishTime(raw) ==
  \/ /\ call.op = "settime"
     /\ SetOffset(raw)
     /\ base' = call.target - (at + Epoch)
     /\ ns' = 0 /\ ret' = Result("OK", 0, 0)
  \/ /\ call.op # "settime"
     /\ ns' = IF call.clock = "REALTIME" THEN ApplyOffset(raw) ELSE raw
     /\ ret' = IF ~Fits(ns') THEN Result("EOVERFLOW", 0, 0)
               ELSE IF call.addr = "bad" THEN Result("EFAULT", 0, 0)
               ELSE IF call.op = "gettime" THEN Timespec(ns')
               ELSE Timeval(ns')
     /\ UNCHANGED <<kernel, base>>

ReadHi ==
  /\ pc = "hi"
  /\ FinishTime(Hi(call.clock) * Word + lo)
  /\ pc' = "idle" /\ call' = NoCall /\ lo' = 0
  /\ began' = Start /\ at' = Start
  /\ UNCHANGED <<now, latched>>

\* The host's clocks go on.
Advance ==
  /\ now < Last
  /\ now' = now + 1
  /\ UNCHANGED <<latched, kernel, call, pc, lo, ns, ret, history>>

Calls ==
  \/ \E i \in ClockIds, a \in Pointers : Getres(i, a) \/ Gettime(i, a)
  \/ \E i \in ClockIds, a \in Pointers, ts \in Timespecs : Settime(i, a, ts)
  \/ \E a \in Pointers : Gettimeofday(a)

ClockNext == Calls \/ ReadLo \/ ReadHi \/ Advance

ClockSpec == ClockInit /\ [][ClockNext]_clocks

----------------------------------------------------------------------------
(* Correctness. *)

Returns(c) == pc = "hi" /\ pc' = "idle" /\ call.op # "settime" /\ call.clock = c

\* Whole words: a read of CLOCK_MONOTONIC gives a time that the host's clock
\* showed between the call and its return, also when the low word wraps
\* between the reads of the two registers.
MonotonicIsWhole ==
  [][Returns("MONOTONIC") => began <= ns' /\ ns' <= now]_clocks

\* What CLOCK_REALTIME should show when the host's clock is at t
Shown(t) == LET x == t + Epoch + base IN IF x < MaxU THEN x ELSE MaxU

\* clock_settime moves the clock and nothing else: from then on
\* CLOCK_REALTIME and gettimeofday give the time set plus the time passed
\* since, before or after the host's time, and never wrap.
RealtimeFollowsSet ==
  [][Returns("REALTIME") => Shown(began) <= ns' /\ ns' <= Shown(now)]_clocks

\* The caller gets the time that was read: seconds and nanoseconds, or
\* microseconds rounded down, make it up, and EOVERFLOW is returned exactly
\* when the seconds fit in no tv_sec.  The divisions are those of DivMod.
TimeIsSplit ==
  [][\A c \in Clocks : Returns(c) =>
       LET unit == IF call.op = "gettime" THEN 1 ELSE NS_PER_US
           time == ret'.sec * NS_PER_SEC + ret'.frac * unit
       IN  /\ ret'.err = "EOVERFLOW" <=> ns' >= (MaxSec + 1) * NS_PER_SEC
           /\ ret'.err = "OK" => /\ time <= ns' /\ ns' < time + unit
                                 /\ ret'.frac * unit < NS_PER_SEC]_clocks

\* The boot clock gives the time since the machine was made.
BootIsWhole ==
  [][Returns("BOOT") => began - Start <= ns' /\ ns' <= now - Start]_clocks
=============================================================================
