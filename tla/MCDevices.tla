----------------------------- MODULE MCDevices -----------------------------
(***************************************************************************)
(* The devices behind memory addresses for TLC: the lookup of a device, the *)
(* clocks and the timer.  They share no variable, so that a behaviour uses  *)
(* one of them, chosen at its start, and leaves the others alone.           *)
(***************************************************************************)
EXTENDS Clock, Mmio, Timer

VARIABLE used               \* what the behaviour uses

devices == <<used, clocks, mmio, timer>>

DevInit ==
  /\ used \in {"clocks", "mmio", "timer"}
  /\ ClockInit /\ MmioInit /\ TimerInit

UseClocks == used = "clocks" /\ ClockNext /\ UNCHANGED <<used, mmio, timer>>
UseMmio == used = "mmio" /\ MmioNext /\ UNCHANGED <<used, clocks, timer>>
UseTimer(A) == used = "timer" /\ A /\ UNCHANGED <<used, clocks, mmio>>

DevNext == UseClocks \/ UseMmio \/ UseTimer(TimerNext)

DevSpec ==
  /\ DevInit /\ [][DevNext]_devices
  /\ WF_devices(UseTimer(Reprogram)) /\ WF_devices(UseTimer(Thread))
  /\ WF_devices(UseTimer(Elapse))

\* Instances: the supported clocks and one that is not, a time before the host's,
\* the largest, which can be after it, and three that are refused
Ids == {0, 1, 2, 3}
Specs == {<<-1, 0>>, <<0, NS_PER_SEC>>, <<0, -1>>, <<0, 0>>, <<MaxSec, NS_PER_SEC - 1>>}

\* Three devices, the frame buffer's at their two places, within memory and
\* behind its end; an address in each, and one of memory
Names == {"time", "legacy", "fb"}
Ranges == [time |-> <<1, 1>>, legacy |-> <<3, 4>>, fb |-> <<6, 7>>]
FrameBuffers == {"legacy", "fb"}

\* Off, a period below the minimum, and another
Periods == {0, 1, 3}
=============================================================================
