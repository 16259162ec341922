----------------------------- MODULE MCSyscalls -----------------------------
(* Instances of the system calls for TLC: the calls that wait, with what      *)
(* happens meanwhile, or the self-test of the descriptor calls.               *)
EXTENDS Poll, Syscalls

VARIABLE part  \* "waits" or "test"

CallsInit == PollInit /\ SysInit /\ part \in {"waits", "test"}

Waits(A) == part = "waits" /\ A /\ UNCHANGED <<part, sysvars>>
Test(A) == part = "test" /\ A /\ UNCHANGED <<part, pollvars>>

CallsNext == Waits(PollNext) \/ Test(SysNext)

CallsSpec ==
  /\ CallsInit
  /\ [][CallsNext]_<<pollvars, sysvars, part>>
  /\ WF_pollvars(Waits(Tick)) /\ WF_pollvars(Waits(PollStep)) /\ WF_pollvars(Waits(ChildExits))

Timeouts == {-1, 0, 1, 2}
Secs == {0, 1}
Nsecs == 0 .. 3
WatchedSets == {{"console"}, {"console", "always"}, {"never"}, {"closed"}}
Both == {"trap", "direct"}
InTheTrap == {"trap"}
=============================================================================
