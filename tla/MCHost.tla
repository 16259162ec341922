------------------------------- MODULE MCHost -------------------------------
(* Instances for TLC of the process and its debugger, or of the serial        *)
(* receiver that its window feeds: a behaviour is about one of the two.       *)
EXTENDS Serial, Host

VARIABLE part

MCInit == Init /\ HostInit /\ part \in {"process", "serial"}

Process(A) == part = "process" /\ A /\ UNCHANGED <<part, vars>>
Receiver(A) == part = "serial" /\ A /\ UNCHANGED <<part, host>>

MCNext == Process(HostNext) \/ Receiver(Next)

\* The threads run, core 0 takes its interrupts between two calls, and a session
\* at the debugger's prompt ends.
MCSpec ==
  /\ MCInit /\ [][MCNext]_<<vars, host, part>>
  /\ WF_vars(Receiver(Drain)) /\ SF_vars(Receiver(EnterIsr))
  /\ WF_host(Process(Main)) /\ WF_host(Process(Bsp)) /\ WF_host(Process(Leave))
  /\ WF_host(Process(TimerEnds)) /\ WF_host(Process(DiskEnds))
  /\ \A c \in HostCores : WF_host(Process(Thread(c)))

Typed == {1, 2}
TwoCores == {0, 1}
Places == {1, 2, 3}
Given == {<<>>, <<1, 1, 3>>, <<1, 2, 3>>}
=============================================================================
