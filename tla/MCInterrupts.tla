---------------------------- MODULE MCInterrupts ----------------------------
(***************************************************************************)
(* Instances of interrupt delivery for TLC.  The programs of a behaviour    *)
(* either run on one core and use three interrupts in two words of the      *)
(* bitmap, or on two cores with two interrupts in one word, and mask them.  *)
(***************************************************************************)
EXTENDS Interrupts

VARIABLE programs

TwoWords == {0, 1, 2}   \* with two bits in a word
Devs == {1, 2}
Serial == {1}
Sent == {0}
Program == {1}
Routines == {2}
TwoValues == {0, 1}

OneCore ==
  /\ released = {BSP_CORE} /\ irq_masked = {}
  /\ \A c \in Cores \ {BSP_CORE} : owed[c] = {} /\ ctx[c].rest = 0
OneWord ==
  /\ store # 2
  /\ \A c \in Cores : 2 \notin owed[c] /\ int_no[c] # 2 /\ ctx[c].rest = 0

Allowed == IF programs = "one core" THEN OneCore ELSE OneWord

MCInit == Init /\ programs \in {"one core", "one word"} /\ Allowed
MCNext == Next /\ UNCHANGED programs /\ Allowed'

mcvars == <<vars, programs>>
Do(A) == A /\ UNCHANGED programs /\ Allowed'

MCSpec ==
  /\ MCInit /\ [][MCNext]_mcvars
  /\ \A c \in Cores : WF_mcvars(Do(Core(c)))
  /\ SF_mcvars(Do(Taken(BSP_CORE))) /\ SF_mcvars(Do(Returned(BSP_CORE)))
=============================================================================
