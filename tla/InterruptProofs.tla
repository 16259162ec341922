-------------------------- MODULE InterruptProofs --------------------------
(***************************************************************************)
(* Interrupt delivery loses no interrupt, does not nest service routines,   *)
(* enters only what was installed and returns to what it interrupted, for   *)
(* any number of cores, interrupts and words of the bitmap.  A call that    *)
(* waits for them gives the task its own result, never gives up early and   *)
(* is due in time, for every tick period, width of the tick counter and     *)
(* timeout.                                                                 *)
(***************************************************************************)
EXTENDS Interrupts, Poll, TLAPS

\* What a leaf that names no prover is tried with, and for how many seconds.
USE ZenonT(3), SMTT(30)

\* From the test of in_interrupt to the entry, a core is not in an ISR, and it
\* has the number of an interrupt once it has found one.
ScanInv ==
  \A c \in Cores :
    /\ pc[c] \in {"scan", "take", "vector", "vector_hi", "int", "int_hi"} => c \notin in_interrupt
    /\ pc[c] \in {"take", "vector", "vector_hi", "int", "int_hi"} => int_no[c] \in Irqs

\* The ISR stack is empty, or holds what the core was doing.
FrameInv ==
  \A c \in Cores : frames[c] = IF c \in in_interrupt THEN <<interrupted[c]>> ELSE <<>>

\* The low half of a vector is stored before its high half, and the core that
\* stores them uses what it loaded before it stores another.
VectorInv ==
  /\ \A n \in Irqs : ivt_hi[n] # Ones => ivt_lo[n] \in Isrs
  /\ store # Nothing => ivt_lo[store] \in Isrs
  /\ pc[BSP_CORE] \in {"vector_hi", "int_hi"} => lo[BSP_CORE] = ivt_lo[int_no[BSP_CORE]]

\* The inductive invariant.
IInv == TypeOK /\ ScanInv /\ FrameInv /\ VectorInv /\ NoLostInterrupt

\* Core 0 is a core, and the marks of an empty slot are no interrupt, routine or
\* code.
LEMMA CoreFacts ==
  /\ BSP_CORE \in Cores /\ Nothing \notin Irqs
  /\ Ones \notin Isrs /\ Ones \notin Code
BY InterruptsAssumption DEF BSP_CORE, Cores, Nothing, Ones

\* At reset nothing is pending, nothing is installed and no frame is on a stack.
LEMMA InitHolds == Init => IInv
<1> SUFFICES ASSUME Init PROVE IInv
  OBVIOUS
<1>1. ctx \in [Cores -> ContextType]
  BY DEF Init, Context, ContextType, Addr
<1>2. TypeOK
  BY <1>1, CoreFacts DEF Init, TypeOK
<1> QED
  BY <1>2, CoreFacts DEF Init, IInv, ScanInv, FrameInv, VectorInv, NoLostInterrupt, InFlight

----------------------------------------------------------------------------
(* What a step of each kind leaves alone. *)

\* Entering an interrupt puts the context of the core on its empty stack.
LEMMA EnterFrame ==
  ASSUME IInv, NEW c \in Cores, c \notin in_interrupt, int_no[c] \in Irqs, Enter(c)
  PROVE  /\ frames' = [frames EXCEPT ![c] = <<ctx[c]>>]
         /\ ctx' = [ctx EXCEPT ![c] = Context(lo[c], int_no[c], ctx[c].rest)]
         /\ in_interrupt' = in_interrupt \cup {c}
         /\ interrupted' = [interrupted EXCEPT ![c] = ctx[c]]
         /\ UNCHANGED halted
         /\ ctx' \in [Cores -> ContextType]
<1>1. frames[c] = <<>>
  BY Zenon DEF IInv, FrameInv
<1>2. Len(frames[c]) # MaxFrames
  BY <1>1, InterruptsAssumption
<1>3. Append(frames[c], ctx[c]) = <<ctx[c]>>
  BY <1>1
<1>4. /\ frames' = [frames EXCEPT ![c] = Append(frames[c], ctx[c])]
      /\ ctx' = [ctx EXCEPT ![c] = Context(lo[c], int_no[c], ctx[c].rest)]
      /\ in_interrupt' = in_interrupt \cup {c}
      /\ interrupted' = [interrupted EXCEPT ![c] = ctx[c]]
      /\ UNCHANGED halted
  BY <1>2 DEF Enter
<1>5. Context(lo[c], int_no[c], ctx[c].rest) \in ContextType
  BY DEF Context, ContextType, IInv, TypeOK, Addr
<1>6. ctx' \in [Cores -> ContextType]
  BY <1>4, <1>5 DEF IInv, TypeOK
<1> QED
  BY <1>3, <1>4, <1>6

\* IRET within an ISR restores the one frame.
LEMMA IretFrame ==
  ASSUME IInv, NEW c \in Cores, c \in in_interrupt, Iret(c)
  PROVE  /\ ctx' = [ctx EXCEPT ![c] = interrupted[c]]
         /\ frames' = [frames EXCEPT ![c] = <<>>]
         /\ in_interrupt' = in_interrupt \ {c}
         /\ UNCHANGED halted
<1>1. frames[c] = <<interrupted[c]>>
  BY Zenon DEF IInv, FrameInv
<1>2. frames[c] # <<>> /\ frames[c][Len(frames[c])] = interrupted[c]
  BY <1>1
<1>3. SubSeq(frames[c], 1, Len(frames[c]) - 1) = <<>>
  BY <1>1
<1> QED
  BY <1>2, <1>3, Zenon DEF Iret, IInv, TypeOK

----------------------------------------------------------------------------
(* The conjuncts of the invariant, one by one. *)

\* Only the entry of an interrupt and IRET touch the ISR stacks.
LEMMA FrameStep == IInv /\ Next => FrameInv'
<1> SUFFICES ASSUME IInv, Next PROVE FrameInv'
  OBVIOUS
<1> USE DEF IInv
<1>1. ASSUME UNCHANGED <<frames, in_interrupt, interrupted>> PROVE FrameInv'
  BY <1>1 DEF FrameInv
<1>2. ASSUME NEW c \in Cores, NEW l \in {"vector_hi", "int_hi"}, NEW after, Vector(c, l, after)
      PROVE  FrameInv'
  <2>1. c \notin in_interrupt /\ int_no[c] \in Irqs
    BY <1>2 DEF Vector, At, ScanInv
  <2>2. CASE Enter(c)
    <3>1. /\ frames' = [frames EXCEPT ![c] = <<ctx[c]>>]
          /\ in_interrupt' = in_interrupt \cup {c}
          /\ interrupted' = [interrupted EXCEPT ![c] = ctx[c]]
      BY <2>1, <2>2, EnterFrame
    <3>2. SUFFICES ASSUME NEW d \in Cores
                   PROVE  frames'[d] = IF d \in in_interrupt' THEN <<interrupted'[d]>> ELSE <<>>
      BY Zenon DEF FrameInv
    <3>3. CASE d = c
      BY <3>1, <3>3 DEF TypeOK
    <3>4. CASE d # c
      BY <3>1, <3>4 DEF TypeOK, FrameInv
    <3> QED
      BY <3>3, <3>4
  <2> QED
    BY <1>1, <1>2, <2>2 DEF Vector
<1>3. ASSUME NEW c \in Cores, Iret(c) PROVE FrameInv'
  <2>1. CASE c \in in_interrupt
    <3>1. /\ frames' = [frames EXCEPT ![c] = <<>>]
          /\ in_interrupt' = in_interrupt \ {c}
          /\ UNCHANGED interrupted
      BY <1>3, <2>1, IretFrame DEF Iret
    <3> QED
      BY <3>1 DEF TypeOK, FrameInv
  <2>2. CASE c \notin in_interrupt
    BY <1>1, <1>3, <2>2 DEF Iret
  <2> QED
    BY <2>1, <2>2
<1>4. ASSUME NEW c \in Cores, Core(c) PROVE FrameInv'
  <2>1. CASE EnterPending(c)
    BY <1>1, <1>2, <2>1 DEF EnterPending, VectorLow, machine
  <2>2. CASE EnterInt(c)
    BY <1>1, <1>2, <2>2 DEF EnterInt, VectorLow, machine
  <2>3. CASE Instruction(c)
    BY <1>1, <1>3, <2>3 DEF Instruction, FetchPanic, Plain, Halt, IntInstruction, Ipi, StartAp,
       SetMask, InKeyboard, StoreLow, StoreHigh, machine
  <2>4. CASE Stop(c) \/ Handle(c) \/ Scan(c) \/ Take(c)
    BY <1>1, <2>4 DEF Stop, Handle, Scan, Take, machine
  <2> QED
    BY <1>4, <2>1, <2>2, <2>3, <2>4 DEF Core
<1> QED
  BY <1>1, <1>4 DEF Next, Device, Joined, machine, vars

\* A core that looks for an interrupt is not in one: it is put in one only at
\* the end of the entry, and by itself.
LEMMA ScanStep == IInv /\ Next => ScanInv'
<1> SUFFICES ASSUME IInv, Next PROVE ScanInv'
  OBVIOUS
<1> USE DEF IInv, TypeOK, ScanInv
<1>1. ASSUME UNCHANGED <<pc, in_interrupt, int_no>> PROVE ScanInv'
  BY <1>1
<1>2. ASSUME NEW c \in Cores, NEW after \in {"loop", "exec", "done"}, Goto(c, after),
             UNCHANGED <<in_interrupt, int_no>>
      PROVE  ScanInv'
  BY <1>2 DEF Goto
<1>3. ASSUME NEW c \in Cores, Handle(c) PROVE ScanInv'
  BY <1>3 DEF Handle, Goto, machine
<1>4. ASSUME NEW c \in Cores, NextWord(c), c \notin in_interrupt, UNCHANGED in_interrupt,
             \/ UNCHANGED int_no
             \/ int_no' = [int_no EXCEPT ![c] = Nothing]
      PROVE  ScanInv'
  BY <1>4 DEF NextWord, Goto
<1>5. ASSUME NEW c \in Cores, Scan(c) PROVE ScanInv'
  <2>1. c \notin in_interrupt /\ UNCHANGED in_interrupt
    BY <1>5 DEF Scan, At, machine
  <2>2. CASE InWord(c, w[c]) = {}
    BY <1>4, <1>5, <2>1, <2>2 DEF Scan
  <2>3. CASE InWord(c, w[c]) # {}
    <3>1. PICK n \in Irqs : int_no' = [int_no EXCEPT ![c] = n] /\ Goto(c, "take")
      BY <1>5, <2>3, Zenon DEF Scan, InWord
    <3> QED
      BY <2>1, <3>1 DEF Goto
  <2> QED
    BY <2>2, <2>3
<1>6. ASSUME NEW c \in Cores, Take(c) PROVE ScanInv'
  <2>1. c \notin in_interrupt /\ UNCHANGED in_interrupt /\ int_no[c] \in Irqs
    BY <1>6 DEF Take, At, machine
  <2>2. CASE Goto(c, "vector") /\ UNCHANGED int_no
    BY <2>1, <2>2 DEF Goto
  <2>3. CASE UNCHANGED <<pc, int_no>>
    BY <1>1, <2>1, <2>3
  <2>4. CASE NextWord(c) /\ int_no' = [int_no EXCEPT ![c] = Nothing]
    BY <1>4, <2>1, <2>4, Zenon
  <2> QED
    BY <1>6, <2>2, <2>3, <2>4 DEF Take
<1>7. ASSUME NEW c \in Cores, EnterPending(c) \/ EnterInt(c) PROVE ScanInv'
  <2>1. CASE VectorLow(c, "vector", "vector_hi") \/ VectorLow(c, "int", "int_hi")
    BY <2>1 DEF VectorLow, At, Goto, machine
  <2>2. ASSUME NEW l \in {"vector_hi", "int_hi"}, NEW after \in {"loop", "exec"}, Vector(c, l, after)
        PROVE  ScanInv'
    <3>1. in_interrupt' \in {in_interrupt, in_interrupt \cup {c}}
      BY <2>2 DEF Vector, Enter
    <3> QED
      BY <2>2, <3>1 DEF Vector, Goto
  <2> QED
    BY <1>7, <2>1, <2>2 DEF EnterPending, EnterInt
<1>8. ASSUME NEW c \in Cores, NEW n \in Irqs, IntInstruction(c, n) PROVE ScanInv'
  BY <1>8 DEF IntInstruction, Goto, machine
<1>9. ASSUME NEW c \in Cores, Iret(c) PROVE ScanInv'
  <2>1. in_interrupt' \in {in_interrupt, in_interrupt \ {c}} /\ Goto(c, "loop") /\ UNCHANGED int_no
    BY <1>9 DEF Iret, Step, scan
  <2> QED
    BY <2>1 DEF Goto
<1>10. ASSUME NEW c \in Cores, Instruction(c) PROVE ScanInv'
  BY <1>2, <1>8, <1>9, <1>10, CoreFacts DEF Instruction, FetchPanic, Plain, Halt, Ipi, StartAp, SetMask,
     InKeyboard, StoreLow, StoreHigh, Step, machine, scan
<1>11. ASSUME NEW c \in Cores, Stop(c) PROVE ScanInv'
  BY <1>2, <1>11 DEF Stop, machine, scan
<1> QED
  BY <1>1, <1>3, <1>5, <1>6, <1>7, <1>10, <1>11 DEF Next, Core, Device, Joined, machine, scan, vars

\* Vectors are stored by core 0 only, while it is not between its two loads.
LEMMA VectorStep == IInv /\ Next => VectorInv'
<1> SUFFICES ASSUME IInv, Next PROVE VectorInv'
  OBVIOUS
<1> USE CoreFacts DEF IInv, TypeOK, VectorInv
<1>1. ASSUME NEW c \in Cores, UNCHANGED vectors,
             c # BSP_CORE => UNCHANGED <<pc[BSP_CORE], lo[BSP_CORE], int_no[BSP_CORE]>>,
             c = BSP_CORE => pc'[BSP_CORE] \notin {"vector_hi", "int_hi"}
      PROVE  VectorInv'
  BY <1>1 DEF vectors
<1>2. ASSUME NEW c \in Cores, NEW after \in {"loop", "exec", "done", "scan", "take", "vector", "int"},
             Goto(c, after),
             lo' = lo \/ (\E x : lo' = [lo EXCEPT ![c] = x]),
             int_no' = int_no \/ (\E x : int_no' = [int_no EXCEPT ![c] = x]),
             UNCHANGED vectors
      PROVE  VectorInv'
  <2>1. c # BSP_CORE => UNCHANGED <<pc[BSP_CORE], lo[BSP_CORE], int_no[BSP_CORE]>>
    BY <1>2 DEF Goto
  <2>2. c = BSP_CORE => pc'[BSP_CORE] \notin {"vector_hi", "int_hi"}
    BY <1>2 DEF Goto
  <2> QED
    BY <1>1, <1>2, <2>1, <2>2
<1>3. ASSUME UNCHANGED <<vectors, pc, lo, int_no>> PROVE VectorInv'
  BY <1>3 DEF vectors
<1>4. ASSUME NEW c \in Cores, NEW after \in {"vector_hi", "int_hi"}, NEW l, VectorLow(c, l, after)
      PROVE  VectorInv'
  BY <1>4 DEF VectorLow, Goto, vectors
<1>5. ASSUME NEW c \in Cores, NEW after \in {"loop", "exec"}, NEW l, Vector(c, l, after)
      PROVE  VectorInv'
  BY <1>2, <1>5 DEF Vector
<1>6. ASSUME NEW n \in Irqs, NEW isr \in Isrs, StoreLow(n, isr) PROVE VectorInv'
  BY <1>6 DEF StoreLow, Step, Goto, scan
<1>7. ASSUME StoreHigh PROVE VectorInv'
  BY <1>7 DEF StoreHigh, Installing, Goto, scan
<1>8. ASSUME NEW c \in Cores, NextWord(c), UNCHANGED <<lo, vectors>>,
             int_no' = int_no \/ (\E x : int_no' = [int_no EXCEPT ![c] = x])
      PROVE  VectorInv'
  BY <1>2, <1>8 DEF NextWord
<1>9. ASSUME NEW c \in Cores, Scan(c) PROVE VectorInv'
  BY <1>2, <1>8, <1>9 DEF Scan
<1>10. ASSUME NEW c \in Cores, Take(c) PROVE VectorInv'
  BY <1>2, <1>3, <1>8, <1>10 DEF Take
<1>11. ASSUME NEW c \in Cores, NEW n \in Irqs, IntInstruction(c, n) PROVE VectorInv'
  BY <1>2, <1>11 DEF IntInstruction
<1>12. ASSUME NEW c \in Cores, Instruction(c) PROVE VectorInv'
  BY <1>2, <1>6, <1>7, <1>11, <1>12 DEF Instruction, FetchPanic, Plain, Halt, Iret, Ipi, StartAp, SetMask,
     InKeyboard, Step, scan
<1>13. ASSUME NEW c \in Cores, Stop(c) \/ Handle(c) PROVE VectorInv'
  BY <1>2, <1>13 DEF Stop, Handle, scan
<1>14. ASSUME NEW c \in Cores, EnterPending(c) \/ EnterInt(c) PROVE VectorInv'
  BY <1>4, <1>5, <1>14 DEF EnterPending, EnterInt
<1> QED
  BY <1>3, <1>9, <1>10, <1>12, <1>13, <1>14 DEF Next, Core, Device, Joined, scan, vars

\* What is taken off the bitmap is the interrupt that the core then enters.
LEMMA OwedStep == IInv /\ Next => NoLostInterrupt'
<1> SUFFICES ASSUME IInv, Next PROVE NoLostInterrupt'
  OBVIOUS
<1> USE CoreFacts DEF IInv, TypeOK, NoLostInterrupt, InFlight
<1>1. ASSUME UNCHANGED <<pending, owed, pc, int_no>> PROVE NoLostInterrupt'
  BY <1>1
<1>2. ASSUME NEW c \in Cores, pc[c] \notin {"vector", "vector_hi"}, NEW after, Goto(c, after),
             after \notin {"vector", "vector_hi"},
             int_no' = int_no \/ (\E x : int_no' = [int_no EXCEPT ![c] = x]),
             UNCHANGED <<pending, owed>>
      PROVE  NoLostInterrupt'
  BY <1>2 DEF Goto
<1>3. ASSUME NEW t, NEW n, Trigger(t, n), NEW d \in Cores
      PROVE  \/ pending'[d] = pending[d] /\ owed'[d] = owed[d]
             \/ pending'[d] = pending[d] \cup {n} /\ owed'[d] = owed[d] \cup {n}
  <2>1. CASE t \in Cores /\ n \in Irqs
    BY <1>3, <2>1 DEF Trigger
  <2>2. CASE ~(t \in Cores /\ n \in Irqs)
    BY <1>3, <2>2 DEF Trigger
  <2> QED
    BY <2>1, <2>2
<1>4. ASSUME NEW t, NEW n, Trigger(t, n), \A d \in Cores : InFlight(d)' = InFlight(d)
      PROVE  NoLostInterrupt'
  <2>1. SUFFICES ASSUME NEW d \in Cores
                 PROVE  pending'[d] \subseteq owed'[d] /\ owed'[d] \subseteq pending'[d] \cup InFlight(d)'
    BY DEF NoLostInterrupt
  <2> HIDE DEF InFlight
  <2>2. pending[d] \subseteq owed[d] /\ owed[d] \subseteq pending[d] \cup InFlight(d)
    BY DEF NoLostInterrupt
  <2>3. InFlight(d)' = InFlight(d)
    BY <1>4
  <2>4. \/ pending'[d] = pending[d] /\ owed'[d] = owed[d]
        \/ pending'[d] = pending[d] \cup {n} /\ owed'[d] = owed[d] \cup {n}
    BY <1>3, <1>4
  <2> HIDE DEF IInv, TypeOK, NoLostInterrupt
  <2> QED
    BY <2>2, <2>3, <2>4
<1>5. ASSUME NEW n, Device(n) PROVE NoLostInterrupt'
  BY <1>4, <1>5 DEF Device, scan
<1>6. ASSUME NEW c \in Cores, NEW t, NEW n, Ipi(c, t, n) PROVE NoLostInterrupt'
  <2>1. \A d \in Cores : InFlight(d)' = InFlight(d)
    BY <1>6 DEF Ipi, Step, Ready, At, Goto, scan
  <2> QED
    BY <1>4, <1>6, <2>1, Zenon DEF Ipi
<1>7. ASSUME NEW c \in Cores, InKeyboard(c) PROVE NoLostInterrupt'
  <2>1. \A d \in Cores : InFlight(d)' = InFlight(d)
    BY <1>7 DEF InKeyboard, Step, Ready, At, Goto, scan
  <2>2. PICK again :
          /\ pending' = [pending EXCEPT ![BSP_CORE] = (@ \ AckIrqs) \cup again]
          /\ owed' = [owed EXCEPT ![BSP_CORE] = (@ \ AckIrqs) \cup again]
    BY <1>7, Zenon DEF InKeyboard
  <2>3. SUFFICES ASSUME NEW d \in Cores
                 PROVE  pending'[d] \subseteq owed'[d] /\ owed'[d] \subseteq pending'[d] \cup InFlight(d)'
    BY DEF NoLostInterrupt
  <2> HIDE DEF InFlight
  <2>4. pending[d] \subseteq owed[d] /\ owed[d] \subseteq pending[d] \cup InFlight(d)
    BY DEF NoLostInterrupt
  <2>5. \/ pending'[d] = pending[d] /\ owed'[d] = owed[d]
        \/ /\ pending'[d] = (pending[d] \ AckIrqs) \cup again
           /\ owed'[d] = (owed[d] \ AckIrqs) \cup again
    BY <2>2
  <2> HIDE DEF IInv, TypeOK, NoLostInterrupt
  <2> QED
    BY <2>1, <2>4, <2>5
<1>8. ASSUME NEW c \in Cores, NextWord(c), pc[c] \in {"scan", "take"}, UNCHANGED <<pending, owed>>,
             int_no' = int_no \/ (\E x : int_no' = [int_no EXCEPT ![c] = x])
      PROVE  NoLostInterrupt'
  BY <1>2, <1>8, Zenon DEF NextWord
<1>9. ASSUME NEW c \in Cores, Scan(c) PROVE NoLostInterrupt'
  BY <1>2, <1>8, <1>9, Zenon DEF Scan, At
<1>10. ASSUME NEW c \in Cores, Take(c) PROVE NoLostInterrupt'
  <2>1. CASE /\ pending' = [pending EXCEPT ![c] = @ \ {int_no[c]}]
             /\ Goto(c, "vector") /\ UNCHANGED <<int_no, owed>>
    BY <2>1 DEF Goto
  <2> QED
    BY <1>1, <1>8, <1>10, <2>1 DEF Take, At
<1>11. ASSUME NEW c \in Cores, EnterPending(c) PROVE NoLostInterrupt'
  <2>1. CASE VectorLow(c, "vector", "vector_hi") /\ UNCHANGED owed
    BY <2>1 DEF VectorLow, At, Goto
  <2>2. CASE /\ Vector(c, "vector_hi", "exec")
             /\ owed' = [owed EXCEPT ![c] = @ \ ({int_no[c]} \ pending[c])]
    BY <2>2 DEF Vector, At, Goto
  <2> QED
    BY <1>11, <2>1, <2>2 DEF EnterPending
<1>12. ASSUME NEW c \in Cores, EnterInt(c) PROVE NoLostInterrupt'
  BY <1>2, <1>12, Zenon DEF EnterInt, VectorLow, Vector, At
<1>13. ASSUME NEW c \in Cores, Instruction(c) PROVE NoLostInterrupt'
  BY <1>2, <1>7, <1>13, <1>6 DEF Instruction, FetchPanic, Plain, Halt, IntInstruction, Iret, StartAp, SetMask,
     StoreLow, StoreHigh, Step, Ready, At, scan
<1>14. ASSUME NEW c \in Cores, Stop(c) \/ Handle(c) PROVE NoLostInterrupt'
  BY <1>2, <1>14, Zenon DEF Stop, Handle, At, scan
<1> QED
  BY <1>1, <1>9, <1>10, <1>11, <1>12, <1>13, <1>14, <1>5 DEF Next, Core, Joined, vars

\* The types, in three parts that the steps change apart from each other.
LEMMA TypeStep == IInv /\ Next => TypeOK'
<1> SUFFICES ASSUME IInv, Next PROVE TypeOK'
  OBVIOUS
<1> DEFINE Bits == pending \in [Cores -> SUBSET Irqs] /\ owed \in [Cores -> SUBSET Irqs]
           Machine == /\ in_interrupt \subseteq Cores /\ irq_masked \subseteq Cores
                      /\ released \subseteq Cores /\ halted \in {0, 1}
                      /\ ctx \in [Cores -> ContextType] /\ interrupted \in [Cores -> ContextType]
                      /\ frames \in [Cores -> Seq(ContextType)]
           Vectors == /\ ivt_lo \in [Irqs -> Isrs \cup {Ones}] /\ ivt_hi \in [Irqs -> {0, Ones}]
                      /\ store \in Irqs \cup {Nothing}
           Where == {"loop", "scan", "take", "vector", "vector_hi", "exec", "int", "int_hi", "done"}
           Scans == /\ pc \in [Cores -> Where] /\ w \in [Cores -> Nat]
                    /\ word \in [Cores -> SUBSET Irqs]
                    /\ int_no \in [Cores -> Irqs \cup {Nothing}]
                    /\ lo \in [Cores -> Isrs \cup {Ones}]
<1>1. Bits /\ Machine /\ Vectors /\ Scans
  BY DEF IInv, TypeOK
<1>2. Bits'
  <2>1. ASSUME NEW t, NEW n, Trigger(t, n) PROVE Bits'
    <3>1. CASE t \in Cores /\ n \in Irqs
      <4>1. pending[t] \cup {n} \in SUBSET Irqs /\ owed[t] \cup {n} \in SUBSET Irqs
        BY <1>1, <3>1
      <4>2. /\ pending' = [pending EXCEPT ![t] = pending[t] \cup {n}]
            /\ owed' = [owed EXCEPT ![t] = owed[t] \cup {n}]
        BY <2>1, <3>1 DEF Trigger
      <4> QED
        BY <1>1, <3>1, <4>1, <4>2
    <3>2. CASE ~(t \in Cores /\ n \in Irqs)
      BY <1>1, <2>1, <3>2 DEF Trigger
    <3> QED
      BY <3>1, <3>2
  <2>2. ASSUME NEW c \in Cores, InKeyboard(c) PROVE Bits'
    <3>1. PICK again \in {{}} \cup {{n} : n \in AckIrqs} :
            /\ pending' = [pending EXCEPT ![BSP_CORE] = (@ \ AckIrqs) \cup again]
            /\ owed' = [owed EXCEPT ![BSP_CORE] = (@ \ AckIrqs) \cup again]
      BY <2>2, Zenon DEF InKeyboard
    <3>2. again \subseteq Irqs
      BY InterruptsAssumption
    <3>3. /\ (pending[BSP_CORE] \ AckIrqs) \cup again \in SUBSET Irqs
          /\ (owed[BSP_CORE] \ AckIrqs) \cup again \in SUBSET Irqs
      BY <1>1, <3>2, CoreFacts
    <3> QED
      BY <1>1, <3>1, <3>3, CoreFacts
  <2>3. ASSUME NEW c \in Cores, Take(c) \/ EnterPending(c) PROVE Bits'
    <3>1. pending' \in {pending, [pending EXCEPT ![c] = pending[c] \ {int_no[c]}]}
      BY <2>3 DEF Take, EnterPending, VectorLow, Vector
    <3>2. owed' \in {owed, [owed EXCEPT ![c] = owed[c] \ ({int_no[c]} \ pending[c])]}
      BY <2>3 DEF Take, EnterPending, VectorLow, Vector
    <3>3. /\ pending[c] \ {int_no[c]} \in SUBSET Irqs
          /\ owed[c] \ ({int_no[c]} \ pending[c]) \in SUBSET Irqs
      BY <1>1
    <3>4. pending' \in [Cores -> SUBSET Irqs]
      BY <1>1, <3>1, <3>3, Zenon
    <3>5. owed' \in [Cores -> SUBSET Irqs]
      BY <1>1, <3>2, <3>3, Zenon
    <3> QED
      BY <3>4, <3>5
  <2>4. ASSUME UNCHANGED <<pending, owed>> PROVE Bits'
    BY <1>1, <2>4
  <2>5. ASSUME NEW c \in Cores, Instruction(c) PROVE Bits'
    BY <2>1, <2>2, <2>4, <2>5 DEF Instruction, FetchPanic, Plain, Halt, IntInstruction, Iret, Ipi, StartAp,
       SetMask, StoreLow, StoreHigh
  <2>6. ASSUME NEW c \in Cores, Stop(c) \/ Handle(c) \/ Scan(c) \/ EnterInt(c) PROVE Bits'
    BY <2>4, <2>6 DEF Stop, Handle, Scan, EnterInt, VectorLow, Vector
  <2> QED
    BY <2>1, <2>3, <2>4, <2>5, <2>6 DEF Next, Core, Device, Joined, vars
<1>3. Machine'
  <2>1. ASSUME UNCHANGED machine PROVE Machine'
    BY <1>1, <2>1 DEF machine
  <2>2. ASSUME NEW c \in Cores, NEW l \in {"vector_hi", "int_hi"}, NEW after, Vector(c, l, after)
        PROVE  Machine'
    <3>1. c \notin in_interrupt /\ int_no[c] \in Irqs
      BY <2>2 DEF Vector, At, IInv, ScanInv
    <3>2. UNCHANGED <<irq_masked, released>>
      BY <2>2 DEF Vector
    <3>3. CASE Enter(c)
      <4>1. /\ frames' = [frames EXCEPT ![c] = <<ctx[c]>>]
            /\ in_interrupt' = in_interrupt \cup {c}
            /\ interrupted' = [interrupted EXCEPT ![c] = ctx[c]]
            /\ UNCHANGED halted
            /\ ctx' \in [Cores -> ContextType]
        BY <3>1, <3>3, EnterFrame
      <4>2. ctx[c] \in ContextType /\ <<ctx[c]>> \in Seq(ContextType)
        BY <1>1
      <4>3. frames' \in [Cores -> Seq(ContextType)]
        BY <1>1, <4>1, <4>2
      <4> QED
        BY <1>1, <3>2, <4>1, <4>2, <4>3
    <3> QED
      BY <2>1, <2>2, <3>2, <3>3 DEF Vector, machine
  <2>3. ASSUME NEW c \in Cores, Iret(c) PROVE Machine'
    <3>1. CASE c \in in_interrupt
      <4>1. /\ ctx' = [ctx EXCEPT ![c] = interrupted[c]]
            /\ frames' = [frames EXCEPT ![c] = <<>>]
            /\ in_interrupt' = in_interrupt \ {c}
            /\ UNCHANGED <<halted, irq_masked, released, interrupted>>
        BY <2>3, <3>1, IretFrame DEF Iret
      <4>2. <<>> \in Seq(ContextType)
        OBVIOUS
      <4>3. frames' \in [Cores -> Seq(ContextType)]
        BY <1>1, <4>1, <4>2
      <4> QED
        BY <1>1, <4>1, <4>3
    <3>2. CASE c \notin in_interrupt
      BY <2>1, <2>3, <3>2 DEF Iret, machine
    <3> QED
      BY <3>1, <3>2
  <2>4. ASSUME NEW c \in Cores, FetchPanic(c) \/ Halt(c) PROVE Machine'
    BY <1>1, <2>4 DEF FetchPanic, Halt
  <2>5. ASSUME NEW c \in Cores, Plain(c) PROVE Machine'
    <3>1. PICK x \in ContextType : ctx' = [ctx EXCEPT ![c] = x]
      <4>1. PICK rest \in Rest, ip \in Addr : ctx' = [ctx EXCEPT ![c] = Context(ip, 0, rest)]
        BY <1>1, <2>5 DEF Plain, Addr, ContextType
      <4> QED
        BY <4>1, Zenon DEF Context, ContextType
    <3> QED
      BY <1>1, <2>5, <3>1 DEF Plain
  <2>6. ASSUME NEW c \in Cores, NEW t, NEW entry \in Code, StartAp(c, t, entry) PROVE Machine'
    <3>1. CASE t \in Cores
      <4>1. [ctx[t] EXCEPT !.ip = entry] \in ContextType
        <5>1. ctx[t] \in ContextType /\ entry \in Addr
          BY <1>1, <3>1 DEF Addr
        <5> QED
          BY <5>1 DEF ContextType
      <4>2. ctx' \in {ctx, [ctx EXCEPT ![t] = [ctx[t] EXCEPT !.ip = entry]]}
        BY <2>6 DEF StartAp
      <4>3. released' \in {released, released \cup {t}}
        BY <2>6 DEF StartAp
      <4> QED
        BY <1>1, <2>6, <3>1, <4>1, <4>2, <4>3, Zenon DEF StartAp
    <3>2. CASE t \notin Cores
      BY <2>1, <2>6, <3>2 DEF StartAp, machine
    <3> QED
      BY <3>1, <3>2
  <2>7. ASSUME NEW c \in Cores, NEW on, SetMask(c, on) PROVE Machine'
    BY <1>1, <2>7 DEF SetMask
  <2>8. ASSUME NEW c \in Cores, Instruction(c) PROVE Machine'
    BY <2>1, <2>3, <2>4, <2>5, <2>6, <2>7, <2>8 DEF Instruction, IntInstruction, Ipi, InKeyboard, StoreLow,
       StoreHigh
  <2>9. ASSUME NEW c \in Cores, EnterPending(c) \/ EnterInt(c) PROVE Machine'
    BY <2>1, <2>2, <2>9 DEF EnterPending, EnterInt, VectorLow
  <2>10. ASSUME NEW c \in Cores, Stop(c) \/ Handle(c) \/ Scan(c) \/ Take(c) PROVE Machine'
    BY <2>1, <2>10 DEF Stop, Handle, Scan, Take
  <2> QED
    BY <2>1, <2>8, <2>9, <2>10 DEF Next, Core, Device, Joined, machine, vars
<1>4. Vectors'
  <2>1. ASSUME UNCHANGED vectors PROVE Vectors'
    BY <1>1, <2>1 DEF vectors
  <2>2. ASSUME NEW c \in Cores, Core(c) PROVE Vectors'
    <3>1. CASE \E n \in Irqs, isr \in Isrs : StoreLow(n, isr)
      BY <1>1, <3>1 DEF StoreLow
    <3>2. CASE StoreHigh
      BY <1>1, <3>2, Zenon DEF StoreHigh
    <3>3. CASE Instruction(c)
      BY <2>1, <3>1, <3>2, <3>3 DEF Instruction, FetchPanic, Plain, Halt, IntInstruction, Iret, Ipi, StartAp,
         SetMask, InKeyboard
    <3>4. CASE ~Instruction(c)
      BY <2>1, <2>2, <3>4 DEF Core, Stop, Handle, Scan, Take, EnterPending, EnterInt, VectorLow, Vector
    <3> QED
      BY <3>3, <3>4
  <2> QED
    BY <2>1, <2>2 DEF Next, Device, Joined, vectors, vars
<1>5. Scans'
  <2>1. ASSUME NEW c \in Cores, NEW l \in Where, Goto(c, l), UNCHANGED scan PROVE Scans'
    BY <1>1, <2>1 DEF Goto, scan
  <2>2. ASSUME NEW c \in Cores, Instruction(c) PROVE Scans'
    <3>1. ASSUME NEW n \in Irqs, IntInstruction(c, n) PROVE Scans'
      BY <1>1, <3>1, Zenon DEF IntInstruction, Goto
    <3> QED
      BY <2>1, <2>2, <3>1, CoreFacts DEF Instruction, FetchPanic, Plain, Halt, Iret, Ipi, StartAp, SetMask,
         InKeyboard, StoreLow, StoreHigh, Step
  <2>3. ASSUME NEW c \in Cores, NextWord(c)
        PROVE  pc' \in [Cores -> Where] /\ w' \in [Cores -> Nat]
    <3>1. w' \in {w, [w EXCEPT ![c] = w[c] + 1]}
      BY <2>3 DEF NextWord
    <3>2. w[c] + 1 \in Nat
      BY <1>1
    <3>3. w' \in [Cores -> Nat]
      BY <1>1, <3>1, <3>2, Zenon
    <3>4. pc' = [pc EXCEPT ![c] = "scan"] \/ pc' = [pc EXCEPT ![c] = "exec"]
      BY <2>3 DEF NextWord, Goto
    <3> QED
      BY <1>1, <3>3, <3>4, Zenon
  <2>4. ASSUME NEW c \in Cores, Scan(c) PROVE Scans'
    <3>1. InWord(c, w[c]) \subseteq Irqs
      BY <1>1 DEF InWord
    <3>2. CASE InWord(c, w[c]) = {}
      BY <1>1, <2>3, <2>4, <3>2 DEF Scan
    <3>3. CASE InWord(c, w[c]) # {}
      <4>1. PICK n \in Irqs : int_no' = [int_no EXCEPT ![c] = n]
        BY <2>4, <3>1, <3>3 DEF Scan
      <4>2. /\ word' = [word EXCEPT ![c] = InWord(c, w[c])]
            /\ pc' = [pc EXCEPT ![c] = "take"]
            /\ UNCHANGED <<w, lo>>
        BY <2>4, <3>3 DEF Scan, Goto
      <4> QED
        BY <1>1, <3>1, <4>1, <4>2
    <3> QED
      BY <3>2, <3>3
  <2>5. ASSUME NEW c \in Cores, Take(c) PROVE Scans'
    <3>1. InWord(c, w[c]) \subseteq Irqs
      BY <1>1 DEF InWord
    <3>2. word' \in {[word EXCEPT ![c] = {}], [word EXCEPT ![c] = InWord(c, w[c])]} /\ UNCHANGED lo
      BY <2>5 DEF Take
    <3>3. int_no' \in {int_no, [int_no EXCEPT ![c] = Nothing]}
      BY <2>5 DEF Take
    <3>4. (UNCHANGED w /\ pc' \in {pc, [pc EXCEPT ![c] = "vector"]}) \/ NextWord(c)
      BY <2>5 DEF Take, Goto
    <3>5. pc' \in [Cores -> Where] /\ w' \in [Cores -> Nat]
      BY <1>1, <2>3, <3>4, Zenon
    <3>6. word' \in [Cores -> SUBSET Irqs]
      BY <1>1, <3>1, <3>2, Zenon
    <3> QED
      BY <1>1, <3>2, <3>3, <3>5, <3>6
  <2>6. ASSUME NEW c \in Cores, EnterPending(c) \/ EnterInt(c) PROVE Scans'
    <3>1. int_no[c] \in Irqs
      BY <2>6 DEF EnterPending, EnterInt, VectorLow, Vector, At, IInv, ScanInv
    <3>2. ASSUME NEW l, NEW after \in Where, VectorLow(c, l, after) PROVE Scans'
      BY <1>1, <3>1, <3>2 DEF VectorLow, Goto
    <3>3. ASSUME NEW l, NEW after \in Where, Vector(c, l, after) PROVE Scans'
      BY <1>1, <3>3 DEF Vector, Goto
    <3> QED
      BY <2>6, <3>2, <3>3 DEF EnterPending, EnterInt
  <2>7. ASSUME NEW c \in Cores, Stop(c) \/ Handle(c) PROVE Scans'
    <3>1. CASE Stop(c)
      BY <2>1, <3>1 DEF Stop
    <3>2. CASE Handle(c)
      <4>1. pc' = [pc EXCEPT ![c] = "scan"] \/ pc' = [pc EXCEPT ![c] = "exec"]
        BY <3>2, Zenon DEF Handle, Goto
      <4>2. w' = [w EXCEPT ![c] = 0] /\ UNCHANGED <<word, int_no, lo>>
        BY <3>2 DEF Handle
      <4> QED
        BY <1>1, <4>1, <4>2
    <3> QED
      BY <2>7, <3>1, <3>2
  <2>8. ASSUME UNCHANGED <<pc, scan>> PROVE Scans'
    BY <1>1, <2>8 DEF scan
  <2> QED
    BY <2>2, <2>4, <2>5, <2>6, <2>7, <2>8 DEF Next, Core, Device, Joined, scan, vars
<1> QED
  BY <1>2, <1>3, <1>4, <1>5 DEF TypeOK

\* Every step of every core and device keeps the inductive invariant.
LEMMA IInvStep == IInv /\ [Next]_vars => IInv'
<1> SUFFICES ASSUME IInv, [Next]_vars PROVE IInv'
  OBVIOUS
<1>1. CASE Next
  BY <1>1, TypeStep, ScanStep, FrameStep, VectorStep, OwedStep DEF IInv
<1>2. CASE UNCHANGED vars
  BY <1>2 DEF vars, IInv, TypeOK, ScanInv, FrameInv, VectorInv, NoLostInterrupt, InFlight
<1> QED
  BY <1>1, <1>2

\* The inductive invariant always holds.
LEMMA IInvCorrect == Spec => []IInv
BY InitHolds, IInvStep, PTL DEF Spec

----------------------------------------------------------------------------
\* What trigger_interrupt raises stays pending until vm_handle_interrupts
\* enters it, whatever is raised between its load and its compare-exchange.
THEOREM NothingIsLost == Spec => []NoLostInterrupt
<1>1. IInv => NoLostInterrupt
  BY DEF IInv
<1> QED
  BY <1>1, IInvCorrect, PTL

\* A core is in an ISR exactly while vm_enter_interrupt's one frame is on its
\* ISR stack.
THEOREM RoutinesDoNotNest == Spec => []NoNesting
<1>1. ASSUME IInv, NEW c \in Cores
      PROVE  Len(frames[c]) = IF c \in in_interrupt THEN 1 ELSE 0
  <2>1. CASE c \in in_interrupt
    <3>1. frames[c] = <<interrupted[c]>>
      BY <1>1, <2>1, Zenon DEF IInv, FrameInv
    <3> QED
      BY <2>1, <3>1
  <2>2. CASE c \notin in_interrupt
    <3>1. frames[c] = <<>>
      BY <1>1, <2>2, Zenon DEF IInv, FrameInv
    <3> QED
      BY <2>2, <3>1
  <2> QED
    BY <2>1, <2>2
<1>2. IInv => NoNesting
  BY <1>1 DEF NoNesting
<1> QED
  BY <1>2, IInvCorrect, PTL

\* vm_iret restores what the core was doing when the interrupt came, also when
\* STARTAP has moved the core in the meantime.
THEOREM IretResumes == Spec => ResumesInterrupted
<1>1. ASSUME IInv, [Next]_vars
      PROVE  \A c \in Cores : c \in in_interrupt /\ c \notin in_interrupt' => ctx'[c] = interrupted[c]
  <2>1. SUFFICES ASSUME NEW c \in Cores, c \in in_interrupt, c \notin in_interrupt'
                 PROVE  ctx'[c] = interrupted[c]
    OBVIOUS
  <2>2. PICK d \in Cores : Iret(d) /\ d \in in_interrupt
    <3>1. ASSUME NEW d \in Cores, NEW l, NEW after, Vector(d, l, after) PROVE FALSE
      BY <2>1, <3>1 DEF Vector, Enter
    <3>2. ASSUME NEW d \in Cores, Instruction(d) PROVE Iret(d) /\ d \in in_interrupt
      BY <2>1, <3>2 DEF Instruction, FetchPanic, Plain, Halt, IntInstruction, Iret, Ipi, StartAp, SetMask,
         InKeyboard, StoreLow, StoreHigh, machine
    <3>3. ASSUME NEW d \in Cores, ~Instruction(d), Core(d) PROVE FALSE
      BY <2>1, <3>1, <3>3 DEF Core, Stop, Handle, Scan, Take, EnterPending, EnterInt, VectorLow, machine
    <3> QED
      BY <1>1, <2>1, <3>2, <3>3 DEF Next, Device, Joined, machine, vars
  <2>3. ctx' = [ctx EXCEPT ![d] = interrupted[d]] /\ in_interrupt' = in_interrupt \ {d}
    BY <1>1, <2>2, IretFrame
  <2> QED
    BY <1>1, <2>1, <2>3 DEF IInv, TypeOK
<1> QED
  BY <1>1, IInvCorrect, PTL DEF Spec, ResumesInterrupted

\* The core that installs vectors jumps only to a routine that was installed,
\* although it takes interrupts between the two stores of ivt_write_entry.
THEOREM EntryIsInstalled == Spec => EntersIsr
<1>1. ASSUME IInv, [Next]_vars, BSP_CORE \notin in_interrupt, BSP_CORE \in in_interrupt'
      PROVE  ctx'[BSP_CORE].ip \in Isrs
  <2>1. PICK d \in Cores, l \in {"vector_hi", "int_hi"} :
          /\ pc[d] = l /\ Enter(d)
          /\ ~(lo[d] = Ones /\ ivt_hi[int_no[d]] = Ones)
    <3>1. ASSUME NEW d \in Cores, NEW l \in {"vector_hi", "int_hi"}, NEW after, Vector(d, l, after)
          PROVE  pc[d] = l /\ Enter(d) /\ ~(lo[d] = Ones /\ ivt_hi[int_no[d]] = Ones)
      BY <1>1, <3>1 DEF Vector, At
    <3>2. ASSUME NEW d \in Cores, Instruction(d) PROVE FALSE
      BY <1>1, <3>2 DEF Instruction, FetchPanic, Plain, Halt, IntInstruction, Iret, Ipi, StartAp, SetMask,
         InKeyboard, StoreLow, StoreHigh, machine
    <3>3. ASSUME NEW d \in Cores, Stop(d) \/ Handle(d) \/ Scan(d) \/ Take(d) PROVE FALSE
      BY <1>1, <3>3 DEF Stop, Handle, Scan, Take, machine
    <3> QED
      BY <1>1, <3>1, <3>2, <3>3 DEF Next, Core, Device, Joined, EnterPending, EnterInt, VectorLow, machine, vars
  <2>2. d \notin in_interrupt /\ int_no[d] \in Irqs
    BY <1>1, <2>1 DEF IInv, ScanInv
  <2>3. /\ ctx' = [ctx EXCEPT ![d] = Context(lo[d], int_no[d], ctx[d].rest)]
        /\ in_interrupt' = in_interrupt \cup {d}
    BY <1>1, <2>1, <2>2, EnterFrame
  <2>4. d = BSP_CORE
    BY <1>1, <2>3
  <2>5. lo[d] \in Isrs
    BY <1>1, <2>1, <2>2, <2>4 DEF IInv, VectorInv, TypeOK
  <2> QED
    BY <1>1, <2>3, <2>4, <2>5 DEF Context, IInv, TypeOK
<1> QED
  BY <1>1, IInvCorrect, PTL DEF Spec, EntersIsr
----------------------------------------------------------------------------
(* The calls that wait. *)

Calls ==
  [pc : {"idle", "scan", "retest", "wait", "sleep", "parked", "reap", "back", "nap"},
   kind : {"none", "poll", "select", "waitpid", "nanosleep"}, ctx : {"none"} \cup Contexts,
   fds : SUBSET Descriptors, ms : Int, ns : Nat, start : 0 .. TickMod - 1,
   remaining : Int, wraps : {0, 1}]

PollType ==
  /\ g_ticks \in 0 .. TickMod - 1 /\ wake_tick \in 0 .. TickMod - 1
  /\ g_rx_waitq \in {0, 1} /\ sleeping \in {0, 1}
  /\ passed \in 0 .. TickMod
  /\ p \in Calls

\* The result in the mailbox is the task's own from its call to its return.
MailboxInv == IF p.pc = "back" THEN mailbox = own ELSE got = own

\* Where a task can be asleep, and where nothing has passed
Polling == {"scan", "retest", "wait", "sleep", "parked"}
AsleepInv ==
  /\ g_rx_waitq = 1 => p.pc = "parked"
  /\ sleeping = 1 => p.pc = "parked" \/ p.kind = "nanosleep"
  /\ p.kind = "nanosleep" => p.pc \in {"back", "nap"}
  /\ p.pc = "nap" => p.kind = "nanosleep"
  /\ p.pc = "idle" \/ (p.pc = "back" /\ p.kind # "nanosleep") => passed = 0

\* A poll or select measures the time that has passed, as long as the counter
\* of ticks has not come round.
ElapsedInv == p.pc \in Polling => passed = TickMod \/ passed = Elapsed

\* n ticks are enough for the nanosleep in progress.
Enough(n) == n * TickUs * NS_PER_US >= AtMost(p.ns, UsMax * NS_PER_US)

\* What has passed of it and what is left make up the time asked for.
NapInv ==
  p.kind = "nanosleep" /\ p.wraps = 0 =>
    IF sleeping = 1 THEN /\ passed <= g_ticks /\ g_ticks < wake_tick
                         /\ Enough(passed + wake_tick - g_ticks)
                    ELSE Enough(passed)

PollInv == PollType /\ MailboxInv /\ AsleepInv /\ ElapsedInv /\ NapInv

\* div_ceil_u32 rounds up.
LEMMA CeilCovers ==
  ASSUME NEW n \in Nat, NEW d \in Nat \ {0}
  PROVE  DivCeil(n, d) \in Nat /\ DivCeil(n, d) * d >= n
<1> DEFINE q == n \div d
           m == n % d
<1>1. q \in Nat /\ m \in 0 .. d - 1 /\ n = d * q + m
  OBVIOUS
<1>2. DivCeil(n, d) = q + IF m # 0 THEN 1 ELSE 0
  BY DEF DivCeil
<1> HIDE DEF q, m
<1>3. CASE m = 0
  BY <1>1, <1>2, <1>3
<1>4. CASE m # 0
  <2>1. DivCeil(n, d) = q + 1
    BY <1>2, <1>4
  <2>2. (q + 1) * d = d * q + d
    BY <1>1
  <2> QED
    BY <1>1, <2>1, <2>2
<1> QED
  BY <1>3, <1>4

\* Products of larger factors are larger.
LEMMA Grows ==
  ASSUME NEW a \in Nat, NEW b \in Nat, NEW c \in Nat, a >= b
  PROVE  a * c >= b * c /\ a * c \in Nat /\ b * c \in Nat
<1>1. PICK k \in Nat : a = b + k
  <2>1. a - b \in Nat /\ a = b + (a - b)
    OBVIOUS
  <2> QED
    BY <2>1
<1>2. a * c = b * c + k * c
  BY <1>1
<1>3. k * c \in Nat /\ b * c \in Nat
  OBVIOUS
<1> QED
  BY <1>2, <1>3

\* The timeout of poll and select is not shorter than the time asked for.
LEMMA TimeoutCovers ==
  ASSUME NEW ms \in Int, ms > 0
  PROVE  /\ TimeoutTicks(ms) \in Nat
         /\ TimeoutTicks(ms) * TickUs >= AtMost(ms * NS_PER_US, UsMax)
<1> DEFINE x == IF ms > UsMax \div NS_PER_US THEN UsMax ELSE ms * NS_PER_US
<1>0. TickUs \in Nat \ {0} /\ UsMax \in Nat /\ NS_PER_US \in Nat \ {0}
  BY PollAssumption
<1>1. ms * NS_PER_US \in Nat
  BY <1>0
<1>2. x \in Nat
  BY <1>0, <1>1
<1>3. TimeoutTicks(ms) = DivCeil(x, TickUs)
  BY DEF TimeoutTicks
<1>4. x >= AtMost(ms * NS_PER_US, UsMax) /\ AtMost(ms * NS_PER_US, UsMax) \in Nat
  BY <1>0, <1>1 DEF AtMost
<1> HIDE DEF x
<1>5. DivCeil(x, TickUs) \in Nat /\ DivCeil(x, TickUs) * TickUs >= x
  BY <1>0, <1>2, CeilCovers
<1> DEFINE y == DivCeil(x, TickUs) * TickUs
<1>6. y \in Nat
  BY <1>0, <1>5
<1> HIDE DEF y
<1>7. y >= AtMost(ms * NS_PER_US, UsMax)
  BY <1>2, <1>4, <1>5, <1>6 DEF y
<1> QED
  BY <1>3, <1>5, <1>7 DEF y

\* Nor is that of nanosleep, and it is at least one tick.
LEMMA NanosleepCovers ==
  ASSUME NEW sec \in Nat, NEW nsec \in Nat
  PROVE  LET ns == (sec * US_PER_SEC * NS_PER_US) + nsec
         IN  /\ ns \in Nat /\ NanosleepTicks(sec, nsec) \in Nat \ {0}
             /\ NanosleepTicks(sec, nsec) * TickUs * NS_PER_US >= AtMost(ns, UsMax * NS_PER_US)
<1> DEFINE ns == (sec * US_PER_SEC * NS_PER_US) + nsec
           up == DivCeil(nsec, NS_PER_US)
           us == sec * US_PER_SEC + up
           total == TotalUs(sec, nsec)
           ceil == DivCeil(total, TickUs)
           ticks == NanosleepTicks(sec, nsec)
<1>0. /\ TickUs \in Nat \ {0} /\ UsMax \in Nat
      /\ NS_PER_US \in Nat \ {0} /\ US_PER_SEC \in Nat \ {0}
  BY PollAssumption
<1>1. up \in Nat /\ up * NS_PER_US >= nsec
  BY <1>0, CeilCovers
<1>2. sec * US_PER_SEC \in Nat
  BY <1>0
<1> HIDE DEF up
<1>3. us \in Nat
  BY <1>1, <1>2
<1>4. us * NS_PER_US >= ns /\ ns \in Nat /\ us * NS_PER_US \in Nat
  <2> DEFINE a == sec * US_PER_SEC
  <2>1. a \in Nat /\ us = a + up /\ ns = a * NS_PER_US + nsec
    BY <1>2
  <2> HIDE DEF a, us, ns
  <2>2. us * NS_PER_US = a * NS_PER_US + up * NS_PER_US
    BY <1>0, <1>1, <2>1
  <2>3. a * NS_PER_US \in Nat /\ up * NS_PER_US \in Nat
    BY <1>0, <1>1, <2>1
  <2> QED
    BY <1>1, <2>1, <2>2, <2>3
<1>5. total \in {us, UsMax}
  BY DEF TotalUs, up
<1> HIDE DEF ns, us, total
<1>6. total \in Nat
  BY <1>0, <1>3, <1>5
<1>7. total * NS_PER_US >= AtMost(ns, UsMax * NS_PER_US) /\ total * NS_PER_US \in Nat
  <2>1. UsMax * NS_PER_US \in Nat
    BY <1>0
  <2> QED
    BY <1>4, <1>5, <2>1 DEF AtMost
<1>8. ceil \in Nat /\ ceil * TickUs >= total
  BY <1>0, <1>6, CeilCovers
<1>9. ticks = IF ceil = 0 THEN 1 ELSE ceil
  BY DEF NanosleepTicks, total
<1> HIDE DEF ceil, ticks
<1>10. ticks \in Nat \ {0} /\ ticks >= ceil
  BY <1>8, <1>9
<1>11. ticks * TickUs >= ceil * TickUs /\ ticks * TickUs \in Nat /\ ceil * TickUs \in Nat
  BY <1>0, <1>8, <1>10, Grows
<1>12. ticks * TickUs >= total
  BY <1>6, <1>8, <1>11
<1>13. ticks * TickUs * NS_PER_US >= total * NS_PER_US /\ ticks * TickUs * NS_PER_US \in Nat
  BY <1>0, <1>6, <1>11, <1>12, Grows
<1>14. AtMost(ns, UsMax * NS_PER_US) \in Nat
  BY <1>0, <1>4 DEF AtMost
<1>15. ticks * TickUs * NS_PER_US >= AtMost(ns, UsMax * NS_PER_US)
  BY <1>7, <1>13, <1>14
<1> QED
  BY <1>4, <1>10, <1>15 DEF ns, ticks

\* The numbers that are never changed
LEMMA PollFacts ==
  /\ TickMod \in Nat \ {0, 1} /\ 0 \in 0 .. TickMod - 1 /\ 0 \in 0 .. TickMod
  /\ \A n \in Int : n % TickMod \in 0 .. TickMod - 1
  /\ TickUs \in Nat \ {0} /\ NS_PER_US \in Nat \ {0} /\ UsMax \in Nat
BY PollAssumption

\* More ticks are enough too.
LEMMA EnoughGrows ==
  ASSUME PollType, NEW n \in Nat, NEW m \in Nat, m >= n, Enough(n)
  PROVE  Enough(m)
<1>1. m * TickUs >= n * TickUs /\ m * TickUs \in Nat /\ n * TickUs \in Nat
  BY PollFacts, Grows
<1>2. /\ m * TickUs * NS_PER_US >= n * TickUs * NS_PER_US
      /\ m * TickUs * NS_PER_US \in Nat /\ n * TickUs * NS_PER_US \in Nat
  BY <1>1, PollFacts, Grows
<1>3. AtMost(p.ns, UsMax * NS_PER_US) \in Int
  <2>1. p.ns \in Nat /\ UsMax * NS_PER_US \in Nat
    BY PollFacts DEF PollType, Calls
  <2> QED
    BY <2>1 DEF AtMost
<1> QED
  BY <1>2, <1>3 DEF Enough

\* The locals of a call as it begins, and without one
LEMMA NewCall ==
  ASSUME NEW place \in {"idle", "scan", "retest", "wait", "sleep", "parked", "reap", "back", "nap"},
         NEW kind \in {"none", "poll", "select", "waitpid", "nanosleep"},
         NEW cx \in {"none"} \cup Contexts, NEW fds \in SUBSET Descriptors, NEW ms \in Int,
         NEW ns \in Nat, NEW start \in 0 .. TickMod - 1, NEW wraps \in {0, 1}
  PROVE  [pc |-> place, kind |-> kind, ctx |-> cx, fds |-> fds, ms |-> ms, ns |-> ns,
          start |-> start, remaining |-> 0, wraps |-> wraps] \in Calls
BY DEF Calls

LEMMA IdleCall ==
  /\ Idle \in Calls /\ Idle.pc = "idle" /\ Idle.kind = "none"
  /\ [Idle EXCEPT !.pc = "back"] \in Calls
<1>0. /\ 0 \in 0 .. TickMod - 1 /\ "none" \in {"none"} \cup Contexts /\ {} \in SUBSET Descriptors
      /\ 0 \in Int /\ 0 \in Nat /\ 0 \in {0, 1}
  BY PollFacts
<1>1. Idle \in Calls
  BY <1>0, NewCall, Zenon DEF Idle
<1> DEFINE back == [pc |-> "back", kind |-> "none", ctx |-> "none", fds |-> {},
                    ms |-> 0, ns |-> 0, start |-> 0, remaining |-> 0, wraps |-> 0]
<1>2. back \in Calls
  BY <1>0, NewCall, Zenon
<1>3. [Idle EXCEPT !.pc = "back"] = back
  BY DEF Idle
<1> HIDE DEF back
<1>4. [Idle EXCEPT !.pc = "back"] \in Calls
  BY <1>2, <1>3
<1> QED
  BY <1>1, <1>4 DEF Idle

LEMMA PollInitially == PollInit => PollInv
<1> SUFFICES ASSUME PollInit PROVE PollInv
  OBVIOUS
<1>1. PollType
  BY PollFacts, IdleCall DEF PollInit, PollType
<1>2. p.pc = "idle" /\ p.kind = "none"
  BY DEF PollInit, Idle
<1>3. MailboxInv /\ AsleepInv /\ ElapsedInv /\ NapInv
  BY <1>2 DEF PollInit, MailboxInv, AsleepInv, ElapsedInv, NapInv, Polling
<1> QED
  BY <1>1, <1>3 DEF PollInv

\* A call that finishes leaves its result in the mailbox.
LEMMA FinishStep ==
  ASSUME PollInv, NEW r, Finish(r), UNCHANGED <<g_ticks, wake_tick, g_rx_waitq, sleeping>>,
         p.pc \notin {"parked", "back", "nap"}
  PROVE  PollInv'
<1> USE DEF PollInv
<1>1. p' = [Idle EXCEPT !.pc = "back"] /\ mailbox' = r /\ own' = r /\ passed' = 0
  BY DEF Finish, PublishResult
<1>2. p'.pc = "back" /\ p'.kind = "none" /\ p' \in Calls
  BY <1>1, IdleCall DEF Idle
<1>3. g_rx_waitq = 0 /\ sleeping = 0
  BY DEF AsleepInv, PollType
<1>4. PollType'
  BY <1>1, <1>2, PollFacts DEF PollType
<1>5. MailboxInv'
  BY <1>1, <1>2 DEF MailboxInv
<1>6. AsleepInv' /\ ElapsedInv' /\ NapInv'
  BY <1>1, <1>2, <1>3 DEF AsleepInv, ElapsedInv, NapInv, Polling
<1> QED
  BY <1>4, <1>5, <1>6

\* A step within a call changes neither the clock nor the mailbox.
LEMMA WithinStep ==
  ASSUME PollInv, UNCHANGED <<g_ticks, passed, mailbox, got, own>>,
         p' \in Calls, wake_tick' \in 0 .. TickMod - 1,
         g_rx_waitq' \in {0, 1}, sleeping' \in {0, 1},
         p.pc \in Polling, p'.pc \in Polling, p'.kind = p.kind, p'.start = p.start,
         g_rx_waitq' = 1 \/ sleeping' = 1 => p'.pc = "parked"
  PROVE  PollInv'
<1> USE DEF PollInv
<1>1. PollType'
  BY DEF PollType
<1>2. p.pc # "back" /\ p'.pc \notin {"back", "idle", "nap"}
  BY DEF Polling
<1>3. MailboxInv'
  BY <1>2 DEF MailboxInv
<1>4. p.kind # "nanosleep"
  BY DEF AsleepInv, Polling
<1>5. AsleepInv' /\ NapInv'
  BY <1>2, <1>4 DEF AsleepInv, NapInv
<1>6. Elapsed' = Elapsed
  BY DEF Elapsed
<1>7. ElapsedInv'
  BY <1>6 DEF ElapsedInv
<1> QED
  BY <1>1, <1>3, <1>5, <1>7

\* poll and select
LEMMA PollingStep ==
  ASSUME PollInv, ScanFds \/ Retest \/ Wait \/ Sleep \/ Resume
  PROVE  PollInv'
<1> USE DEF PollInv
<1>0. /\ p \in Calls /\ g_ticks \in Int /\ p.start \in Int /\ p.ms \in Int /\ p.remaining \in Int
      /\ g_rx_waitq \in {0, 1} /\ sleeping \in {0, 1} /\ wake_tick \in 0 .. TickMod - 1
      /\ 0 \in Int
  BY PollFacts DEF PollType, Calls
<1>1. CASE ScanFds
  <2>0. p.pc = "scan" /\ UNCHANGED <<g_ticks, wake_tick, g_rx_waitq, sleeping>>
    BY <1>1 DEF ScanFds, console, asleep
  <2>1. CASE \E r : Finish(r)
    BY <2>0, <2>1, FinishStep
  <2>2. CASE ~\E r : Finish(r)
    <3> DEFINE rem == IF p.ms > 0 THEN TimeoutTicks(p.ms) - Elapsed ELSE 0
               at == IF "console" \in p.fds THEN "retest" ELSE "sleep"
    <3>1. p' = [p EXCEPT !.pc = at, !.remaining = rem] /\ UNCHANGED <<results, lag, passed>>
      BY <1>1, <2>2 DEF ScanFds
    <3>2. rem \in Int
      <4>1. Elapsed \in Int
        BY <1>0, PollFacts DEF Elapsed
      <4>2. p.ms > 0 => TimeoutTicks(p.ms) \in Int
        BY <1>0, TimeoutCovers
      <4> QED
        BY <1>0, <4>1, <4>2
    <3>3. at \in {"retest", "sleep"}
      OBVIOUS
    <3> HIDE DEF rem, at
    <3>4. p' \in Calls /\ p'.pc = at /\ p'.kind = p.kind /\ p'.start = p.start
      BY <1>0, <3>1, <3>2, <3>3, Zenon DEF Calls
    <3>5. g_rx_waitq = 0 /\ sleeping = 0
      BY <1>0, <2>0 DEF AsleepInv
    <3>6. p.pc \in Polling /\ p'.pc \in Polling
      BY <2>0, <3>3, <3>4 DEF Polling
    <3> QED
      BY <1>0, <2>0, <3>1, <3>4, <3>5, <3>6, WithinStep DEF results
  <2> QED
    BY <2>1, <2>2
<1>2. CASE Retest
  <2>1. /\ p.pc = "retest" /\ p' = [p EXCEPT !.pc = IF readable = 1 THEN "scan" ELSE "wait"]
        /\ UNCHANGED <<g_ticks, passed, mailbox, got, own, wake_tick, g_rx_waitq, sleeping>>
    BY <1>2 DEF Retest, clock, console, asleep, results
  <2>2. p' \in Calls /\ p'.pc \in {"scan", "wait"} /\ p'.kind = p.kind /\ p'.start = p.start
    BY <1>0, <2>1 DEF Calls
  <2>3. g_rx_waitq = 0 /\ sleeping = 0
    BY <1>0, <2>1 DEF AsleepInv
  <2>4. p.pc \in Polling /\ p'.pc \in Polling
    BY <2>1, <2>2 DEF Polling
  <2> QED
    BY <1>0, <2>1, <2>2, <2>3, <2>4, WithinStep
<1>3. CASE Wait
  <2>1. /\ p.pc = "wait" /\ p' = [p EXCEPT !.pc = "parked", !.remaining = 0]
        /\ g_rx_waitq' = 1 /\ wake_tick' = RxDeadline(p.remaining)
        /\ UNCHANGED <<g_ticks, passed, mailbox, got, own, sleeping>>
    BY <1>3 DEF Wait, results
  <2>2. p' \in Calls /\ p'.pc = "parked" /\ p'.kind = p.kind /\ p'.start = p.start
    BY <1>0, <2>1, Zenon DEF Calls
  <2>3. wake_tick' \in 0 .. TickMod - 1
    <3>1. g_ticks + p.remaining \in Int
      BY <1>0
    <3>2. (g_ticks + p.remaining) % TickMod \in 0 .. TickMod - 1
      BY <3>1, PollFacts
    <3> QED
      BY <2>1, <3>2, PollFacts DEF RxDeadline
  <2>4. p.pc \in Polling /\ p'.pc \in Polling
    BY <2>1, <2>2 DEF Polling
  <2> QED
    BY <1>0, <2>1, <2>2, <2>3, <2>4, WithinStep
<1>4. CASE Sleep
  <2> DEFINE n == IF p.ms < 0 THEN 1 ELSE p.remaining
  <2>1. /\ p.pc = "sleep" /\ p' = [p EXCEPT !.pc = "parked", !.remaining = 0]
        /\ sleeping' = 1 /\ wake_tick' = SleepDeadline(n)
        /\ UNCHANGED <<g_ticks, passed, mailbox, got, own, g_rx_waitq>>
    BY <1>4 DEF Sleep, results, console
  <2>2. p' \in Calls /\ p'.pc = "parked" /\ p'.kind = p.kind /\ p'.start = p.start
    BY <1>0, <2>1, Zenon DEF Calls
  <2>3. wake_tick' \in 0 .. TickMod - 1
    <3>1. g_ticks + (IF n = 0 THEN 1 ELSE n) \in Int
      BY <1>0
    <3>2. (g_ticks + IF n = 0 THEN 1 ELSE n) % TickMod \in 0 .. TickMod - 1
      BY <3>1, PollFacts
    <3> QED
      BY <2>1, <3>2 DEF SleepDeadline
  <2>4. p.pc \in Polling /\ p'.pc \in Polling
    BY <2>1, <2>2 DEF Polling
  <2> QED
    BY <1>0, <2>1, <2>2, <2>3, <2>4, WithinStep
<1>5. CASE Resume
  <2>1. /\ p.pc = "parked" /\ ~Asleep /\ p' = [p EXCEPT !.pc = "scan"]
        /\ UNCHANGED <<g_ticks, passed, mailbox, got, own, wake_tick, g_rx_waitq, sleeping>>
    BY <1>5 DEF Resume, clock, console, asleep, results
  <2>2. p' \in Calls /\ p'.pc = "scan" /\ p'.kind = p.kind /\ p'.start = p.start
    BY <1>0, <2>1 DEF Calls
  <2>3. p.pc \in Polling /\ p'.pc \in Polling
    BY <2>1, <2>2 DEF Polling
  <2> QED
    BY <1>0, <2>1, <2>2, <2>3, WithinStep DEF Asleep
<1> QED
  BY <1>1, <1>2, <1>3, <1>4, <1>5

\* The beginning and the end of the other calls
LEMMA CallingStep ==
  ASSUME PollInv,
         \/ \E kind \in {"poll", "select"}, fds \in Watched, ms \in Millis, cx \in Contexts :
              PollOrSelect(kind, fds, ms, cx)
         \/ \E ms \in {-1, 0}, cx \in Contexts : Waitpid(ms, cx)
         \/ Reap \/ Back \/ Nap \/ Reject
  PROVE  PollInv'
<1> USE DEF PollInv
<1>0. /\ p \in Calls /\ g_ticks \in 0 .. TickMod - 1
      /\ g_rx_waitq \in {0, 1} /\ sleeping \in {0, 1} /\ wake_tick \in 0 .. TickMod - 1
  BY DEF PollType
<1>1. CASE \E kind \in {"poll", "select"}, fds \in Watched, ms \in Millis, cx \in Contexts :
              PollOrSelect(kind, fds, ms, cx)
  <2>0. PICK kind \in {"poll", "select"}, fds \in Watched, ms \in Millis, cx \in Contexts :
               PollOrSelect(kind, fds, ms, cx)
    BY <1>1
  <2>1. /\ p.pc = "idle"
        /\ p' = [Idle EXCEPT !.pc = "scan", !.kind = kind, !.ctx = cx, !.fds = fds, !.ms = ms,
                             !.start = g_ticks]
        /\ UNCHANGED <<g_ticks, passed, mailbox, got, own, wake_tick, g_rx_waitq, sleeping>>
    BY <2>0 DEF PollOrSelect, clock, console, asleep, results
  <2>2. fds \in SUBSET Descriptors /\ ms \in Int
    BY PollAssumption
  <2>3. p' \in Calls /\ p'.pc = "scan" /\ p'.kind = kind /\ p'.start = g_ticks
    <3>1. p' = [pc |-> "scan", kind |-> kind, ctx |-> cx, fds |-> fds, ms |-> ms, ns |-> 0,
                start |-> g_ticks, remaining |-> 0, wraps |-> 0]
      BY <2>1, Zenon DEF Idle
    <3>2. p' \in Calls
      BY <1>0, <2>2, <3>1, NewCall
    <3> QED
      BY <3>1, <3>2
  <2>4. PollType'
    BY <2>1, <2>3 DEF PollType
  <2>5. passed = 0 /\ g_rx_waitq = 0 /\ sleeping = 0
    BY <1>0, <2>1 DEF AsleepInv, Calls
  <2>6. Elapsed' = 0
    <3>1. g_ticks - g_ticks = 0 /\ 0 % TickMod = 0
      BY <1>0, PollFacts
    <3> QED
      BY <2>1, <2>3, <3>1 DEF Elapsed
  <2>7. MailboxInv' /\ AsleepInv' /\ ElapsedInv' /\ NapInv'
    BY <2>1, <2>3, <2>5, <2>6 DEF MailboxInv, AsleepInv, ElapsedInv, NapInv
  <2> QED
    BY <2>4, <2>7
<1>2. CASE \E ms \in {-1, 0}, cx \in Contexts : Waitpid(ms, cx)
  <2>0. PICK ms \in {-1, 0}, cx \in Contexts : Waitpid(ms, cx)
    BY <1>2
  <2>1. /\ p.pc = "idle"
        /\ p' = [Idle EXCEPT !.pc = "reap", !.kind = "waitpid", !.ctx = cx, !.ms = ms]
        /\ UNCHANGED <<g_ticks, passed, mailbox, got, own, wake_tick, g_rx_waitq, sleeping>>
    BY <2>0 DEF Waitpid, clock, console, asleep, results
  <2>2. p' \in Calls /\ p'.pc = "reap" /\ p'.kind = "waitpid"
    <3>1. p' = [pc |-> "reap", kind |-> "waitpid", ctx |-> cx, fds |-> {}, ms |-> ms, ns |-> 0,
                start |-> 0, remaining |-> 0, wraps |-> 0]
      BY <2>1, Zenon DEF Idle
    <3>2. ms \in Int /\ 0 \in 0 .. TickMod - 1 /\ {} \in SUBSET Descriptors
      BY PollFacts
    <3>3. p' \in Calls
      BY <3>1, <3>2, NewCall
    <3> QED
      BY <3>1, <3>3
  <2>3. PollType'
    BY <2>1, <2>2 DEF PollType
  <2>4. g_rx_waitq = 0 /\ sleeping = 0
    BY <1>0, <2>1 DEF AsleepInv
  <2>5. MailboxInv' /\ AsleepInv' /\ ElapsedInv' /\ NapInv'
    BY <2>1, <2>2, <2>4 DEF MailboxInv, AsleepInv, ElapsedInv, NapInv, Polling
  <2> QED
    BY <2>3, <2>5
<1>3. CASE Reap
  <2>1. p.pc = "reap" /\ UNCHANGED <<g_ticks, wake_tick, g_rx_waitq, sleeping>>
    BY <1>3 DEF Reap, console, asleep
  <2>2. CASE \E r : Finish(r)
    BY <2>1, <2>2, FinishStep
  <2>3. CASE ~\E r : Finish(r)
    <3>1. UNCHANGED <<p, mailbox, got, own, passed>>
      BY <1>3, <2>3 DEF Reap, results
    <3>2. p.kind # "nanosleep"
      BY <2>1 DEF AsleepInv
    <3> QED
      BY <2>1, <3>1, <3>2 DEF PollType, MailboxInv, AsleepInv, ElapsedInv, NapInv, Polling
  <2> QED
    BY <2>2, <2>3
<1>4. CASE Back
  <2>1. /\ p.pc = "back" /\ got' = mailbox
        /\ p' = IF p.kind = "nanosleep" THEN [p EXCEPT !.pc = "nap"] ELSE Idle
        /\ UNCHANGED <<g_ticks, passed, wake_tick, g_rx_waitq, sleeping, mailbox, own>>
    BY <1>4 DEF Back, console, asleep
  <2>2. got' = own'
    BY <2>1 DEF MailboxInv
  <2>3. CASE p.kind = "nanosleep"
    <3>1. p' \in Calls /\ p'.pc = "nap" /\ p'.kind = "nanosleep" /\ p'.wraps = p.wraps /\ p'.ns = p.ns
      BY <1>0, <2>1, <2>3 DEF Calls
    <3>2. PollType' /\ MailboxInv' /\ AsleepInv' /\ ElapsedInv'
      BY <2>1, <2>2, <2>3, <3>1 DEF PollType, MailboxInv, AsleepInv, ElapsedInv, Polling
    <3>3. NapInv'
      BY <2>1, <2>3, <3>1 DEF NapInv, Enough
    <3> QED
      BY <3>2, <3>3
  <2>4. CASE p.kind # "nanosleep"
    <3>1. p' \in Calls /\ p'.pc = "idle" /\ p'.kind = "none"
      BY <2>1, <2>4, IdleCall
    <3>2. passed = 0
      BY <2>1, <2>4 DEF AsleepInv
    <3> QED
      BY <2>1, <2>2, <2>4, <3>1, <3>2
         DEF PollType, MailboxInv, AsleepInv, ElapsedInv, NapInv, Polling
  <2> QED
    BY <2>3, <2>4
<1>5. CASE Nap
  <2>1. /\ p.pc = "nap" /\ ~Asleep /\ p' = Idle /\ passed' = 0
        /\ UNCHANGED <<g_ticks, wake_tick, g_rx_waitq, sleeping, mailbox, got, own>>
    BY <1>5 DEF Nap, console, asleep, results
  <2>2. p' \in Calls /\ p'.pc = "idle" /\ p'.kind = "none"
    BY <2>1, IdleCall
  <2>3. PollType'
    BY <2>1, <2>2, PollFacts DEF PollType
  <2> QED
    BY <2>1, <2>2, <2>3 DEF MailboxInv, AsleepInv, ElapsedInv, NapInv, Polling, Asleep
<1>6. CASE Reject
  <2>1. p.pc = "idle" /\ Finish("error") /\ UNCHANGED <<g_ticks, wake_tick, g_rx_waitq, sleeping>>
    BY <1>6 DEF Reject, console, asleep
  <2> QED
    BY <2>1, FinishStep
<1> QED
  BY <1>1, <1>2, <1>3, <1>4, <1>5, <1>6

\* SYS_NANOSLEEP: the deadline leaves as many ticks as the time needs.
LEMMA NanosleepStep ==
  ASSUME PollInv, NEW sec \in Seconds, NEW nsec \in Nanos, Nanosleep(sec, nsec)
  PROVE  PollInv'
<1> USE DEF PollInv
<1> DEFINE ticks == NanosleepTicks(sec, nsec)
           ns == (sec * US_PER_SEC * NS_PER_US) + nsec
           wraps == IF g_ticks + ticks < TickMod THEN 0 ELSE 1
<1>0. /\ p \in Calls /\ g_ticks \in 0 .. TickMod - 1 /\ p.pc = "idle" /\ passed = 0
      /\ g_rx_waitq = 0 /\ sleeping = 0 /\ UNCHANGED <<g_ticks, g_rx_waitq>>
  BY DEF PollType, Nanosleep, AsleepInv, console
<1>1. CASE sec = 0 /\ nsec = 0
  <2>1. Finish("nothing") /\ UNCHANGED <<wake_tick, sleeping>>
    BY <1>1 DEF Nanosleep, asleep
  <2> QED
    BY <1>0, <2>1, FinishStep
<1>2. CASE ~(sec = 0 /\ nsec = 0)
  <2>1. /\ sleeping' = 1 /\ wake_tick' = SleepDeadline(ticks)
        /\ p' = [Idle EXCEPT !.pc = "back", !.kind = "nanosleep", !.ns = ns, !.wraps = wraps]
        /\ mailbox' = "nothing" /\ own' = "nothing" /\ UNCHANGED passed
    BY <1>2 DEF Nanosleep, PublishResult
  <2>2. sec \in Nat /\ nsec \in Nat
    BY PollAssumption
  <2>3. /\ ns \in Nat /\ ticks \in Nat \ {0}
        /\ ticks * TickUs * NS_PER_US >= AtMost(ns, UsMax * NS_PER_US)
    BY <2>2, NanosleepCovers
  <2>4. wraps \in {0, 1}
    OBVIOUS
  <2>5. wraps = 0 => g_ticks + ticks < TickMod
    OBVIOUS
  <2> HIDE DEF ticks, ns, wraps
  <2>6. wake_tick' = (g_ticks + ticks) % TickMod
    BY <2>1, <2>3 DEF SleepDeadline
  <2>7. wake_tick' \in 0 .. TickMod - 1
    BY <1>0, <2>3, <2>6, PollFacts
  <2>8. /\ p' \in Calls /\ p'.pc = "back" /\ p'.kind = "nanosleep"
        /\ p'.ns = ns /\ p'.wraps = wraps
    <3>1. p' = [pc |-> "back", kind |-> "nanosleep", ctx |-> "none", fds |-> {}, ms |-> 0,
                ns |-> ns, start |-> 0, remaining |-> 0, wraps |-> wraps]
      BY <2>1, Zenon DEF Idle
    <3>2. /\ "none" \in {"none"} \cup Contexts /\ {} \in SUBSET Descriptors
          /\ 0 \in Int /\ 0 \in 0 .. TickMod - 1
      BY PollFacts
    <3>3. p' \in Calls
      BY <2>3, <2>4, <3>1, <3>2, NewCall, Zenon
    <3> QED
      BY <3>1, <3>3
  <2>9. PollType'
    BY <1>0, <2>1, <2>7, <2>8, PollFacts DEF PollType
  <2>10. MailboxInv' /\ AsleepInv' /\ ElapsedInv'
    BY <1>0, <2>1, <2>8 DEF MailboxInv, AsleepInv, ElapsedInv, Polling
  <2>11. ASSUME wraps = 0
         PROVE  /\ passed' <= g_ticks' /\ g_ticks' < wake_tick'
                /\ Enough(passed + wake_tick - g_ticks)'
    <3>1. wake_tick' = g_ticks + ticks
      <4>1. TickMod \in Nat \ {0, 1} /\ g_ticks + ticks \in 0 .. TickMod - 1
        BY <1>0, <2>3, <2>5, <2>11, PollFacts
      <4> QED
        BY <2>6, <4>1
    <3>2. passed' + wake_tick' - g_ticks' = ticks
      BY <1>0, <2>1, <2>3, <3>1
    <3>3. Enough(passed + wake_tick - g_ticks)'
      BY <2>3, <2>8, <3>2 DEF Enough
    <3> QED
      BY <1>0, <2>1, <2>3, <3>1, <3>3
  <2>12. NapInv'
    BY <2>1, <2>8, <2>11 DEF NapInv
  <2> QED
    BY <2>9, <2>10, <2>12
<1> QED
  BY <1>1, <1>2

\* A tick counts for the call, and for the time that it measures.
LEMMA TickStep ==
  ASSUME PollInv, Tick
  PROVE  PollInv'
<1> USE DEF PollInv
<1>0. /\ p \in Calls /\ g_ticks \in 0 .. TickMod - 1 /\ p.start \in 0 .. TickMod - 1
      /\ passed \in 0 .. TickMod /\ wake_tick \in 0 .. TickMod - 1
      /\ g_rx_waitq \in {0, 1} /\ sleeping \in {0, 1} /\ TickMod \in Nat \ {0, 1}
  BY PollFacts DEF PollType, Calls
<1> DEFINE wakes == Asleep /\ wake_tick # 0 /\ wake_tick <= g_ticks'
<1>t. g_ticks' = (g_ticks + 1) % TickMod
  BY DEF Tick
<1>1. /\ UNCHANGED <<p, mailbox, got, own>>
      /\ wakes => wake_tick' = 0 /\ g_rx_waitq' = 0 /\ sleeping' = 0
      /\ ~wakes => UNCHANGED <<wake_tick, g_rx_waitq, sleeping>>
      /\ passed' = IF Counts /\ passed < TickMod THEN passed + 1 ELSE passed
  BY DEF Tick, results
<1>2. g_ticks' = IF g_ticks = TickMod - 1 THEN 0 ELSE g_ticks + 1
  <2>1. CASE g_ticks = TickMod - 1
    <3>1. g_ticks + 1 = TickMod /\ TickMod % TickMod = 0
      BY <1>0, <2>1
    <3> QED
      BY <1>t, <2>1, <3>1
  <2>2. CASE g_ticks # TickMod - 1
    <3>1. g_ticks + 1 \in 0 .. TickMod - 1
      BY <1>0, <2>2
    <3>2. (g_ticks + 1) % TickMod = g_ticks + 1
      BY <1>0, <3>1
    <3> QED
      BY <1>t, <2>2, <3>2
  <2> QED
    BY <2>1, <2>2
<1>3. PollType'
  <2>1. g_ticks' \in 0 .. TickMod - 1 /\ passed' \in 0 .. TickMod
    BY <1>0, <1>1, <1>2
  <2> HIDE DEF wakes
  <2>2. wake_tick' \in 0 .. TickMod - 1 /\ g_rx_waitq' \in {0, 1} /\ sleeping' \in {0, 1}
    BY <1>0, <1>1
  <2> QED
    BY <1>0, <1>1, <2>1, <2>2 DEF PollType
<1>4. MailboxInv'
  BY <1>1 DEF MailboxInv
<1>5. AsleepInv'
  <2> HIDE DEF wakes
  <2>1. (g_rx_waitq' = 1 => g_rx_waitq = 1) /\ (sleeping' = 1 => sleeping = 1)
    BY <1>1
  <2>2. p.pc = "idle" \/ (p.pc = "back" /\ p.kind # "nanosleep") => passed' = passed
    BY <1>1 DEF Counts
  <2> QED
    BY <1>1, <2>1, <2>2 DEF AsleepInv
<1>6. ElapsedInv'
  <2> SUFFICES ASSUME p.pc \in Polling PROVE passed' = TickMod \/ passed' = Elapsed'
    BY <1>1 DEF ElapsedInv
  <2>1. Counts
    BY DEF Counts, Polling
  <2>2. CASE passed = TickMod
    BY <1>0, <1>1, <2>2
  <2>3. CASE passed # TickMod
    <3>0. passed' = passed + 1
      BY <1>0, <1>1, <2>1, <2>3
    <3>1. passed = (g_ticks - p.start) % TickMod /\ passed' = passed + 1
      BY <2>3, <3>0 DEF ElapsedInv, Elapsed
    <3>2. Elapsed' = (g_ticks' - p.start) % TickMod
      BY <1>1 DEF Elapsed
    <3>3. \A d \in Int : 0 <= d /\ d < TickMod => d % TickMod = d
      BY <1>0
    <3>4. \A d \in Int : -TickMod <= d /\ d < 0 => d % TickMod = d + TickMod
      BY <1>0
    <3>5. passed = IF p.start <= g_ticks THEN g_ticks - p.start ELSE g_ticks - p.start + TickMod
      BY <1>0, <3>1, <3>3, <3>4
    <3>6. Elapsed' = IF p.start <= g_ticks' THEN g_ticks' - p.start ELSE g_ticks' - p.start + TickMod
      BY <1>0, <1>2, <3>2, <3>3, <3>4
    <3> QED
      BY <1>0, <1>2, <3>1, <3>5, <3>6
  <2> QED
    BY <2>2, <2>3
<1>7. NapInv'
  <2> SUFFICES ASSUME p.kind = "nanosleep", p.wraps = 0
               PROVE  IF sleeping' = 1 THEN /\ passed' <= g_ticks' /\ g_ticks' < wake_tick'
                                            /\ Enough(passed' + wake_tick' - g_ticks')
                                       ELSE Enough(passed')
    BY <1>1 DEF NapInv, Enough
  <2>1. Counts /\ g_rx_waitq = 0
    BY <1>0 DEF Counts, AsleepInv
  <2>2. CASE sleeping = 0
    <3>1. ~wakes /\ sleeping' = 0
      BY <1>1, <2>1, <2>2 DEF Asleep
    <3>2. Enough(passed)
      BY <2>2 DEF NapInv
    <3>4. passed \in Nat /\ passed' \in Nat /\ passed' >= passed
      BY <1>0, <1>1
    <3>3. Enough(passed')
      BY <3>2, <3>4, EnoughGrows
    <3> QED
      BY <3>1, <3>3
  <2>3. CASE sleeping = 1
    <3>1. passed <= g_ticks /\ g_ticks < wake_tick /\ Enough(passed + wake_tick - g_ticks)
      BY <2>3 DEF NapInv
    <3>2. g_ticks' = g_ticks + 1 /\ passed' = passed + 1
      BY <1>0, <1>1, <1>2, <2>1, <3>1
    <3>3. CASE wakes
      <4>1. sleeping' = 0 /\ wake_tick = g_ticks + 1
        BY <1>0, <1>1, <3>1, <3>2, <3>3
      <4>2. passed + wake_tick - g_ticks = passed'
        BY <1>0, <3>2, <4>1
      <4> QED
        BY <3>1, <4>1, <4>2
    <3>4. CASE ~wakes
      <4>1. sleeping' = 1 /\ wake_tick' = wake_tick
        BY <1>1, <2>3, <3>4
      <4>2. g_ticks' < wake_tick
        BY <1>0, <2>3, <3>1, <3>2, <3>4 DEF Asleep
      <4>3. passed' + wake_tick' - g_ticks' = passed + wake_tick - g_ticks
        BY <1>0, <3>2, <4>1
      <4> QED
        BY <1>0, <3>1, <3>2, <4>1, <4>2, <4>3
    <3> QED
      BY <3>3, <3>4
  <2> QED
    BY <1>0, <2>2, <2>3
<1> QED
  BY <1>3, <1>4, <1>5, <1>6, <1>7

LEMMA PollNextStep == PollInv /\ [PollNext]_pollvars => PollInv'
<1> SUFFICES ASSUME PollInv, [PollNext]_pollvars PROVE PollInv'
  OBVIOUS
<1>1. CASE PollStep
  BY <1>1, PollingStep, CallingStep DEF PollStep
<1>2. CASE Tick
  BY <1>2, TickStep
<1>3. CASE LineArrives
  <2>1. /\ g_rx_waitq' = 0 /\ wake_tick' = (IF g_rx_waitq = 1 THEN 0 ELSE wake_tick)
        /\ UNCHANGED <<g_ticks, passed, sleeping, p, mailbox, got, own>>
    BY <1>3 DEF LineArrives, clock, results
  <2>2. PollType' /\ MailboxInv' /\ AsleepInv' /\ ElapsedInv'
    BY <2>1, PollFacts
       DEF PollInv, PollType, MailboxInv, AsleepInv, ElapsedInv, Elapsed, Polling
  <2>3. p.kind = "nanosleep" => wake_tick' = wake_tick
    BY <2>1 DEF PollInv, AsleepInv
  <2>4. NapInv'
    BY <2>1, <2>3 DEF PollInv, NapInv, Enough
  <2> QED
    BY <2>2, <2>4 DEF PollInv
<1>4. CASE Read \/ Spawn \/ ChildExits \/ UNCHANGED pollvars
  <2>1. UNCHANGED <<g_ticks, passed, g_rx_waitq, wake_tick, sleeping, p, mailbox, got, own>>
    BY <1>4 DEF Read, Spawn, ChildExits, pollvars, clock, console, asleep, results
  <2>2. PollType' /\ MailboxInv' /\ AsleepInv' /\ ElapsedInv' /\ NapInv'
    BY <2>1 DEF PollInv, PollType, MailboxInv, AsleepInv, ElapsedInv, Elapsed, NapInv, Enough
  <2> QED
    BY <2>2 DEF PollInv
<1>5. CASE OthersCall
  <2>1. /\ p.pc # "back"
        /\ UNCHANGED <<g_ticks, passed, g_rx_waitq, wake_tick, sleeping, p, got, own>>
    BY <1>5 DEF OthersCall, OthersRun, clock, console, asleep
  <2>2. PollType' /\ MailboxInv' /\ AsleepInv' /\ ElapsedInv' /\ NapInv'
    BY <2>1 DEF PollInv, PollType, MailboxInv, AsleepInv, ElapsedInv, Elapsed, NapInv, Enough
  <2> QED
    BY <2>2 DEF PollInv
<1>6. CASE \/ Reject
           \/ \E kind \in {"poll", "select"}, fds \in Watched, ms \in Millis, cx \in Contexts :
                PollOrSelect(kind, fds, ms, cx)
           \/ \E ms \in {-1, 0}, cx \in Contexts : Waitpid(ms, cx)
  BY <1>6, CallingStep
<1>7. CASE \E sec \in Seconds, nsec \in Nanos : Nanosleep(sec, nsec)
  BY <1>7, NanosleepStep
<1> QED
  BY <1>1, <1>2, <1>3, <1>4, <1>5, <1>6, <1>7 DEF PollNext

LEMMA PollInvariant == PollSpec => []PollInv
BY PollInitially, PollNextStep, PTL DEF PollSpec

\* A task reads the result of its own call: no other task publishes a result in
\* the shared mailbox between SYSCALL_PUBLISH_RESULT and the read, although
\* others do while the call is parked or the task asleep.
THEOREM ResultsAreOwn == PollSpec => []OwnResult
<1>1. PollInv => OwnResult
  BY DEF PollInv, MailboxInv, OwnResult
<1> QED
  BY <1>1, PollInvariant, PTL

\* poll and select report a timeout, and a nanosleep ends, only when ticks have
\* passed that make up the time asked for: timeout_ms_to_ticks and SYS_NANOSLEEP
\* round up and saturate, and the difference of wrapping tick counters is right.
THEOREM TimeoutsAreNotEarly == PollSpec => NotEarly
<1> DEFINE Polled == p.pc = "scan" /\ p'.pc = "back" /\ mailbox' = "timeout" =>
                       passed * TickUs >= AtMost(p.ms * NS_PER_US, UsMax)
           Napped == p.pc = "nap" /\ p'.pc = "idle" /\ p.wraps = 0 =>
                       passed * TickUs * NS_PER_US >= AtMost(p.ns, UsMax * NS_PER_US)
<1>1. ASSUME PollInv, PollNext PROVE Polled
  <2> SUFFICES ASSUME p.pc = "scan", p'.pc = "back", mailbox' = "timeout"
               PROVE  passed * TickUs >= AtMost(p.ms * NS_PER_US, UsMax)
    OBVIOUS
  <2>0. /\ p \in Calls /\ p.ms \in Int /\ passed \in Nat
        /\ TickMod \in Nat \ {0, 1} /\ (g_ticks - p.start) % TickMod \in 0 .. TickMod - 1
    <3>1. p \in Calls /\ passed \in Nat /\ g_ticks \in Int
      BY <1>1, PollFacts DEF PollInv, PollType
    <3>2. p.ms \in Int /\ p.start \in Int
      BY <3>1, PollFacts DEF Calls
    <3> QED
      BY <3>1, <3>2, PollFacts
  <2>1. ScanFds
    BY <1>1 DEF PollNext, PollStep, Retest, Wait, Sleep, Resume, Reap, Back, Nap, Tick,
                LineArrives, Read, Reject, OthersCall, Spawn, ChildExits, PollOrSelect,
                Waitpid, Nanosleep
  <2>2. p.ms > 0 /\ Elapsed >= TimeoutTicks(p.ms)
    <3>1. p.pc = "scan" /\ p'.pc \notin {"retest", "sleep"}
      OBVIOUS
    <3>2. \A r : Finish(r) => mailbox' = r
      BY DEF Finish, PublishResult
    <3>3. \A at \in {"retest", "sleep"} : \A n :
            p' = [p EXCEPT !.pc = at, !.remaining = n] => p'.pc = at
      BY <2>0 DEF Calls
    <3> QED
      BY <2>1, <3>1, <3>2, <3>3 DEF ScanFds
  <2>3. passed >= TimeoutTicks(p.ms)
    <3>1. passed = TickMod \/ passed = Elapsed
      BY <1>1 DEF PollInv, ElapsedInv, Polling
    <3>2. TimeoutTicks(p.ms) \in Nat
      BY <2>0, <2>2, TimeoutCovers
    <3> QED
      BY <2>0, <2>2, <3>1, <3>2 DEF Elapsed
  <2>4. /\ TimeoutTicks(p.ms) \in Nat
        /\ TimeoutTicks(p.ms) * TickUs >= AtMost(p.ms * NS_PER_US, UsMax)
    BY <2>0, <2>2, TimeoutCovers
  <2>5. /\ passed * TickUs >= TimeoutTicks(p.ms) * TickUs
        /\ passed * TickUs \in Nat /\ TimeoutTicks(p.ms) * TickUs \in Nat
    BY <2>0, <2>3, <2>4, PollFacts, Grows
  <2>6. AtMost(p.ms * NS_PER_US, UsMax) \in Int
    BY <2>0, PollFacts DEF AtMost
  <2> QED
    BY <2>4, <2>5, <2>6
<1>2. ASSUME PollInv, PollNext PROVE Napped
  <2> SUFFICES ASSUME p.pc = "nap", p'.pc = "idle", p.wraps = 0
               PROVE  passed * TickUs * NS_PER_US >= AtMost(p.ns, UsMax * NS_PER_US)
    OBVIOUS
  <2>1. Nap
    BY <1>2 DEF PollNext, PollStep, ScanFds, Retest, Wait, Sleep, Resume, Reap, Back, Tick,
                LineArrives, Read, Reject, OthersCall, Spawn, ChildExits, PollOrSelect,
                Waitpid, Nanosleep
  <2>2. p.kind = "nanosleep" /\ sleeping # 1
    BY <1>2, <2>1 DEF PollInv, AsleepInv, Nap, Asleep
  <2> QED
    BY <1>2, <2>2 DEF PollInv, NapInv, Enough
<1>3. PollInv /\ [PollNext]_pollvars => [Polled /\ Napped]_pollvars
  BY <1>1, <1>2
<1> QED
  BY <1>3, PollInvariant, PTL DEF PollSpec, NotEarly
----------------------------------------------------------------------------
(* The deadlines of poll and select. *)

\* The next number has the next remainder, or 0.
LEMMA NextRemainder ==
  ASSUME NEW a \in Int, NEW b \in Nat \ {0}
  PROVE  (a + 1) % b = IF a % b = b - 1 THEN 0 ELSE (a % b) + 1
<1> DEFINE q == a \div b
           r == a % b
           q1 == (a + 1) \div b
           r1 == (a + 1) % b
           k == q1 - q
<1>1. q \in Int /\ r \in 0 .. b - 1 /\ a = b * q + r
  OBVIOUS
<1>2. q1 \in Int /\ r1 \in 0 .. b - 1 /\ a + 1 = b * q1 + r1
  OBVIOUS
<1> HIDE DEF q, r, q1, r1
<1>3. k \in Int /\ q1 = q + k
  BY <1>1, <1>2
<1> HIDE DEF k
<1>4. b * q1 = b * q + b * k /\ b * q \in Int /\ b * k \in Int
  BY <1>1, <1>3
<1>5. r + 1 = b * k + r1
  BY <1>1, <1>2, <1>4
<1>6. k \in {0, 1}
  <2>1. k >= 2 => b * k >= b + b
    <3>1. k >= 2 => b * (k - 2) >= 0
      BY <1>3
    <3>2. b * k = b * (k - 2) + (b + b) /\ b * (k - 2) \in Int
      BY <1>3
    <3> QED
      BY <3>1, <3>2, <1>4
  <2>2. k <= -1 => b * k <= -b
    <3>1. k <= -1 => b * (-1 - k) >= 0
      BY <1>3
    <3>2. b * k = -b - b * (-1 - k) /\ b * (-1 - k) \in Int
      BY <1>3
    <3> QED
      BY <3>1, <3>2, <1>4
  <2> QED
    BY <1>1, <1>2, <1>3, <1>4, <1>5, <2>1, <2>2
<1>7. b * k = IF k = 0 THEN 0 ELSE b
  BY <1>6
<1>8. r1 = IF r = b - 1 THEN 0 ELSE r + 1
  BY <1>1, <1>2, <1>5, <1>6, <1>7
<1> QED
  BY <1>8 DEF r, r1

\* A whole turn of the counter changes no remainder.
LEMMA TurnRemainder ==
  ASSUME NEW a \in Int, NEW b \in Nat \ {0}
  PROVE  (a - b) % b = a % b
<1> DEFINE q == a \div b
           r == a % b
           q1 == (a - b) \div b
           r1 == (a - b) % b
           k == q1 - q + 1
<1>1. q \in Int /\ r \in 0 .. b - 1 /\ a = b * q + r
  OBVIOUS
<1>2. q1 \in Int /\ r1 \in 0 .. b - 1 /\ a - b = b * q1 + r1
  OBVIOUS
<1> HIDE DEF q, r, q1, r1
<1>3. k \in Int /\ q1 = q + k - 1
  BY <1>1, <1>2
<1> HIDE DEF k
<1>4. b * q1 = b * q + b * k - b /\ b * q \in Int /\ b * k \in Int
  BY <1>1, <1>3
<1>5. r = b * k + r1
  BY <1>1, <1>2, <1>4
<1>6. k = 0
  <2>1. k >= 1 => b * k >= b
    <3>1. k >= 1 => b * (k - 1) >= 0
      BY <1>3
    <3>2. b * k = b * (k - 1) + b /\ b * (k - 1) \in Int
      BY <1>3
    <3> QED
      BY <3>1, <3>2, <1>4
  <2>2. k <= -1 => b * k <= -b
    <3>1. k <= -1 => b * (-1 - k) >= 0
      BY <1>3
    <3>2. b * k = -b - b * (-1 - k) /\ b * (-1 - k) \in Int
      BY <1>3
    <3> QED
      BY <3>1, <3>2, <1>4
  <2> QED
    BY <1>1, <1>2, <1>3, <1>4, <1>5, <2>1, <2>2
<1>7. b * k = 0
  BY <1>6
<1>8. r1 = r
  BY <1>1, <1>2, <1>5, <1>7
<1> QED
  BY <1>8 DEF r, r1

\* Times that are at most late ticks behind the timeout of the call
DueBy(late) == {(p.start + TimeoutTicks(p.ms) + d) % TickMod : d \in 0 .. late}

\* The deadline of a poll or select that waits with a timeout is its timeout
\* after its start, however often it was woken before, and at most MaxLag ticks
\* later: those between its look at g_ticks and its wait.
DueInTime ==
  p.pc = "parked" /\ p.ms > 0 /\ Asleep /\ wake_tick # 0 => wake_tick \in DueBy(MaxLag)

\* What is left of the timeout, counted from the last look at the clock
DueInv ==
  /\ lag \in 0 .. MaxLag
  /\ p.pc \in {"retest", "wait", "sleep"} /\ p.ms > 0 =>
       p.remaining >= 1 /\ (g_ticks + p.remaining) % TickMod \in DueBy(lag)
  /\ DueInTime

\* Outside of a wait and its preparation nothing is due.
LEMMA NothingDue ==
  ASSUME DueInv, lag' \in {0, lag}, p'.pc \notin {"retest", "wait", "sleep", "parked"}
  PROVE  DueInv'
<1>1. lag' \in 0 .. MaxLag
  BY PollAssumption DEF DueInv
<1> QED
  BY <1>1 DEF DueInv, DueInTime

LEMMA DueFacts ==
  ASSUME PollInv
  PROVE  /\ p \in Calls /\ g_ticks \in 0 .. TickMod - 1 /\ p.start \in 0 .. TickMod - 1
         /\ p.ms \in Int /\ p.remaining \in Int /\ TickMod \in Nat \ {0, 1} /\ MaxLag \in Nat \ {0}
         /\ p.ms > 0 => TimeoutTicks(p.ms) \in Nat
<1>1. /\ p \in Calls /\ g_ticks \in 0 .. TickMod - 1 /\ TickMod \in Nat \ {0, 1}
      /\ MaxLag \in Nat \ {0}
  BY PollAssumption DEF PollInv, PollType
<1>2. p.start \in 0 .. TickMod - 1 /\ p.ms \in Int /\ p.remaining \in Int
  BY <1>1 DEF Calls
<1> QED
  BY <1>1, <1>2, TimeoutCovers

\* A look at the clock
LEMMA ScanDue ==
  ASSUME PollInv, DueInv, ScanFds
  PROVE  DueInv'
<1>1. CASE \E r : Finish(r)
  <2>1. p'.pc = "back" /\ lag' = 0
    BY <1>1 DEF Finish, Idle
  <2> QED
    BY <2>1, NothingDue
<1>2. CASE ~\E r : Finish(r)
  <2> DEFINE T == TimeoutTicks(p.ms)
             at == IF "console" \in p.fds THEN "retest" ELSE "sleep"
             rem == IF p.ms > 0 THEN T - Elapsed ELSE 0
  <2>1. /\ p' = [p EXCEPT !.pc = at, !.remaining = rem]
        /\ lag' = lag /\ g_ticks' = g_ticks /\ (p.ms > 0 => ~(Elapsed >= T))
    BY <1>2 DEF ScanFds
  <2>2. at # "parked"
    OBVIOUS
  <2> HIDE DEF at
  <2>3. p'.pc = at /\ p'.remaining = rem /\ p'.start = p.start /\ p'.ms = p.ms
    BY <2>1, DueFacts, Zenon DEF Calls
  <2>4. DueInTime'
    BY <2>2, <2>3 DEF DueInTime
  <2>5. ASSUME p.ms > 0 PROVE rem >= 1 /\ (g_ticks + rem) % TickMod \in DueBy(lag)
    <3>1. /\ T \in Nat /\ g_ticks \in 0 .. TickMod - 1 /\ p.start \in 0 .. TickMod - 1
          /\ TickMod \in Nat \ {0, 1} /\ lag \in 0 .. MaxLag /\ MaxLag \in Nat
      BY <2>5, DueFacts DEF DueInv
    <3>2. rem = T - Elapsed /\ Elapsed = (g_ticks - p.start) % TickMod /\ ~(Elapsed >= T)
      BY <2>1, <2>5 DEF Elapsed
    <3> HIDE DEF T, rem
    <3>3. \A d \in Int : 0 <= d /\ d < TickMod => d % TickMod = d
      BY <3>1
    <3>4. \A d \in Int : -TickMod <= d /\ d < 0 => d % TickMod = d + TickMod
      BY <3>1
    <3>5. Elapsed = IF p.start <= g_ticks THEN g_ticks - p.start ELSE g_ticks - p.start + TickMod
      BY <3>1, <3>2, <3>3, <3>4
    <3> DEFINE a == p.start + T
    <3>6. /\ g_ticks + rem = a \/ g_ticks + rem = a - TickMod
          /\ a \in Int /\ a = p.start + T + 0
      BY <3>1, <3>2, <3>5
    <3> HIDE DEF a
    <3>7. (a - TickMod) % TickMod = a % TickMod
      BY <3>1, <3>6, TurnRemainder
    <3>8. (g_ticks + rem) % TickMod = a % TickMod
      BY <3>6, <3>7
    <3>9. (g_ticks + rem) % TickMod = (p.start + T + 0) % TickMod
      BY <3>6, <3>8
    <3>10. rem >= 1
      BY <3>1, <3>2, <3>5
    <3>11. 0 \in 0 .. lag
      BY <3>1
    <3> QED
      BY <3>9, <3>10, <3>11 DEF DueBy, T
  <2>6. DueBy(lag)' = DueBy(lag)
    BY <2>1, <2>3 DEF DueBy
  <2> HIDE DEF rem
  <2>7. lag' \in 0 .. MaxLag
    BY <2>1 DEF DueInv
  <2> QED
    BY <2>1, <2>3, <2>4, <2>5, <2>6, <2>7 DEF DueInv
<1> QED
  BY <1>1, <1>2

\* The console is tested again, and the wait begins.
LEMMA WaitDue ==
  ASSUME PollInv, DueInv, Retest \/ Wait \/ Sleep
  PROVE  DueInv'
<1>0. /\ p \in Calls /\ lag \in 0 .. MaxLag /\ MaxLag \in Nat \ {0} /\ p.ms \in Int
  BY DueFacts DEF DueInv
<1>1. CASE Retest
  <2>1. /\ p.pc = "retest" /\ p' = [p EXCEPT !.pc = IF readable = 1 THEN "scan" ELSE "wait"]
        /\ lag' = lag /\ g_ticks' = g_ticks
    BY <1>1 DEF Retest, clock
  <2>2. /\ p'.pc \in {"scan", "wait"} /\ p'.remaining = p.remaining /\ p'.start = p.start
        /\ p'.ms = p.ms
    BY <1>0, <2>1 DEF Calls
  <2>3. DueBy(lag)' = DueBy(lag)
    BY <2>1, <2>2 DEF DueBy
  <2> QED
    BY <1>0, <2>1, <2>2, <2>3 DEF DueInv, DueInTime
<1>2. CASE Wait \/ Sleep
  <2>1. /\ p.pc \in {"wait", "sleep"} /\ p' = [p EXCEPT !.pc = "parked", !.remaining = 0]
        /\ lag' = 0 /\ g_ticks' = g_ticks
    BY <1>2 DEF Wait, Sleep
  <2>2. p'.pc = "parked" /\ p'.start = p.start /\ p'.ms = p.ms
    BY <1>0, <2>1, Zenon DEF Calls
  <2>3. p.ms > 0 => wake_tick' = (g_ticks + p.remaining) % TickMod
    <3> SUFFICES ASSUME p.ms > 0 PROVE wake_tick' = (g_ticks + p.remaining) % TickMod
      OBVIOUS
    <3>1. p.remaining >= 1 /\ ~(p.ms < 0) /\ p.remaining # 0
      BY <1>0, <2>1 DEF DueInv
    <3> QED
      BY <1>2, <3>1 DEF Wait, Sleep, RxDeadline, SleepDeadline
  <2>4. p.ms > 0 => wake_tick' \in DueBy(lag)
    BY <2>1, <2>3 DEF DueInv
  <2>5. 0 .. lag \subseteq 0 .. MaxLag
    BY <1>0
  <2>6. DueBy(lag) \subseteq DueBy(MaxLag)
    BY <2>5 DEF DueBy
  <2>7. DueBy(MaxLag)' = DueBy(MaxLag)
    BY <2>2 DEF DueBy
  <2>8. DueInTime'
    BY <2>2, <2>4, <2>6, <2>7 DEF DueInTime
  <2>9. lag' \in 0 .. MaxLag
    BY <1>0, <2>1
  <2> QED
    BY <2>2, <2>8, <2>9 DEF DueInv
<1> QED
  BY <1>1, <1>2

\* A tick between the look at the clock and the wait is a tick of delay.
LEMMA TickDue ==
  ASSUME PollInv, DueInv, Tick
  PROVE  DueInv'
<1>0. /\ p \in Calls /\ g_ticks \in 0 .. TickMod - 1 /\ p.start \in 0 .. TickMod - 1
      /\ p.ms \in Int /\ p.remaining \in Int /\ TickMod \in Nat \ {0, 1} /\ MaxLag \in Nat \ {0}
      /\ lag \in 0 .. MaxLag
  BY DueFacts DEF DueInv
<1>1. /\ p' = p /\ g_ticks' = (g_ticks + 1) % TickMod
      /\ Runs => lag < MaxLag
      /\ lag' = IF Runs THEN lag + 1 ELSE 0
  BY DEF Tick
<1>2. lag' \in 0 .. MaxLag
  BY <1>0, <1>1
<1>3. DueInTime'
  <2>1. Asleep' /\ wake_tick' # 0 => Asleep /\ wake_tick' = wake_tick
    BY DEF Tick, Asleep
  <2>2. DueBy(MaxLag)' = DueBy(MaxLag)
    BY <1>1 DEF DueBy
  <2> QED
    BY <1>1, <2>1, <2>2 DEF DueInTime, DueInv
<1>4. ASSUME p.pc \in {"retest", "wait", "sleep"}, p.ms > 0
      PROVE  p.remaining >= 1 /\ (g_ticks' + p.remaining) % TickMod \in DueBy(lag')
  <2> DEFINE T == TimeoutTicks(p.ms)
  <2>1. p.kind # "nanosleep" /\ ~Asleep
    BY <1>4 DEF PollInv, AsleepInv, Asleep
  <2>2. Runs /\ lag' = lag + 1
    BY <1>1, <1>4, <2>1 DEF Runs
  <2>3. T \in Nat
    BY <1>4, DueFacts
  <2>4. p.remaining >= 1 /\ (g_ticks + p.remaining) % TickMod \in DueBy(lag)
    BY <1>4 DEF DueInv
  <2>5. PICK d \in 0 .. lag : (g_ticks + p.remaining) % TickMod = (p.start + T + d) % TickMod
    BY <2>4 DEF DueBy
  <2> HIDE DEF T
  <2>6. d \in Int /\ d + 1 \in 0 .. lag' /\ g_ticks + p.remaining \in Int /\ p.start + T + d \in Int
    BY <1>0, <2>2, <2>3
  <2>7. (g_ticks + p.remaining + 1) % TickMod = (p.start + T + d + 1) % TickMod
    <3> DEFINE a == g_ticks + p.remaining
               b == p.start + T + d
    <3>1. a \in Int /\ b \in Int /\ a % TickMod = b % TickMod /\ TickMod \in Nat \ {0}
      BY <1>0, <2>5, <2>6
    <3> HIDE DEF a, b
    <3>2. (a + 1) % TickMod = (b + 1) % TickMod
      BY <3>1, NextRemainder
    <3> QED
      BY <3>2 DEF a, b
  <2>8. g_ticks' = g_ticks + 1 \/ g_ticks' = g_ticks + 1 - TickMod
    <3>1. CASE g_ticks = TickMod - 1
      <4>1. g_ticks + 1 = TickMod /\ TickMod % TickMod = 0
        BY <1>0, <3>1
      <4> QED
        BY <1>0, <1>1, <4>1
    <3>2. CASE g_ticks # TickMod - 1
      <4>1. g_ticks + 1 \in 0 .. TickMod - 1
        BY <1>0, <3>2
      <4>2. (g_ticks + 1) % TickMod = g_ticks + 1
        BY <1>0, <4>1
      <4> QED
        BY <1>1, <4>2
    <3> QED
      BY <3>1, <3>2
  <2>9. (g_ticks' + p.remaining) % TickMod = (g_ticks + p.remaining + 1) % TickMod
    <3> DEFINE a == g_ticks + p.remaining + 1
    <3>1. a \in Int /\ (g_ticks' + p.remaining = a \/ g_ticks' + p.remaining = a - TickMod)
      BY <1>0, <2>8
    <3> HIDE DEF a
    <3>2. (a - TickMod) % TickMod = a % TickMod
      BY <1>0, <3>1, TurnRemainder
    <3>3. (g_ticks' + p.remaining) % TickMod = a % TickMod
      BY <3>1, <3>2
    <3> QED
      BY <3>3 DEF a
  <2>10. p.start + T + d + 1 = p.start + T + (d + 1)
    BY <1>0, <2>3, <2>6
  <2>11. (g_ticks' + p.remaining) % TickMod = (p.start + T + (d + 1)) % TickMod
    BY <2>7, <2>9, <2>10
  <2> QED
    BY <2>4, <2>6, <2>11 DEF DueBy, T
<1>5. DueBy(lag)' = DueBy(lag')
  BY <1>1 DEF DueBy
<1> QED
  BY <1>1, <1>2, <1>3, <1>4, <1>5 DEF DueInv

LEMMA DueStep == PollInv /\ DueInv /\ [PollNext]_pollvars => DueInv'
<1> SUFFICES ASSUME PollInv, DueInv, [PollNext]_pollvars PROVE DueInv'
  OBVIOUS
<1>1. CASE ScanFds \/ Retest \/ Wait \/ Sleep
  BY <1>1, ScanDue, WaitDue
<1>2. CASE Tick
  BY <1>2, TickDue
<1>3. CASE Resume \/ Reap \/ Back \/ Nap \/ Reject
  <2>0. p \in Calls
    BY DueFacts
  <2>1. CASE Resume
    <3>1. p'.pc = "scan" /\ lag' = lag
      BY <2>0, <2>1 DEF Resume, clock, Calls
    <3> QED
      BY <3>1, NothingDue
  <2>2. CASE Reap
    <3>1. \/ \E r : Finish(r)
          \/ p.pc = "reap" /\ p' = p /\ lag' = 0
      BY <2>2 DEF Reap
    <3>2. p'.pc \in {"back", "reap"} /\ lag' = 0
      BY <3>1 DEF Finish, Idle
    <3> QED
      BY <3>2, NothingDue
  <2>3. CASE Back
    <3>1. p'.pc \in {"nap", "idle"} /\ lag' \in {0, lag}
      BY <2>0, <2>3 DEF Back, Idle, Calls
    <3> QED
      BY <3>1, NothingDue
  <2>4. CASE Nap \/ Reject
    <3>1. p'.pc \in {"idle", "back"} /\ lag' = 0
      BY <2>4 DEF Nap, Reject, Finish, Idle
    <3> QED
      BY <3>1, NothingDue
  <2> QED
    BY <1>3, <2>1, <2>2, <2>3, <2>4
<1>4. CASE \/ LineArrives \/ Read \/ OthersCall \/ Spawn \/ ChildExits \/ UNCHANGED pollvars
  <2>1. /\ UNCHANGED <<p, lag, g_ticks>>
        /\ Asleep' /\ wake_tick' # 0 => Asleep /\ wake_tick' = wake_tick
    BY <1>4 DEF LineArrives, Read, OthersCall, Spawn, ChildExits, pollvars, clock, console, asleep,
                Asleep
  <2>2. DueBy(lag)' = DueBy(lag) /\ DueBy(MaxLag)' = DueBy(MaxLag)
    BY <2>1 DEF DueBy
  <2> QED
    BY <2>1, <2>2 DEF DueInv, DueInTime
<1>5. CASE \/ \E kind \in {"poll", "select"}, fds \in Watched, ms \in Millis, cx \in Contexts :
                PollOrSelect(kind, fds, ms, cx)
           \/ \E ms \in {-1, 0}, cx \in Contexts : Waitpid(ms, cx)
  <2>1. p'.pc \in {"scan", "reap"} /\ lag' = lag
    BY <1>5 DEF PollOrSelect, Waitpid, Idle, clock
  <2> QED
    BY <2>1, NothingDue
<1>6. CASE \E sec \in Seconds, nsec \in Nanos : Nanosleep(sec, nsec)
  <2>1. p'.pc = "back" /\ lag' \in {0, lag}
    BY <1>6 DEF Nanosleep, Finish, Idle
  <2> QED
    BY <2>1, NothingDue
<1> QED
  BY <1>1, <1>2, <1>3, <1>4, <1>5, <1>6 DEF PollNext, PollStep

\* No poll or select sleeps past its timeout: the rest that it computes from the
\* time elapsed after each wakeup adds up to the time asked for, also when g_ticks
\* wraps around, so that wakeups do not prolong it.
THEOREM DeadlinesAreInTime == PollSpec => []DueInTime
<1>1. PollInit => DueInv
  BY PollAssumption DEF PollInit, DueInv, DueInTime, Idle
<1>2. DueInv => DueInTime
  BY DEF DueInv
<1> QED
  BY <1>1, <1>2, PollInitially, PollNextStep, DueStep, PTL DEF PollSpec
=============================================================================
