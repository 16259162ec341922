---------------------------- MODULE SchedProofs ----------------------------
(***************************************************************************)
(* The invariants of the scheduler hold for any number of task slots, any   *)
(* quantum, width of the tick counter and depth of nested activations.      *)
(* Four invariants, each on top of the types: TypeOK; QueueInv, the two      *)
(* links between tasks and wait queues; ChildInv, which needs QueueInv and   *)
(* distinct tids; NestInv, the activations on the stack.                     *)
(***************************************************************************)
EXTENDS Sched, TLAPS, SequenceTheorems

\* What a leaf that names no prover is tried with, and for how many seconds.
USE ZenonT(3), SMTT(30)

\* A deadline of sched_sleep_ticks or sched_waitq_sleep is a 32-bit value.
LEMMA DeadlineType ==
  ASSUME g_ticks \in Nat, NEW d \in Nat
  PROVE  Deadline(d) \in 0 .. TickMod - 1
  BY SchedAssumption DEF Deadline

\* So is the tick counter after a tick.
LEMMA NextTickType ==
  ASSUME g_ticks \in Nat
  PROVE  NextTick \in 0 .. TickMod - 1
  BY SchedAssumption DEF NextTick

\* Charging a tick to a quantum within its bound leaves it within its bound.
LEMMA ChargedType ==
  quantum_used[g_current_idx] \in 0 .. Quantum => ChargedQuantum \in 0 .. Quantum
BY SchedAssumption DEF ChargedQuantum

\* The innermost activation exists and has its type.
LEMMA StackTop ==
  ASSUME stack \in Seq(ActivationType), stack # <<>>
  PROVE  /\ Len(stack) \in Nat \ {0}
         /\ Top \in ActivationType
         /\ \A k \in 1 .. Len(stack) : stack[k] \in ActivationType
  BY DEF Top

\* Moving the innermost activation to another place in its loop leaves the
\* slots of all activations alone.
LEMMA StackTopAt ==
  ASSUME stack \in Seq(ActivationType), stack # <<>>,
         NEW pc \in {"run", "block", "pump"}
  PROVE  /\ TopAt(pc) \in Seq(ActivationType)
         /\ Len(TopAt(pc)) = Len(stack)
         /\ TopAt(pc) # <<>>
         /\ \A k \in 1 .. Len(stack) :
              /\ TopAt(pc)[k].idx = stack[k].idx
              /\ TopAt(pc)[k].prev = stack[k].prev
         /\ TopAt(pc)[Len(stack)].pc = pc
  BY StackTop DEF TopAt, Top, ActivationType

\* What sched_pump_once finds on the stack when it calls a task.
LEMMA StackPush ==
  ASSUME NEW s \in Seq(ActivationType), NEW a \in ActivationType
  PROVE  /\ Append(s, a) \in Seq(ActivationType)
         /\ Append(s, a) # <<>>
         /\ Len(Append(s, a)) = Len(s) + 1
         /\ \A k \in 1 .. Len(s) : Append(s, a)[k] = s[k]
         /\ Append(s, a)[Len(s) + 1] = a
  OBVIOUS

\* What is left when a task returns to the loop that called it.
LEMMA StackPop ==
  ASSUME NEW s \in Seq(ActivationType), s # <<>>
  PROVE  /\ SubSeq(s, 1, Len(s) - 1) \in Seq(ActivationType)
         /\ Len(SubSeq(s, 1, Len(s) - 1)) = Len(s) - 1
         /\ \A k \in 1 .. Len(s) - 1 : SubSeq(s, 1, Len(s) - 1)[k] = s[k]
         /\ SubSeq(s, 1, Len(s) - 1) # <<>> <=> Len(s) # 1
<1>1. Len(s) \in Nat \ {0}
  OBVIOUS
<1>2. \A k \in 1 .. Len(s) - 1 : s[k] \in ActivationType
  BY <1>1
<1>3. SubSeq(s, 1, Len(s) - 1) \in Seq(ActivationType)
  BY <1>1, <1>2
<1>4. Len(SubSeq(s, 1, Len(s) - 1)) = Len(s) - 1
  <2>1. ASSUME NEW n \in Nat PROVE Len(SubSeq(s, 1, n)) = n
    OBVIOUS
  <2>2. Len(s) - 1 \in Nat
    BY <1>1
  <2>3. QED
    BY <2>1, <2>2, Zenon
<1>5. \A k \in 1 .. Len(s) - 1 : SubSeq(s, 1, Len(s) - 1)[k] = s[k]
  BY <1>1
<1>6. SubSeq(s, 1, Len(s) - 1) # <<>> <=> Len(s) # 1
  <2>1. ASSUME NEW r \in Seq(ActivationType) PROVE r # <<>> <=> Len(r) # 0
    OBVIOUS
  <2>2. Len(SubSeq(s, 1, Len(s) - 1)) # 0 <=> Len(s) # 1
    BY <1>1, <1>4
  <2>3. QED
    BY <1>3, <2>1, <2>2, Zenon
<1>7. QED
  BY <1>3, <1>4, <1>5, <1>6

----------------------------------------------------------------------------
\* What the proofs use of the slots, the wait queues and the counters.
LEMMA IndexSets ==
  /\ 0 \in Slots
  /\ Tasks = Slots \ {0}
  /\ Slots \subseteq Waitqs
  /\ Waitqs \subseteq Nat
  /\ RxWaitq \in Waitqs \ Slots
  /\ NoWaitq \notin Waitqs
  /\ 0 \in 0 .. TickMod - 1
  /\ 0 \in 0 .. Quantum
  /\ Durations \subseteq Nat
  BY SchedAssumption DEF Slots, Tasks, Waitqs, RxWaitq, NoWaitq

\* sched_init leaves a well-typed table.
LEMMA TypeInit == Init => TypeOK
  BY SchedAssumption, IndexSets DEF Init, TypeOK, States, AnyChild

\* Every call, tick, wakeup and step of the loops keeps the types.
LEMMA TypeStep == TypeOK /\ [Next]_vars => TypeOK'
<1> SUFFICES ASSUME TypeOK, [Next]_vars
             PROVE  TypeOK'
  OBVIOUS
<1> USE IndexSets DEF TypeOK, States
<1>0. \A d \in Nat : Deadline(d) \in 0 .. TickMod - 1
  <2>1. g_ticks \in Nat
    BY SchedAssumption
  <2>2. QED
    BY <2>1, DeadlineType
<1>1. ASSUME NEW s \in Tasks, SpawnIn(s), run_pc' \in {run_pc, "select"}
      PROVE  TypeOK'
  <2>1. state' \in [Slots -> States]
    BY <1>1 DEF SpawnIn
  <2>2. tid' \in [Slots -> Nat]
    BY <1>1 DEF SpawnIn
  <2>3. parent_tid' \in [Slots -> Int]
    BY <1>1 DEF SpawnIn
  <2>4. wake_tick' \in [Slots -> 0 .. TickMod - 1]
    BY <1>1 DEF SpawnIn
  <2>5. quantum_used' \in [Slots -> 0 .. Quantum]
    BY <1>1 DEF SpawnIn
  <2>6. waitq' \in [Slots -> Waitqs \cup {NoWaitq}]
    BY <1>1 DEF SpawnIn
  <2>7. bits' \in [Waitqs -> SUBSET Slots]
    BY <1>1 DEF SpawnIn
  <2>8. wrapped' \subseteq Slots
    BY <1>1 DEF SpawnIn
  <2>9. g_next_tid' \in Nat \ {0}
    BY <1>1 DEF SpawnIn
  <2>10. QED
    BY <2>1, <2>2, <2>3, <2>4, <2>5, <2>6, <2>7, <2>8, <2>9, <1>1 DEF SpawnIn
<1>2. CASE BootSpawn
  BY <1>1, <1>2 DEF BootSpawn
<1>3. CASE Spawn
  BY <1>1, <1>3 DEF Spawn
<1>4. CASE Yield
  BY <1>4 DEF Yield
<1>5. CASE Exit
  <2>1. state' \in [Slots -> States]
    BY <1>5 DEF Exit, WokenQuantum, DetachedWaitq, DetachedBits, AnyChild
  <2>2. wake_tick' \in [Slots -> 0 .. TickMod - 1]
    BY <1>5 DEF Exit, WokenQuantum, DetachedWaitq, DetachedBits, AnyChild
  <2>3. quantum_used' \in [Slots -> 0 .. Quantum]
    BY <1>5 DEF Exit, WokenQuantum, DetachedWaitq, DetachedBits, AnyChild
  <2>4. waitq' \in [Slots -> Waitqs \cup {NoWaitq}]
    BY <1>5 DEF Exit, WokenQuantum, DetachedWaitq, DetachedBits, AnyChild
  <2>5. bits' \in [Waitqs -> SUBSET Slots]
    BY <1>5 DEF Exit, WokenQuantum, DetachedWaitq, DetachedBits, AnyChild
  <2>6. wrapped' \subseteq Slots
    BY <1>5 DEF Exit, WokenQuantum, DetachedWaitq, DetachedBits, AnyChild
  <2>7. wait_pid' \in [Slots -> Int]
    BY <1>5 DEF Exit, WokenQuantum, DetachedWaitq, DetachedBits, AnyChild
  <2>8. QED
    BY <2>1, <2>2, <2>3, <2>4, <2>5, <2>6, <2>7, <1>5 DEF Exit
<1>6. ASSUME NEW d \in Durations, SleepTicks(d)
      PROVE  TypeOK'
  <2>1. Deadline(IF d = 0 THEN 1 ELSE d) \in 0 .. TickMod - 1
    BY <1>0
  <2>2. QED
    BY <1>6, <2>1 DEF SleepTicks
<1>7. ASSUME NEW q \in Waitqs, NEW d \in Nat, NEW pid \in Int, WaitqSleep(q, d, pid)
      PROVE  TypeOK'
  <2>1. Deadline(d) \in 0 .. TickMod - 1
    BY <1>0
  <2>2. bits' \in [Waitqs -> SUBSET Slots]
    BY <1>7 DEF WaitqSleep, DetachedBits
  <2>3. QED
    BY <1>7, <2>1, <2>2 DEF WaitqSleep
<1>8. ASSUME NEW d \in Durations, RxSleep(d)
      PROVE  TypeOK'
  <2>1. d \in Nat /\ AnyChild \in Int
    BY DEF AnyChild
  <2>2. QED
    BY <1>7, <1>8, <2>1 DEF RxSleep
<1>9. ASSUME NEW pid \in Pids, WaitpidReap(pid)
      PROVE  TypeOK'
  <2>1. PICK z \in Tasks : ClearTask(z)
    BY <1>9 DEF WaitpidReap
  <2>2. state' \in [Slots -> States]
    BY <2>1 DEF ClearTask
  <2>3. tid' \in [Slots -> Nat]
    BY <2>1 DEF ClearTask
  <2>4. parent_tid' \in [Slots -> Int]
    BY <2>1 DEF ClearTask
  <2>5. wake_tick' \in [Slots -> 0 .. TickMod - 1]
    BY <2>1 DEF ClearTask
  <2>6. quantum_used' \in [Slots -> 0 .. Quantum]
    BY <2>1 DEF ClearTask
  <2>7. waitq' \in [Slots -> Waitqs \cup {NoWaitq}]
    BY <2>1 DEF ClearTask
  <2>8. bits' \in [Waitqs -> SUBSET Slots]
    BY <2>1 DEF ClearTask
  <2>9. QED
    BY <1>9, <2>2, <2>3, <2>4, <2>5, <2>6, <2>7, <2>8 DEF WaitpidReap, globalVars
<1>10. ASSUME NEW pid \in Pids, WaitpidBlock(pid)
       PROVE  TypeOK'
  <2>1. pid \in Int
    BY SchedAssumption DEF Pids, AnyChild
  <2>2. QED
    BY <1>7, <1>10, <2>1 DEF WaitpidBlock
<1>11. CASE RunSelect
  BY <1>11 DEF RunSelect, slotVars
<1>12. CASE RunDispatch
  <2>1. Activation(g_current_idx) \in ActivationType
    BY DEF Activation, ActivationType
  <2>2. <<Activation(g_current_idx)>> \in Seq(ActivationType)
    BY <2>1
  <2>3. QED
    BY <1>12, <2>2 DEF RunDispatch
<1>13. CASE Block
  BY <1>13, StackTopAt DEF Block, CallerIsTask, Executing, slotVars, globalVars
<1>14. CASE BlockTest
  BY <1>14, StackTopAt DEF BlockTest, slotVars, globalVars
<1>15. CASE Pump
  <2>1. TopAt("block") \in Seq(ActivationType)
    BY <1>15, StackTopAt DEF Pump
  <2>2. \A next \in Slots : Append(TopAt("block"), Activation(next)) \in Seq(ActivationType)
    BY <2>1, StackPush DEF Activation, ActivationType
  <2>3. PICK next \in Slots : Pump!3!(next)
    BY <1>15 DEF Pump
  <2>4. stack' \in Seq(ActivationType)
    <3>1. \/ stack' = Append(TopAt("block"), Activation(next))
          \/ stack' = TopAt("block")
      BY <2>3, Zenon
    <3>2. QED
      BY <2>1, <2>2, <3>1, Zenon
  <2>5. g_current_idx' \in Slots /\ state' \in [Slots -> States]
    BY <2>3
  <2>6. QED
    BY <1>15, <2>4, <2>5 DEF Pump
<1>16. CASE EntryReturn
  <2>1. stack' \in Seq(ActivationType)
    BY <1>16, StackPop DEF EntryReturn, Executing
  <2>2. Top \in ActivationType
    BY <1>16, StackTop DEF EntryReturn, Executing
  <2>3. QED
    BY <1>16, <2>1, <2>2 DEF EntryReturn, ActivationType
<1>17. ASSUME NEW W \in SUBSET Slots, Wake(W)
       PROVE  /\ state' \in [Slots -> States]
              /\ wake_tick' \in [Slots -> 0 .. TickMod - 1]
              /\ waitq' \in [Slots -> Waitqs \cup {NoWaitq}]
              /\ bits' \in [Waitqs -> SUBSET Slots]
              /\ wrapped' \subseteq Slots
              /\ wait_pid' \in [Slots -> Int]
  <2>1. state' \in [Slots -> States]
    BY <1>17 DEF Wake, DetachedWaitq, DetachedBits, AnyChild
  <2>2. wake_tick' \in [Slots -> 0 .. TickMod - 1]
    BY <1>17 DEF Wake, DetachedWaitq, DetachedBits, AnyChild
  <2>3. waitq' \in [Slots -> Waitqs \cup {NoWaitq}]
    BY <1>17 DEF Wake, DetachedWaitq, DetachedBits, AnyChild
  <2>4. bits' \in [Waitqs -> SUBSET Slots]
    BY <1>17 DEF Wake, DetachedWaitq, DetachedBits, AnyChild
  <2>5. wrapped' \subseteq Slots
    BY <1>17 DEF Wake, DetachedWaitq, DetachedBits, AnyChild
  <2>6. wait_pid' \in [Slots -> Int]
    BY <1>17 DEF Wake, DetachedWaitq, DetachedBits, AnyChild
  <2>7. QED
    BY <2>1, <2>2, <2>3, <2>4, <2>5, <2>6
<1>18. CASE Tick
  <2>1. g_ticks' \in 0 .. TickMod - 1
    <3>1. g_ticks \in Nat /\ g_ticks' = NextTick
      BY <1>18, SchedAssumption DEF Tick
    <3>2. QED
      BY <3>1, NextTickType
  <2>2. quantum_used' \in [Slots -> 0 .. Quantum]
    <3>1. \A W : WokenQuantum(W) \in [Slots -> 0 .. Quantum]
      BY DEF WokenQuantum
    <3>2. ChargedQuantum \in 0 .. Quantum
      <4>1. quantum_used[g_current_idx] \in 0 .. Quantum
        OBVIOUS
      <4>2. QED
        BY <4>1, ChargedType
    <3>3. QED
      BY <1>18, <3>1, <3>2 DEF Tick
  <2>3. QED
    BY <1>17, <1>18, <2>1, <2>2 DEF Tick, Due
<1>19. CASE RxWake
  <2>0. PICK r \in Tasks : RxWake!2!(r)
    BY <1>19 DEF RxWake
  <2>1. Wakeable({r}) \in SUBSET Slots
    BY DEF Wakeable
  <2>2. quantum_used' \in [Slots -> 0 .. Quantum]
    BY <2>0, <2>1 DEF WokenQuantum
  <2>3. QED
    BY <1>17, <1>19, <2>0, <2>1, <2>2 DEF RxWake
<1>20. CASE EnterTrap \/ LeaveTrap
  <2>1. Len(stack) \in Nat
    OBVIOUS
  <2>2. QED
    BY <1>20, <2>1 DEF EnterTrap, LeaveTrap, slotVars, globalVars
<1>21. CASE UNCHANGED vars
  BY <1>21 DEF vars
<1>22. QED
  BY <1>2, <1>3, <1>4, <1>5, <1>6, <1>8, <1>9, <1>10, <1>11, <1>12, <1>13,
     <1>14, <1>15, <1>16, <1>18, <1>19, <1>20, <1>21 DEF Next, Call, Loop

\* The state of sched.c stays within its types, for any number of task slots.
THEOREM TypeCorrect == Spec => []TypeOK
<1>1. QED
  BY TypeInit, TypeStep, PTL DEF Spec

----------------------------------------------------------------------------
(* Wait queues. *)

\* Bitmaps and pointers agree, and whoever is queued waits.
QueueInv == TypeOK /\ WaitqLinked /\ WakeupReachesWaiter

\* sched_init leaves the queues empty.
LEMMA QueueInit == Init => QueueInv
  BY TypeInit, IndexSets
     DEF Init, QueueInv, WaitqLinked, WakeupReachesWaiter, Waiting

\* Detaching slots from their queues keeps bitmaps and links in step.
LEMMA DetachLinked ==
  ASSUME TypeOK, WaitqLinked, NEW W \in SUBSET Slots,
         waitq' = DetachedWaitq(W), bits' = DetachedBits(W)
  PROVE  /\ WaitqLinked'
         /\ \A s \in Slots : waitq'[s] = IF s \in W THEN NoWaitq ELSE waitq[s]
<1>1. waitq \in [Slots -> Waitqs \cup {NoWaitq}] /\ bits \in [Waitqs -> SUBSET Slots]
  BY DEF TypeOK
<1>2. \A s \in Slots : waitq'[s] = IF s \in W THEN NoWaitq ELSE waitq[s]
  BY DEF DetachedWaitq
<1>3. \A s \in Slots, q \in Waitqs :
        s \in bits'[q] <=> s \in bits[q] /\ ~(s \in W /\ waitq[s] = q)
  BY DEF DetachedBits
<1>4. \A s \in Slots : bits'[s] \subseteq bits[s]
  BY IndexSets DEF DetachedBits
<1>5. \A s \in Slots, q \in Waitqs : s \in bits'[q] <=> waitq'[s] = q
  BY <1>1, <1>2, <1>3, IndexSets DEF WaitqLinked
<1>6. \A s \in Slots : bits'[s] \subseteq {s}
  BY <1>4 DEF WaitqLinked
<1>7. QED
  BY <1>2, <1>5, <1>6 DEF WaitqLinked

\* So does emptying the child_waitq of a slot that is not queued itself.
LEMMA ClearLinked ==
  ASSUME TypeOK, WaitqLinked, NEW s \in Slots, waitq[s] = NoWaitq,
         waitq' = [waitq EXCEPT ![s] = NoWaitq], bits' = [bits EXCEPT ![s] = {}]
  PROVE  WaitqLinked' /\ waitq' = waitq
<1>1. waitq \in [Slots -> Waitqs \cup {NoWaitq}] /\ bits \in [Waitqs -> SUBSET Slots]
  BY DEF TypeOK
<1>2. waitq' = waitq
  BY <1>1
<1>3. s \notin bits[s]
  BY IndexSets DEF WaitqLinked
<1>4. bits[s] = {}
  BY <1>3 DEF WaitqLinked
<1>5. bits' = bits
  BY <1>1, <1>4, IndexSets
<1>6. QED
  BY <1>2, <1>5 DEF WaitqLinked

\* Sleeping, waking, timing out, exiting and reaping keep the two links of a
\* task to its queue in step.
LEMMA QueueStep == QueueInv /\ [Next]_vars => QueueInv'
<1> SUFFICES ASSUME QueueInv, [Next]_vars
             PROVE  WaitqLinked' /\ WakeupReachesWaiter'
  BY TypeStep DEF QueueInv
<1> USE IndexSets DEF QueueInv
<1>t. /\ state \in [Slots -> States]
      /\ waitq \in [Slots -> Waitqs \cup {NoWaitq}]
      /\ bits \in [Waitqs -> SUBSET Slots]
      /\ g_current_idx \in Slots
  BY DEF TypeOK
<1>u. bits' \in [Waitqs -> SUBSET Slots]
  BY TypeStep DEF TypeOK
<1>0. ASSUME UNCHANGED <<waitq, bits>>,
              \A s \in Slots : \/ state'[s] = state[s]
                               \/ /\ state[s] \in {"RUNNABLE", "RUNNING"}
                                  /\ state'[s] \in {"RUNNABLE", "RUNNING"}
       PROVE  WaitqLinked' /\ WakeupReachesWaiter'
  BY <1>0 DEF WaitqLinked, WakeupReachesWaiter, Waiting
<1>1. ASSUME NEW s \in Tasks, state[s] \in {"UNUSED", "ZOMBIE"},
             waitq' = [waitq EXCEPT ![s] = NoWaitq],
             bits' = [bits EXCEPT ![s] = {}],
             NEW st \in {"RUNNABLE", "UNUSED"},
             state' = [state EXCEPT ![s] = st]
      PROVE  WaitqLinked' /\ WakeupReachesWaiter'
  <2>1. waitq[s] = NoWaitq
    BY <1>1, <1>t DEF WakeupReachesWaiter, Waiting
  <2>2. WaitqLinked' /\ waitq' = waitq
    BY <1>1, <2>1, ClearLinked
  <2>3. WakeupReachesWaiter'
    BY <1>1, <1>t, <2>1, <2>2 DEF WakeupReachesWaiter, Waiting
  <2>4. QED
    BY <2>2, <2>3
<1>2. CASE BootSpawn \/ Spawn
  BY <1>1, <1>2 DEF BootSpawn, Spawn, SpawnIn, IsFreeSlot, Used
<1>3. CASE Yield
  BY <1>0, <1>3, <1>t DEF Yield
<1>4. CASE Exit
  <2> DEFINE me == g_current_idx
             W == UNION {Wakeable(bits[p]) : p \in {s \in Slots : IsSlotOf(s, parent_tid[me])}}
  <2>1. W \cup {me} \in SUBSET Slots
    <3>1. \A p \in Slots : Wakeable(bits[p]) \subseteq Slots
      BY <1>t DEF Wakeable
    <3>2. QED
      BY <1>t, <3>1
  <2>2. /\ waitq' = DetachedWaitq(W \cup {me})
        /\ bits' = DetachedBits(W \cup {me})
        /\ \A s \in Slots : s \notin W \cup {me} => state'[s] = state[s]
        /\ \A s \in Slots : s \in W \cup {me} => state'[s] \in {"ZOMBIE", "RUNNABLE"}
    BY <1>4 DEF Exit
  <2> HIDE DEF W
  <2>3. /\ WaitqLinked'
        /\ \A s \in Slots : waitq'[s] = IF s \in W \cup {me} THEN NoWaitq ELSE waitq[s]
    BY <2>1, <2>2, DetachLinked
  <2>4. QED
    BY <2>2, <2>3 DEF WakeupReachesWaiter, Waiting
<1>5. ASSUME NEW d \in Durations, SleepTicks(d)
      PROVE  WaitqLinked' /\ WakeupReachesWaiter'
  <2>1. WaitqLinked'
    BY <1>5 DEF SleepTicks, WaitqLinked
  <2>2. WakeupReachesWaiter'
    BY <1>5, <1>t DEF SleepTicks, CallerIsTask, WakeupReachesWaiter, Waiting
  <2>3. QED
    BY <2>1, <2>2
<1>6. ASSUME NEW q \in Waitqs, NEW d, NEW pid, WaitqSleep(q, d, pid),
             q \in {RxWaitq, g_current_idx}, g_current_idx # 0
      PROVE  WaitqLinked' /\ WakeupReachesWaiter'
  <2>1. \A s \in Slots, r \in Waitqs :
          s \in bits'[r] <=> IF s = g_current_idx THEN r = q ELSE s \in bits[r]
    BY <1>6 DEF WaitqSleep, DetachedBits, WaitqLinked, TypeOK
  <2>2. \A s \in Slots : waitq'[s] = IF s = g_current_idx THEN q ELSE waitq[s]
    BY <1>6 DEF WaitqSleep, TypeOK
  <2>3. WaitqLinked'
    <3>1. \A s \in Slots, r \in Waitqs : s \in bits'[r] <=> waitq'[s] = r
      BY <1>6, <2>1, <2>2 DEF WaitqLinked
    <3>2. \A s \in Slots : bits'[s] \subseteq {s}
      <4> SUFFICES ASSUME NEW s \in Slots, NEW r \in bits'[s] PROVE r = s
        OBVIOUS
      <4>1. r \in Slots /\ s \in Waitqs
        BY <1>u
      <4>2. IF r = g_current_idx THEN s = q ELSE r \in bits[s]
        BY <2>1, <4>1
      <4>3. CASE r = g_current_idx
        BY <1>6, <4>2, <4>3
      <4>4. CASE r # g_current_idx
        BY <4>2, <4>4 DEF WaitqLinked
      <4>5. QED
        BY <4>3, <4>4
    <3>3. QED
      BY <3>1, <3>2 DEF WaitqLinked
  <2>4. WakeupReachesWaiter'
    BY <1>6, <2>2 DEF WaitqSleep, TypeOK, WakeupReachesWaiter, Waiting
  <2>5. QED
    BY <2>3, <2>4
<1>7. ASSUME NEW d \in Durations, RxSleep(d)
      PROVE  WaitqLinked' /\ WakeupReachesWaiter'
  BY <1>6, <1>7 DEF RxSleep, CallerIsTask
<1>8. ASSUME NEW pid \in Pids, WaitpidReap(pid)
      PROVE  WaitqLinked' /\ WakeupReachesWaiter'
  <2>1. PICK z \in Tasks : state[z] = "ZOMBIE" /\ ClearTask(z)
    BY <1>8 DEF WaitpidReap, IsZombieOf
  <2>2. QED
    BY <1>1, <2>1 DEF ClearTask
<1>9. ASSUME NEW pid \in Pids, WaitpidBlock(pid)
      PROVE  WaitqLinked' /\ WakeupReachesWaiter'
  BY <1>6, <1>9 DEF WaitpidBlock, CallerIsTask, TypeOK
<1>11. CASE RunSelect \/ Block \/ BlockTest \/ EnterTrap \/ LeaveTrap
  BY <1>0, <1>11 DEF RunSelect, Block, BlockTest, EnterTrap, LeaveTrap, slotVars
<1>12. CASE RunDispatch
  BY <1>0, <1>12 DEF RunDispatch, TypeOK
<1>13. CASE Pump
  BY <1>0, <1>13 DEF Pump, TypeOK
<1>14. CASE EntryReturn
  <2>1. Top.idx \in Slots
    BY <1>14, StackTop DEF EntryReturn, Executing, TypeOK, ActivationType
  <2>2. QED
    BY <1>0, <1>14, <2>1 DEF EntryReturn, TypeOK
<1>15. ASSUME NEW W \in SUBSET Slots, Wake(W)
       PROVE  WaitqLinked' /\ WakeupReachesWaiter'
  BY <1>15, DetachLinked DEF Wake, WakeupReachesWaiter, Waiting
<1>16. CASE Tick
  BY <1>15, <1>16 DEF Tick, Due
<1>17. CASE RxWake
  BY <1>15, <1>17 DEF RxWake, Wakeable
<1>18. CASE UNCHANGED vars
  BY <1>0, <1>18 DEF vars
<1>19. QED
  BY <1>2, <1>3, <1>4, <1>5, <1>7, <1>8, <1>9, <1>11, <1>12, <1>13, <1>14,
     <1>16, <1>17, <1>18 DEF Next, Call, Loop

\* The bitmap that the wake functions scan and the waitq pointers of the tasks
\* agree in every behaviour of the scheduler, on any number of slots.
THEOREM WaitQueuesLinked == Spec => []WaitqLinked
<1>1. QueueInv => WaitqLinked
  BY DEF QueueInv
<1>2. QED
  BY QueueInit, QueueStep, <1>1, PTL DEF Spec

\* Only waiting tasks are queued, so the single wakeup of sched_waitq_wake_one
\* reaches a task that waits.
THEOREM WaitQueuesCorrect == Spec => []WakeupReachesWaiter
<1>1. QueueInv => WakeupReachesWaiter
  BY DEF QueueInv
<1>2. QED
  BY QueueInit, QueueStep, <1>1, PTL DEF Spec

----------------------------------------------------------------------------
(* Deadlines. *)

\* A deadline whose computation did not overflow is ahead of the tick counter,
\* even when the counter itself wraps around later.
NothingOverdue ==
  \A s \in Slots :
    state[s] \in Waiting /\ wake_tick[s] # 0 /\ s \notin wrapped
      => wake_tick[s] > g_ticks

\* A deadline that does not overflow lies ahead of the tick counter, and the
\* tick handler wakes whoever it reaches.
LEMMA DeadlineStep == TypeOK /\ NothingOverdue /\ [Next]_vars => NothingOverdue'
<1> SUFFICES ASSUME TypeOK, NothingOverdue, [Next]_vars
             PROVE  NothingOverdue'
  OBVIOUS
<1> USE IndexSets
<1>t. /\ state \in [Slots -> States]
      /\ wake_tick \in [Slots -> 0 .. TickMod - 1]
      /\ wrapped \subseteq Slots
      /\ g_ticks \in 0 .. TickMod - 1
      /\ g_current_idx \in Slots
      /\ TickMod \in Nat \ {0, 1}
  BY SchedAssumption DEF TypeOK
\* Steps after which nobody waits who did not wait before, with the same deadline
<1>0. ASSUME g_ticks' = g_ticks,
             \A s \in Slots :
               \/ state'[s] \notin Waiting
               \/ /\ state'[s] = state[s]
                  /\ wake_tick'[s] = wake_tick[s]
                  /\ s \in wrapped => s \in wrapped'
      PROVE  NothingOverdue'
  BY <1>0 DEF NothingOverdue
\* A task that starts to wait
<1>1. ASSUME NEW d \in Nat \ {0}, ~Overflows(d)
      PROVE  Deadline(d) > g_ticks
  <2>1. g_ticks + d \in 0 .. TickMod - 1
    BY <1>1, <1>t DEF Overflows
  <2>2. QED
    BY <2>1, <1>t DEF Deadline
<1>2. CASE BootSpawn \/ Spawn
  BY <1>0, <1>2, <1>t DEF BootSpawn, Spawn, SpawnIn, Waiting
<1>3. CASE Yield
  BY <1>0, <1>3, <1>t DEF Yield, Waiting
<1>4. CASE Exit
  <2> DEFINE me == g_current_idx
             W == UNION {Wakeable(bits[p]) : p \in {s \in Slots : IsSlotOf(s, parent_tid[me])}}
  <2>1. /\ g_ticks' = g_ticks
        /\ wrapped' = wrapped \ (W \cup {me})
        /\ \A s \in Slots : s \notin W \cup {me} =>
             state'[s] = state[s] /\ wake_tick'[s] = wake_tick[s]
        /\ \A s \in Slots : s \in W \cup {me} => state'[s] \in {"ZOMBIE", "RUNNABLE"}
    BY <1>4 DEF Exit
  <2> HIDE DEF W
  <2>2. QED
    BY <1>0, <2>1 DEF Waiting
<1>5. ASSUME NEW d \in Durations, SleepTicks(d)
      PROVE  NothingOverdue'
  <2> DEFINE n == IF d = 0 THEN 1 ELSE d
  <2>1. n \in Nat \ {0}
    BY SchedAssumption
  <2>2. /\ g_ticks' = g_ticks
        /\ \A s \in Slots \ {g_current_idx} :
             /\ state'[s] = state[s]
             /\ wake_tick'[s] = wake_tick[s]
             /\ s \in wrapped => s \in wrapped'
        /\ wake_tick'[g_current_idx] = Deadline(n)
        /\ g_current_idx \notin wrapped' => ~Overflows(n)
    BY <1>5, <1>t DEF SleepTicks
  <2> HIDE DEF n
  <2>3. QED
    BY <1>1, <2>1, <2>2 DEF NothingOverdue
<1>6. ASSUME NEW q, NEW d \in Nat, NEW pid, WaitqSleep(q, d, pid)
      PROVE  NothingOverdue'
  <2>2. /\ g_ticks' = g_ticks
        /\ \A s \in Slots \ {g_current_idx} :
             /\ state'[s] = state[s]
             /\ wake_tick'[s] = wake_tick[s]
             /\ s \in wrapped => s \in wrapped'
        /\ d = 0 => wake_tick'[g_current_idx] = 0
        /\ d # 0 => wake_tick'[g_current_idx] = Deadline(d)
        /\ d # 0 /\ g_current_idx \notin wrapped' => ~Overflows(d)
    BY <1>6, <1>t DEF WaitqSleep
  <2>3. QED
    BY <1>1, <2>2 DEF NothingOverdue
<1>7. ASSUME NEW d \in Durations, RxSleep(d)
      PROVE  NothingOverdue'
  BY <1>6, <1>7, SchedAssumption DEF RxSleep
<1>8. ASSUME NEW pid \in Pids, WaitpidReap(pid)
      PROVE  NothingOverdue'
  <2>1. PICK z \in Tasks : ClearTask(z)
    BY <1>8 DEF WaitpidReap
  <2>2. g_ticks' = g_ticks /\ wrapped' = wrapped
    BY <1>8 DEF WaitpidReap, globalVars
  <2>3. QED
    BY <1>0, <1>t, <2>1, <2>2 DEF ClearTask, Waiting
<1>9. ASSUME NEW pid \in Pids, WaitpidBlock(pid)
      PROVE  NothingOverdue'
  BY <1>6, <1>9 DEF WaitpidBlock
<1>11. CASE RunSelect \/ Block \/ BlockTest \/ EnterTrap \/ LeaveTrap
  BY <1>0, <1>11 DEF RunSelect, Block, BlockTest, EnterTrap, LeaveTrap, slotVars, globalVars
<1>12. CASE RunDispatch
  BY <1>0, <1>12, <1>t DEF RunDispatch, Waiting
<1>13. CASE Pump
  BY <1>0, <1>13, <1>t DEF Pump, Waiting
<1>14. CASE EntryReturn
  <2>1. Top.idx \in Slots
    BY <1>14, StackTop DEF EntryReturn, Executing, TypeOK, ActivationType
  <2>2. QED
    BY <1>0, <1>14, <1>t, <2>1 DEF EntryReturn, Waiting
<1>15. CASE Tick
  <2>1. NextTick \in Nat
    BY NextTickType, <1>t
  <2>2. /\ g_ticks' = NextTick
        /\ \A s \in Slots : state'[s] \in Waiting =>
             /\ s \notin Due(NextTick)
             /\ state'[s] = state[s]
             /\ wake_tick'[s] = wake_tick[s]
    BY <1>15 DEF Tick, Wake, Waiting
  <2>3. QED
    BY <1>t, <2>1, <2>2 DEF NothingOverdue, Due
<1>16. CASE RxWake
  <2>1. PICK s \in Tasks : Wake(Wakeable({s}))
    BY <1>16 DEF RxWake
  <2>2. g_ticks' = g_ticks
    BY <1>16 DEF RxWake
  <2>3. QED
    BY <1>0, <1>t, <2>1, <2>2 DEF Wake, Waiting
<1>17. CASE UNCHANGED vars
  BY <1>0, <1>17 DEF vars
<1>18. QED
  BY <1>2, <1>3, <1>4, <1>5, <1>7, <1>8, <1>9, <1>11, <1>12, <1>13, <1>14,
     <1>15, <1>16, <1>17 DEF Next, Call, Loop

\* What a tick does to a deadline ahead: it is the next tick, and its task is
\* woken, or it stays ahead and its task waits on.
LEMMA TickOnTime ==
  ASSUME TypeOK, NothingOverdue, Tick, NEW s \in Slots,
         state[s] \in Waiting, wake_tick[s] # 0, s \notin wrapped
  PROVE  state'[s] \notin Waiting <=> g_ticks' = wake_tick[s]
<1>1. /\ wake_tick[s] \in 0 .. TickMod - 1 /\ wake_tick[s] > g_ticks
      /\ g_ticks \in 0 .. TickMod - 1 /\ TickMod \in Nat \ {0, 1}
  BY SchedAssumption DEF TypeOK, NothingOverdue
<1>2. NextTick = g_ticks + 1
  BY <1>1 DEF NextTick
<1>3. s \in Due(NextTick) <=> NextTick = wake_tick[s]
  BY <1>1, <1>2 DEF Due
<1>4. g_ticks' = NextTick /\ state'[s] = IF s \in Due(NextTick) THEN "RUNNABLE" ELSE state[s]
  BY DEF Tick, Wake
<1>5. QED
  BY <1>3, <1>4 DEF Waiting

\* Only the tick handler counts.
LEMMA OnlyTickCounts ==
  ASSUME [Next]_vars, g_ticks' # g_ticks
  PROVE  Tick
<1>1. ~BootSpawn /\ ~Spawn
  BY DEF BootSpawn, Spawn, SpawnIn
<1>2. ~Yield /\ ~Exit /\ ~(\E d \in Durations : SleepTicks(d))
  BY DEF Yield, Exit, SleepTicks
<1>3. ~(\E d \in Durations : RxSleep(d)) /\ ~(\E pid \in Pids : WaitpidBlock(pid))
  BY DEF RxSleep, WaitpidBlock, WaitqSleep
<1>4. ~(\E pid \in Pids : WaitpidReap(pid))
  BY DEF WaitpidReap, globalVars
<1>5. ~RunSelect /\ ~RunDispatch /\ ~Pump /\ ~EntryReturn /\ ~RxWake
  BY DEF RunSelect, RunDispatch, Pump, EntryReturn, RxWake
<1>6. ~Block /\ ~BlockTest /\ ~EnterTrap /\ ~LeaveTrap
  BY DEF Block, BlockTest, EnterTrap, LeaveTrap, globalVars
<1>7. ~UNCHANGED vars
  BY DEF vars
<1>8. QED
  BY <1>1, <1>2, <1>3, <1>4, <1>5, <1>6, <1>7 DEF Next, Call, Loop

\* schedule_tick wakes every sleep and timed wait whose deadline did not
\* overflow at the tick of its deadline and not earlier, for any number of
\* tasks and any width of the tick counter: the counter never passes a deadline.
THEOREM DeadlinesKept == Spec => WokenOnTime
<1>1. Init => NothingOverdue
  BY DEF Init, NothingOverdue, Waiting
<1>2. TypeOK /\ NothingOverdue /\ [Next]_vars =>
        [g_ticks' # g_ticks =>
           \A s \in Slots :
             state[s] \in Waiting /\ wake_tick[s] # 0 /\ s \notin wrapped =>
               (state'[s] \notin Waiting <=> g_ticks' = wake_tick[s])]_vars
  BY OnlyTickCounts, TickOnTime
<1>3. QED
  BY TypeInit, TypeStep, DeadlineStep, <1>1, <1>2, PTL DEF Spec, WokenOnTime

----------------------------------------------------------------------------
(* waitpid: the exit of a child reaches a parent that waits for it. *)

\* sched_exit_code finds a parent by its tid, the first slot that has it: that
\* it wakes the right one needs distinct tids and the linked queues.
ChildInv == QueueInv /\ TidsDistinct /\ ChildExitNotMissed

\* Nobody waits for a child after sched_init.
LEMMA ChildInit == Init => ChildInv
  BY QueueInit, IndexSets
     DEF Init, ChildInv, TidsDistinct, ChildExitNotMissed, Used

\* The tid of a live task names its slot and no other.
LEMMA TidFinds ==
  ASSUME TypeOK, TidsDistinct, NEW p \in Tasks, Used(p)
  PROVE  IsSlotOf(p, tid[p])
<1>1. tid[p] # 0
  BY DEF TidsDistinct
<1>2. \A i \in 1 .. p - 1 : i \in Tasks /\ i # p
  BY SchedAssumption DEF Tasks
<1>3. QED
  BY <1>1, <1>2 DEF TidsDistinct, IsSlotOf

\* A child that exits wakes a parent parked on its child_waitq, and waitpid
\* parks only when no child is a zombie.
LEMMA ChildStep == ChildInv /\ [Next]_vars => ChildInv'
<1> SUFFICES ASSUME ChildInv, [Next]_vars
             PROVE  TidsDistinct' /\ ChildExitNotMissed'
  BY QueueStep DEF ChildInv
<1> USE IndexSets DEF ChildInv, QueueInv
<1>t. /\ state \in [Slots -> States]
      /\ tid \in [Slots -> Nat]
      /\ parent_tid \in [Slots -> Int]
      /\ waitq \in [Slots -> Waitqs \cup {NoWaitq}]
      /\ bits \in [Waitqs -> SUBSET Slots]
      /\ wait_pid \in [Slots -> Int]
      /\ g_current_idx \in Slots
      /\ g_next_tid \in Nat \ {0}
  BY DEF TypeOK
\* Steps that neither create nor remove a task, nor make one a zombie
<1>0. ASSUME UNCHANGED <<tid, parent_tid, g_next_tid>>,
             \A s \in Tasks : state'[s] = "ZOMBIE" => state[s] = "ZOMBIE",
             \A s \in Tasks : state'[s] = "UNUSED" <=> state[s] = "UNUSED",
             \A s \in Tasks : s \in bits'[s] => s \in bits[s] /\ wait_pid'[s] = wait_pid[s]
      PROVE  TidsDistinct' /\ ChildExitNotMissed'
  <2>1. TidsDistinct'
    BY <1>0 DEF TidsDistinct, Used
  <2>2. ChildExitNotMissed'
    BY <1>0 DEF ChildExitNotMissed, IsZombieOf, IsChildOf, Used
  <2>3. QED
    BY <2>1, <2>2
<1>1. ASSUME NEW s \in Tasks, SpawnIn(s)
      PROVE  TidsDistinct' /\ ChildExitNotMissed'
  <2>1. /\ state' = [state EXCEPT ![s] = "RUNNABLE"]
        /\ tid' = [tid EXCEPT ![s] = g_next_tid]
        /\ g_next_tid' = g_next_tid + 1
        /\ bits' = [bits EXCEPT ![s] = {}]
        /\ wait_pid' = wait_pid
        /\ \A r \in Slots \ {s} : parent_tid'[r] = parent_tid[r]
        /\ state[s] = "UNUSED"
    BY <1>1, <1>t DEF SpawnIn, IsFreeSlot, Used
  <2>2. TidsDistinct'
    BY <1>t, <2>1 DEF TidsDistinct, Used
  <2>3. ChildExitNotMissed'
    BY <1>t, <2>1 DEF ChildExitNotMissed, IsZombieOf, IsChildOf, Used
  <2>4. QED
    BY <2>2, <2>3
<1>2. CASE BootSpawn \/ Spawn
  BY <1>1, <1>2 DEF BootSpawn, Spawn
<1>3. CASE Yield
  BY <1>0, <1>3, <1>t DEF Yield
<1>4. CASE Exit
  <2> DEFINE me == g_current_idx
             P == {s \in Slots : IsSlotOf(s, parent_tid[me])}
             W == UNION {Wakeable(bits[p]) : p \in P}
  <2>1. /\ me \in Tasks /\ Used(me)
        /\ UNCHANGED <<tid, parent_tid, g_next_tid>>
        /\ \A s \in Slots : state'[s] = IF s = me THEN "ZOMBIE"
                                        ELSE IF s \in W THEN "RUNNABLE" ELSE state[s]
        /\ bits' = DetachedBits(W \cup {me})
        /\ \A s \in Slots : s \notin W \cup {me} => wait_pid'[s] = wait_pid[s]
    BY <1>4, <1>t DEF Exit, CallerIsTask
  <2>2. \A s \in W : s \in Slots /\ state[s] \in Waiting
    <3>1. \A p \in Slots : \A s \in Wakeable(bits[p]) : s \in Slots /\ state[s] \in Waiting
      BY <1>t DEF Wakeable
    <3>2. QED
      BY <3>1
  <2>3. \A p \in P : p \in bits[p] /\ p # 0 /\ state[p] \in Waiting => p \in W
    BY DEF Wakeable
  <2> HIDE DEF W
  <2>4. \A s \in Slots : s \in bits'[s] => s \in bits[s] /\ s \notin W \cup {me}
    BY <2>1 DEF DetachedBits, WaitqLinked
  <2>5. TidsDistinct'
    <3>1. tid' = tid /\ g_next_tid' = g_next_tid
      BY <2>1
    <3>2. \A s \in Tasks : state'[s] # "UNUSED" => state[s] # "UNUSED"
      BY <1>t, <2>1, <2>2 DEF Used, Waiting
    <3>3. QED
      BY <3>1, <3>2 DEF TidsDistinct, Used
  <2>6. ASSUME NEW p \in Tasks, NEW z \in Tasks, p \in bits'[p],
               IsZombieOf(z, p, wait_pid[p])'
        PROVE  FALSE
    <3>1. p \in bits[p] /\ p \notin W /\ p # me /\ wait_pid'[p] = wait_pid[p]
      BY <2>1, <2>4, <2>6
    <3>2. state[p] \in Waiting /\ Used(p)
      BY <1>t, <3>1 DEF WaitqLinked, WakeupReachesWaiter, Waiting, Used
    <3>3. CASE z = me
      <4>1. parent_tid[me] = tid[p]
        BY <2>1, <2>6, <3>3 DEF IsZombieOf, IsChildOf
      <4>2. IsSlotOf(p, parent_tid[me])
        BY <3>2, <4>1, TidFinds
      <4>3. QED
        BY <2>3, <3>1, <3>2, <4>2
    <3>4. CASE z # me
      <4>1. state[z] = "ZOMBIE"
        BY <2>1, <2>6, <3>4 DEF IsZombieOf
      <4>2. IsZombieOf(z, p, wait_pid[p])
        BY <2>1, <2>6, <3>1, <4>1 DEF IsZombieOf, IsChildOf, Used
      <4>3. QED
        BY <3>1, <4>2 DEF ChildExitNotMissed
    <3>5. QED
      BY <3>3, <3>4
  <2>7. QED
    BY <2>5, <2>6 DEF ChildExitNotMissed
<1>5. ASSUME NEW d \in Durations, SleepTicks(d)
      PROVE  TidsDistinct' /\ ChildExitNotMissed'
  BY <1>0, <1>5, <1>t DEF SleepTicks, CallerIsTask, Used
<1>6. ASSUME NEW d \in Durations, RxSleep(d)
      PROVE  TidsDistinct' /\ ChildExitNotMissed'
  <2>1. \A s \in Tasks : s \in bits'[s] => s \in bits[s] /\ s # g_current_idx
    BY <1>6, <1>t DEF RxSleep, WaitqSleep, DetachedBits, WaitqLinked
  <2>2. QED
    BY <1>0, <1>6, <1>t, <2>1 DEF RxSleep, WaitqSleep, CallerIsTask, Used
<1>7. ASSUME NEW pid \in Pids, WaitpidReap(pid)
      PROVE  TidsDistinct' /\ ChildExitNotMissed'
  <2>1. PICK z \in Tasks : ClearTask(z)
    BY <1>7 DEF WaitpidReap
  <2>2. wait_pid' = wait_pid /\ g_next_tid' = g_next_tid
    BY <1>7 DEF WaitpidReap, globalVars
  <2>3. TidsDistinct'
    BY <1>t, <2>1, <2>2 DEF ClearTask, TidsDistinct, Used
  <2>4. ChildExitNotMissed'
    BY <1>t, <2>1, <2>2 DEF ClearTask, ChildExitNotMissed, IsZombieOf, IsChildOf, Used
  <2>5. QED
    BY <2>3, <2>4
<1>8. ASSUME NEW pid \in Pids, WaitpidBlock(pid)
      PROVE  TidsDistinct' /\ ChildExitNotMissed'
  <2> DEFINE me == g_current_idx
  <2>1. /\ me \in Tasks /\ Used(me)
        /\ \A s \in Tasks : ~IsZombieOf(s, me, pid)
        /\ UNCHANGED <<tid, parent_tid, g_next_tid>>
        /\ state' = [state EXCEPT ![me] = "BLOCKED"]
        /\ wait_pid' = [wait_pid EXCEPT ![me] = pid]
        /\ \A s \in Tasks : s \in bits'[s] => s \in bits[s] \/ s = me
    BY <1>8, <1>t DEF WaitpidBlock, CallerIsTask, WaitqSleep, DetachedBits
  <2>u. \A s \in Tasks : /\ state'[s] # "UNUSED" => state[s] # "UNUSED"
                         /\ state'[s] = "ZOMBIE" => state[s] = "ZOMBIE"
    BY <1>t, <2>1 DEF Used
  <2>2. TidsDistinct'
    <3>1. tid' = tid /\ g_next_tid' = g_next_tid
      BY <2>1
    <3>2. QED
      BY <3>1, <2>u DEF TidsDistinct, Used
  <2>3. \A s, p \in Tasks : \A n : IsZombieOf(s, p, n)' => IsZombieOf(s, p, n)
    <3>1. tid' = tid /\ parent_tid' = parent_tid
      BY <2>1
    <3>2. ASSUME NEW s \in Tasks, NEW p \in Tasks, NEW n, IsZombieOf(s, p, n)'
          PROVE  IsZombieOf(s, p, n)
      BY <3>1, <3>2, <2>u DEF IsZombieOf, IsChildOf, Used
    <3>3. QED
      BY <3>2
  <2>4. ChildExitNotMissed'
    <3>1. \A s \in Tasks : wait_pid'[s] = IF s = me THEN pid ELSE wait_pid[s]
      BY <1>t, <2>1
    <3>2. ASSUME NEW s \in Tasks, NEW z \in Tasks, s \in bits'[s]
          PROVE  ~IsZombieOf(z, s, wait_pid'[s])
      BY <2>1, <3>1, <3>2 DEF ChildExitNotMissed
    <3>3. QED
      BY <2>3, <3>2 DEF ChildExitNotMissed
  <2>5. QED
    BY <2>2, <2>4
<1>9. CASE RunSelect \/ Block \/ BlockTest \/ EnterTrap \/ LeaveTrap
  BY <1>0, <1>9 DEF RunSelect, Block, BlockTest, EnterTrap, LeaveTrap, slotVars, globalVars
<1>10. CASE RunDispatch
  BY <1>0, <1>10, <1>t DEF RunDispatch
<1>11. CASE Pump
  BY <1>0, <1>11, <1>t DEF Pump
<1>12. CASE EntryReturn
  <2>1. Top.idx \in Slots
    BY <1>12, StackTop DEF EntryReturn, Executing, TypeOK, ActivationType
  <2>2. QED
    BY <1>0, <1>12, <1>t, <2>1 DEF EntryReturn
<1>13. ASSUME NEW W \in SUBSET Slots, Wake(W), \A s \in W : state[s] \in Waiting,
              UNCHANGED <<tid, parent_tid, g_next_tid>>
       PROVE  TidsDistinct' /\ ChildExitNotMissed'
  <2>1. \A s \in Tasks : s \in bits'[s] => s \in bits[s] /\ s \notin W
    BY <1>13 DEF Wake, DetachedBits, WaitqLinked
  <2>2. QED
    BY <1>0, <1>13, <1>t, <2>1 DEF Wake, Waiting
<1>14. CASE Tick
  BY <1>13, <1>14 DEF Tick, Due
<1>15. CASE RxWake
  BY <1>13, <1>15 DEF RxWake, Wakeable
<1>16. CASE UNCHANGED vars
  BY <1>0, <1>16 DEF vars
<1>17. QED
  BY <1>2, <1>3, <1>4, <1>5, <1>6, <1>7, <1>8, <1>9, <1>10, <1>11, <1>12,
     <1>14, <1>15, <1>16 DEF Next, Call, Loop

\* The exit of a child is never missed by a parent parked in waitpid, and tids
\* of live tasks are distinct, for any number of tasks.
THEOREM WaitpidCorrect == Spec => [](TidsDistinct /\ ChildExitNotMissed)
<1>1. ChildInv => TidsDistinct /\ ChildExitNotMissed
  BY DEF ChildInv
<1>2. QED
  BY ChildInit, ChildStep, <1>1, PTL DEF Spec

----------------------------------------------------------------------------
(* Nested activations. *)

\* The RUNNING mark and g_current_idx follow the stack of activations.
NestInv == TypeOK /\ OneRunning /\ CurrentIsTop /\ DispatchReady

\* After sched_init no activation exists.
LEMMA NestInit == Init => NestInv
<1>1. Init => TypeOK
  BY TypeInit
<1>2. Init => OneRunning /\ DispatchReady
  BY IndexSets DEF Init, OneRunning, DispatchReady
<1>3. Init => CurrentIsTop
  BY DEF Init, CurrentIsTop
<1>4. QED
  BY <1>1, <1>2, <1>3 DEF NestInv

\* Blocking, nested dispatch and return restore g_current_idx and RUNNING at
\* every level, whatever the nested tasks did meanwhile.
LEMMA NestStep == NestInv /\ [Next]_vars => NestInv'
<1> SUFFICES ASSUME NestInv, [Next]_vars
             PROVE  OneRunning' /\ CurrentIsTop' /\ DispatchReady'
  BY TypeStep DEF NestInv
<1> USE IndexSets DEF NestInv
<1>t. /\ state \in [Slots -> States]
      /\ g_current_idx \in Slots
      /\ stack \in Seq(ActivationType)
  BY DEF TypeOK
\* Steps that leave the activations alone and make nobody RUNNING
<1>0. ASSUME UNCHANGED <<run_pc, stack, g_current_idx>>,
             \A s \in Slots : state'[s] = "RUNNING" => state[s] = "RUNNING",
             state'[0] = state[0],
             run_pc = "dispatch" => state'[g_current_idx] = "RUNNABLE"
      PROVE  OneRunning' /\ CurrentIsTop' /\ DispatchReady'
  <2>1. OneRunning'
    BY <1>0 DEF OneRunning, Top
  <2>2. CurrentIsTop'
    BY <1>0 DEF CurrentIsTop, Top
  <2>3. DispatchReady'
    BY <1>0 DEF DispatchReady
  <2>4. QED
    BY <2>1, <2>2, <2>3
\* A task that executes is called by sched_run, which is then not selecting
<1>1. Executing => run_pc = "entry" /\ run_pc # "dispatch"
  BY DEF Executing, CurrentIsTop
<1>2. ASSUME NEW s \in Tasks, SpawnIn(s)
      PROVE  /\ \A r \in Slots : state'[r] = "RUNNING" => state[r] = "RUNNING"
             /\ state'[0] = state[0]
             /\ UNCHANGED <<stack, g_current_idx>>
  BY <1>2, <1>t DEF SpawnIn
<1>3. CASE BootSpawn
  <2>1. stack = <<>> /\ run_pc' = "select"
    BY <1>3 DEF BootSpawn, CurrentIsTop
  <2>2. OneRunning'
    BY <1>2, <1>3, <2>1 DEF BootSpawn, OneRunning
  <2>3. CurrentIsTop' /\ DispatchReady'
    BY <1>2, <1>3, <2>1 DEF BootSpawn, CurrentIsTop, DispatchReady
  <2>4. QED
    BY <2>2, <2>3
<1>4. CASE Spawn
  BY <1>0, <1>1, <1>2, <1>4 DEF Spawn
<1>5. CASE Yield
  BY <1>0, <1>1, <1>5, <1>t DEF Yield, CallerIsTask
<1>6. CASE Exit
  <2>1. /\ UNCHANGED <<run_pc, stack, g_current_idx>>
        /\ \A s \in Slots : state'[s] = "RUNNING" => state[s] = "RUNNING"
        /\ run_pc # "dispatch"
    BY <1>1, <1>6, <1>t DEF Exit, CallerIsTask
  <2>2. state'[0] = state[0]
    <3>1. \A Q : 0 \notin Wakeable(Q)
      BY DEF Wakeable
    <3>2. QED
      BY <1>6, <1>t, <3>1 DEF Exit, CallerIsTask
  <2>3. QED
    BY <1>0, <2>1, <2>2
<1>7. ASSUME NEW d \in Durations, SleepTicks(d)
      PROVE  OneRunning' /\ CurrentIsTop' /\ DispatchReady'
  BY <1>0, <1>1, <1>7, <1>t DEF SleepTicks, CallerIsTask
<1>8. ASSUME NEW q, NEW d, NEW pid, WaitqSleep(q, d, pid), CallerIsTask
      PROVE  OneRunning' /\ CurrentIsTop' /\ DispatchReady'
  BY <1>0, <1>1, <1>8, <1>t DEF WaitqSleep, CallerIsTask
<1>9. ASSUME NEW d \in Durations, RxSleep(d)
      PROVE  OneRunning' /\ CurrentIsTop' /\ DispatchReady'
  BY <1>8, <1>9 DEF RxSleep
<1>10. ASSUME NEW pid \in Pids, WaitpidReap(pid)
       PROVE  OneRunning' /\ CurrentIsTop' /\ DispatchReady'
  <2>1. PICK z \in Tasks : ClearTask(z)
    BY <1>10 DEF WaitpidReap
  <2>2. UNCHANGED <<run_pc, stack, g_current_idx>> /\ run_pc # "dispatch"
    BY <1>1, <1>10 DEF WaitpidReap, CallerIsTask, globalVars
  <2>3. QED
    BY <1>0, <1>t, <2>1, <2>2 DEF ClearTask
<1>11. ASSUME NEW pid \in Pids, WaitpidBlock(pid)
       PROVE  OneRunning' /\ CurrentIsTop' /\ DispatchReady'
  BY <1>8, <1>11 DEF WaitpidBlock
<1>12. CASE RunSelect
  <2>1. run_pc = "select" /\ run_pc' = "dispatch" /\ UNCHANGED <<stack, state>>
    BY <1>12 DEF RunSelect, slotVars
  <2>2. stack = <<>>
    BY <2>1 DEF CurrentIsTop
  <2>3. \A s \in Slots : state[s] # "RUNNING"
    BY <2>2 DEF OneRunning
  <2>4. state[0] = "RUNNABLE"
    BY <2>3 DEF DispatchReady
  <2>5. state'[g_current_idx'] = "RUNNABLE"
    BY <1>12, <2>1, <2>4 DEF RunSelect, IsPickNext, Runnable
  <2>6. CurrentIsTop'
    BY <2>1, <2>2 DEF CurrentIsTop
  <2>7. QED
    BY <2>1, <2>3, <2>4, <2>5, <2>6 DEF OneRunning, DispatchReady
<1>13. CASE RunDispatch
  <2>1. run_pc = "dispatch" /\ stack = <<>>
    BY <1>13 DEF RunDispatch, CurrentIsTop
  <2>2. \A s \in Slots : state[s] # "RUNNING"
    BY <2>1 DEF OneRunning
  <2>3. state[g_current_idx] = "RUNNABLE"
    BY <2>1 DEF DispatchReady
  <2>4. /\ state' = [state EXCEPT ![g_current_idx] = "RUNNING"]
        /\ stack' = <<Activation(g_current_idx)>>
        /\ run_pc' = "entry"
        /\ g_current_idx' = g_current_idx
    BY <1>13, <2>3 DEF RunDispatch
  <2>5. stack' # <<>> /\ Len(stack') = 1 /\ Top' = Activation(g_current_idx)
    BY <2>4 DEF Top
  <2>6. OneRunning'
    <3>1. \A s \in Slots : state'[s] = "RUNNING" => s = g_current_idx
      BY <1>t, <2>2, <2>4
    <3>2. Top'.idx = g_current_idx /\ Top'.pc = "run"
      BY <2>5 DEF Activation
    <3>3. QED
      BY <2>4, <2>5, <3>1, <3>2 DEF OneRunning
  <2>7. CurrentIsTop'
    BY <2>4, <2>5 DEF CurrentIsTop, Activation
  <2>8. DispatchReady'
    BY <1>t, <2>4 DEF DispatchReady
  <2>9. QED
    BY <2>6, <2>7, <2>8
<1>14. ASSUME stack # <<>>, NEW pc \in {"run", "block", "pump"}, stack' = TopAt(pc),
              pc = "pump" => state[Top.idx] # "RUNNING",
              UNCHANGED <<run_pc, g_current_idx, state>>
       PROVE  OneRunning' /\ CurrentIsTop' /\ DispatchReady'
  <2>1. /\ stack' # <<>>
        /\ Len(stack') = Len(stack)
        /\ \A k \in 1 .. Len(stack) : /\ stack'[k].idx = stack[k].idx
                                      /\ stack'[k].prev = stack[k].prev
        /\ stack'[Len(stack)].pc = pc
    BY <1>14, <1>t, StackTopAt
  <2>2. Len(stack) \in 1 .. Len(stack)
    BY <1>14, <1>t, StackTop
  <2>3. Top'.idx = Top.idx /\ Top'.pc = pc
    BY <2>1, <2>2 DEF Top
  <2>4. OneRunning'
    BY <1>14, <2>1, <2>3 DEF OneRunning
  <2>5. CurrentIsTop'
    <3>1. \A k \in 2 .. Len(stack) : k \in 1 .. Len(stack) /\ k - 1 \in 1 .. Len(stack)
      BY <1>t
    <3>2. QED
      <4>1. /\ run_pc' = "entry" <=> stack' # <<>>
            /\ g_current_idx' = Top'.idx
        BY <1>14, <2>1, <2>3 DEF CurrentIsTop
      <4>2. \A k \in 2 .. Len(stack') : stack'[k].prev = stack'[k - 1].idx
        BY <2>1, <3>1 DEF CurrentIsTop
      <4>3. QED
        BY <4>1, <4>2 DEF CurrentIsTop
  <2>6. DispatchReady'
    BY <1>14 DEF DispatchReady
  <2>7. QED
    BY <2>4, <2>5, <2>6
<1>15. CASE Block
  BY <1>14, <1>15 DEF Block, CallerIsTask, Executing, slotVars, globalVars
<1>16. CASE BlockTest
  BY <1>14, <1>16 DEF BlockTest, Waiting, slotVars, globalVars
<1>17. CASE Pump
  <2>1. stack # <<>> /\ Top.pc = "pump" /\ run_pc = "entry" /\ run_pc' = run_pc
    BY <1>17 DEF Pump, CurrentIsTop
  <2>2. \A s \in Slots : state[s] # "RUNNING"
    BY <2>1 DEF OneRunning
  <2>3. PICK next \in Slots : IsPickNext(next) /\ Pump!3!(next)
    BY <1>17 DEF Pump
  <2>4. state[next] = "RUNNABLE"
    BY <2>2, <2>3 DEF IsPickNext, Runnable, DispatchReady
  <2>5. /\ g_current_idx' = next
        /\ state' = [state EXCEPT ![next] = "RUNNING"]
        /\ stack' = Append(TopAt("block"), Activation(next))
    BY <2>3, <2>4
  <2> DEFINE below == TopAt("block")
             n == Len(stack)
  <2>6. /\ below \in Seq(ActivationType)
        /\ Len(below) = n
        /\ \A k \in 1 .. n : below[k].idx = stack[k].idx /\ below[k].prev = stack[k].prev
        /\ n \in Nat \ {0}
    BY <1>t, <2>1, StackTopAt, StackTop
  <2>7. Activation(next) \in ActivationType
    BY <1>t DEF Activation, ActivationType
  <2> HIDE DEF below
  <2>8. /\ stack' # <<>>
        /\ Len(stack') = n + 1
        /\ \A k \in 1 .. n : stack'[k] = below[k]
        /\ stack'[n + 1] = Activation(next)
    <3>1. stack' = Append(below, Activation(next))
      BY <2>5 DEF below
    <3>2. QED
      BY <2>6, <2>7, <3>1, StackPush
  <2>9. Top' = Activation(next)
    BY <2>8 DEF Top
  <2>10. OneRunning'
    BY <1>t, <2>2, <2>5, <2>8, <2>9 DEF OneRunning, Activation
  <2>11. CurrentIsTop'
    <3> HIDE DEF n
    <3>n. n \in Nat \ {0}
      BY <2>6
    <3>k. \A k \in 1 .. n : stack'[k].idx = stack[k].idx /\ stack'[k].prev = stack[k].prev
      BY <2>6, <2>8
    <3>1. ASSUME NEW k \in 2 .. n + 1
          PROVE  stack'[k].prev = stack'[k - 1].idx
      <4>1. CASE k = n + 1
        <5>1. k - 1 = n /\ n \in 1 .. n
          BY <3>n, <4>1
        <5>2. stack'[k].prev = g_current_idx
          BY <2>8, <4>1 DEF Activation
        <5>3. stack'[k - 1].idx = stack[n].idx
          BY <3>k, <5>1
        <5>4. QED
          BY <2>1, <5>2, <5>3 DEF CurrentIsTop, Top, n
      <4>2. CASE k \in 2 .. n
        <5>1. k \in 1 .. n /\ k - 1 \in 1 .. n
          BY <3>n, <4>2
        <5>2. stack'[k].prev = stack[k].prev /\ stack'[k - 1].idx = stack[k - 1].idx
          BY <3>k, <5>1
        <5>3. QED
          BY <2>1, <4>2, <5>2 DEF CurrentIsTop, n
      <4>3. QED
        BY <3>n, <4>1, <4>2
    <3>2. QED
      BY <2>1, <2>5, <2>8, <2>9, <3>1, <3>n DEF CurrentIsTop, Activation
  <2>12. DispatchReady'
    BY <1>t, <2>1, <2>5 DEF DispatchReady
  <2>13. QED
    BY <2>10, <2>11, <2>12
<1>18. CASE EntryReturn
  <2> DEFINE n == Len(stack)
  <2>1. stack # <<>> /\ n \in Nat \ {0} /\ Top.idx \in Slots
    BY <1>18, <1>t, StackTop DEF EntryReturn, Executing, ActivationType
  <2>2. /\ Len(stack') = n - 1
        /\ \A k \in 1 .. n - 1 : stack'[k] = stack[k]
        /\ stack' # <<>> <=> n # 1
    BY <1>18, <1>t, <2>1, StackPop DEF EntryReturn
  <2>3. /\ state' = [state EXCEPT ![Top.idx] = IF @ = "RUNNING" THEN "RUNNABLE" ELSE @]
        /\ IF n = 1 THEN run_pc' = "select" /\ UNCHANGED g_current_idx
                    ELSE g_current_idx' = Top.prev /\ UNCHANGED run_pc
    BY <1>18 DEF EntryReturn
  <2>4. \A s \in Slots : state'[s] # "RUNNING"
    BY <1>t, <2>1, <2>3 DEF OneRunning
  <2>5. run_pc = "entry"
    BY <2>1 DEF CurrentIsTop
  <2>6. CurrentIsTop'
    <3>1. CASE n = 1
      <4>1. stack' = <<>> /\ run_pc' = "select"
        BY <2>2, <2>3, <3>1
      <4>2. \A k \in 2 .. Len(stack') : FALSE
        BY <2>2, <3>1
      <4>3. QED
        BY <4>1, <4>2 DEF CurrentIsTop
    <3>2. CASE n # 1
      <4>1. n - 1 \in 1 .. n - 1 /\ n \in 2 .. n
        <5>1. \A m \in Nat \ {0} : m # 1 => m - 1 \in 1 .. m - 1 /\ m \in 2 .. m
          OBVIOUS
        <5>2. QED
          BY <2>1, <3>2, <5>1, Zenon
      <4>2. Top' = stack[n - 1]
        BY <2>2, <4>1 DEF Top
      <4>3. Top.prev = stack[n - 1].idx
        BY <4>1 DEF CurrentIsTop, Top
      <4>4. \A k \in 2 .. n - 1 : stack'[k].prev = stack'[k - 1].idx
        <5>1. \A k \in 2 .. n - 1 : k \in 1 .. n - 1 /\ k - 1 \in 1 .. n - 1 /\ k \in 2 .. n
          BY <2>1
        <5>2. QED
          BY <2>2, <5>1 DEF CurrentIsTop
      <4>5. QED
        BY <2>2, <2>3, <2>5, <3>2, <4>2, <4>3, <4>4 DEF CurrentIsTop
    <3>3. QED
      BY <3>1, <3>2
  <2>7. DispatchReady'
    BY <1>t, <2>1, <2>3, <2>5 DEF DispatchReady
  <2>8. QED
    BY <2>4, <2>6, <2>7 DEF OneRunning
<1>19. ASSUME NEW W \in SUBSET Slots, Wake(W), \A s \in W : state[s] \in Waiting,
              UNCHANGED <<run_pc, stack, g_current_idx>>
       PROVE  OneRunning' /\ CurrentIsTop' /\ DispatchReady'
  <2>1. state'[0] = state[0]
    BY <1>19 DEF Wake, Waiting, DispatchReady
  <2>2. run_pc = "dispatch" => state'[g_current_idx] = "RUNNABLE"
    BY <1>19, <1>t DEF Wake, DispatchReady
  <2>3. QED
    BY <1>0, <1>19, <2>1, <2>2 DEF Wake
<1>20. CASE Tick
  BY <1>19, <1>20 DEF Tick, Due
<1>21. CASE RxWake
  BY <1>19, <1>21 DEF RxWake, Wakeable
<1>22. CASE UNCHANGED vars \/ EnterTrap \/ LeaveTrap
  BY <1>0, <1>22 DEF vars, EnterTrap, LeaveTrap, slotVars, globalVars, DispatchReady
<1>23. QED
  BY <1>3, <1>4, <1>5, <1>6, <1>7, <1>9, <1>10, <1>11, <1>12, <1>13, <1>15,
     <1>16, <1>17, <1>18, <1>20, <1>21, <1>22 DEF Next, Call, Loop

\* However deep blocking tasks nest, one task runs at a time, it is the current
\* one, and sched_run dispatches only runnable tasks.
THEOREM NestingCorrect == Spec => []NestingHolds
<1>1. NestInv => NestingHolds
  BY DEF NestInv, NestingHolds
<1>2. QED
  BY NestInit, NestStep, <1>1, PTL DEF Spec
=============================================================================
