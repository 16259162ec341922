----------------------------- MODULE Interrupts -----------------------------
(***************************************************************************)
(* Interrupt delivery in the virtual machine (interrupt.c, and the core     *)
(* loop vm_thread of vm.c): per-core bitmaps of pending interrupts that      *)
(* devices and other cores set at any time, the scan and compare-exchange    *)
(* that takes one, the two 32-bit loads of its vector, the frame on the ISR  *)
(* stack, IRET, and the start of application cores.                          *)
(***************************************************************************)
EXTENDS Integers, Sequences

CONSTANTS
  NCores,     \* vm->smp_cores
  Irqs,       \* the interrupt numbers in use, below IVT_SIZE
  PerWord,    \* bits in a word of the bitmap
  DeviceIrqs, \* those that devices raise
  IpiIrqs,    \* those that programs send to cores
  AckIrqs,    \* INT_KEYBOARD and INT_SERIAL, which IN KEYBOARD acknowledges
  Code,       \* addresses of ordinary code
  Isrs,       \* addresses of interrupt service routines
  Rest,       \* values that stand for flags and r0..r30
  Masking,    \* values that a program stores in its interrupt mask
  MaxFrames   \* frames that fit on an ISR stack

Cores == 0 .. NCores - 1
BSP_CORE == 0
WordOf(n) == n \div PerWord
Words == {WordOf(n) : n \in Irqs}
Ones == -1                           \* 0xFFFFFFFF, each half of an empty vector
Nothing == -2                        \* no interrupt is being entered

ASSUME InterruptsAssumption ==
  /\ NCores \in Nat \ {0}
  /\ PerWord \in Nat \ {0}
  /\ MaxFrames \in Nat \ {0}
  /\ Irqs \subseteq Nat /\ AckIrqs \subseteq DeviceIrqs
  /\ DeviceIrqs \subseteq Irqs /\ IpiIrqs \subseteq Irqs
  /\ Code \subseteq Nat /\ Code # {}
  /\ Isrs \subseteq Nat /\ Isrs # {} /\ Code \cap Isrs = {}
  /\ Rest # {} /\ Masking \subseteq BOOLEAN

VARIABLES
  pending,       \* interrupt_bitmap of each core
  in_interrupt,  \* cores that are in an ISR
  irq_masked,    \* cores that mask interrupts
  released,      \* core_released; core 0 runs from the start
  halted,        \* vm->halted or vm->panic
  ctx,           \* ip, r31 and (as one value) flags and r0..r30 of each core
  frames,        \* the ISR stack of each core
  ivt_lo,        \* the two halves of each vector
  ivt_hi,
  store,         \* the vector whose second half core 0 has yet to store
  pc,            \* where each core is in its loop
  w,             \* the bitmap word that it scans
  word,          \* the value of it that it loaded
  int_no,        \* the interrupt that it enters, or Nothing
  lo,            \* the low half of the vector that it loaded
  owed,          \* history: raised for a core and not yet entered or dropped
  interrupted    \* history: what the core was doing when the ISR was entered

vars == <<pending, in_interrupt, irq_masked, released, halted, ctx, frames, ivt_lo,
          ivt_hi, store, pc, w, word, int_no, lo, owed, interrupted>>
machine == <<in_interrupt, irq_masked, released, halted, ctx, frames, interrupted>>
vectors == <<ivt_lo, ivt_hi, store>>
scan == <<w, word, int_no, lo>>

Context(ip, r31, rest) == [ip |-> ip, r31 |-> r31, rest |-> rest]
\* Fault: the scan of a word runs downwards.
IsHighest(n, S) == n \in S /\ \A m \in S : m <= n

IsLowest(n, S) == n \in S /\ \A m \in S : n <= m

\* The part of the bitmap of core c that word i holds
InWord(c, i) == {n \in pending[c] : WordOf(n) = i}

At(c, l) == pc[c] = l
Goto(c, l) == pc' = [pc EXCEPT ![c] = l]

----------------------------------------------------------------------------
\* vm_create and init_ivt
Init ==
  /\ pending = [c \in Cores |-> {}]
  /\ in_interrupt = {} /\ irq_masked = {}
  /\ released = {BSP_CORE}
  /\ halted = 0
  /\ ctx \in [Cores -> {Context(ip, 0, rest) : ip \in Code, rest \in Rest}]
  /\ frames = [c \in Cores |-> <<>>]
  /\ ivt_lo = [n \in Irqs |-> Ones] /\ ivt_hi = [n \in Irqs |-> Ones]
  /\ store = Nothing
  /\ pc = [c \in Cores |-> "loop"]
  /\ w = [c \in Cores |-> 0]
  /\ word = [c \in Cores |-> {}]
  /\ int_no = [c \in Cores |-> Nothing]
  /\ lo = [c \in Cores |-> Ones]
  /\ owed = [c \in Cores |-> {}]
  /\ interrupted = ctx

\* Fault: the word is stored instead of or-ed.
TriggerStore(c, n) ==
  IF c \in Cores /\ n \in Irqs
    THEN /\ pending' = [pending EXCEPT ![c] = {n}]
         /\ owed' = [owed EXCEPT ![c] = @ \cup {n}]
    ELSE UNCHANGED <<pending, owed>>

\* trigger_interrupt_target: bad targets are ignored
Trigger(c, n) ==
  IF c \in Cores /\ n \in Irqs
    THEN /\ pending' = [pending EXCEPT ![c] = @ \cup {n}]
         /\ owed' = [owed EXCEPT ![c] = @ \cup {n}]
    ELSE UNCHANGED <<pending, owed>>

\* trigger_interrupt, by the timer, disk and serial devices
Device(n) ==
  /\ halted = 0
  /\ Trigger(BSP_CORE, n)
  /\ UNCHANGED <<machine, vectors, pc, scan>>

----------------------------------------------------------------------------
(* vm_thread and vm_handle_interrupts. *)

Stop(c) ==
  /\ At(c, "loop") /\ halted = 1
  /\ Goto(c, "done")
  /\ UNCHANGED <<pending, owed, machine, vectors, scan>>

Handle(c) ==
  /\ At(c, "loop") /\ halted = 0 /\ c \in released
  /\ Goto(c, IF c \in in_interrupt \/ c \in irq_masked THEN "exec" ELSE "scan")
  /\ w' = [w EXCEPT ![c] = 0]
  /\ UNCHANGED <<pending, owed, machine, vectors, word, int_no, lo>>

\* Go on with the next word of the bitmap, or run an instruction
NextWord(c) ==
  IF \E i \in Words : i > w[c]
    THEN w' = [w EXCEPT ![c] = @ + 1] /\ Goto(c, "scan")
    ELSE UNCHANGED w /\ Goto(c, "exec")

Scan(c) ==
  /\ At(c, "scan")
  /\ IF InWord(c, w[c]) = {}
       THEN NextWord(c) /\ UNCHANGED <<word, int_no>>
       ELSE \E n \in InWord(c, w[c]) :
              /\ IsLowest(n, InWord(c, w[c]))
              /\ word' = [word EXCEPT ![c] = InWord(c, w[c])]
              /\ int_no' = [int_no EXCEPT ![c] = n]
              /\ Goto(c, "take")
              /\ UNCHANGED w
  /\ UNCHANGED <<pending, owed, machine, vectors, lo>>

\* The compare-exchange: it fails if the word changed, and may fail without
\* cause; the word is loaded again and the bit may be gone from it.
Take(c) ==
  /\ At(c, "take")
  /\ \/ /\ InWord(c, w[c]) = word[c]
        /\ pending' = [pending EXCEPT ![c] = @ \ {int_no[c]}]
        /\ word' = [word EXCEPT ![c] = {}]
        /\ Goto(c, "vector")
        /\ UNCHANGED <<w, int_no>>
     \/ /\ IF int_no[c] \in InWord(c, w[c])
             THEN word' = [word EXCEPT ![c] = InWord(c, w[c])] /\ UNCHANGED <<w, pc, int_no>>
             ELSE /\ NextWord(c)
                  /\ word' = [word EXCEPT ![c] = {}]
                  /\ int_no' = [int_no EXCEPT ![c] = Nothing]
        /\ UNCHANGED pending
  /\ UNCHANGED <<owed, machine, vectors, lo>>

----------------------------------------------------------------------------
(* vm_enter_interrupt.  The vector is loaded with two 32-bit loads. *)

VectorLow(c, l, after) ==
  /\ At(c, l)
  /\ lo' = [lo EXCEPT ![c] = ivt_lo[int_no[c]]]
  /\ Goto(c, after)
  /\ UNCHANGED <<pending, machine, vectors, w, word, int_no>>

\* Fault: in_interrupt is not set.
EnterUnmarked(c) ==
  IF Len(frames[c]) = MaxFrames
    THEN halted' = 1 /\ UNCHANGED <<ctx, frames, in_interrupt, interrupted>>
    ELSE /\ frames' = [frames EXCEPT ![c] = Append(@, ctx[c])]
         /\ ctx' = [ctx EXCEPT ![c] = Context(lo[c], int_no[c], @.rest)]
         /\ interrupted' = [interrupted EXCEPT ![c] = ctx[c]]
         /\ UNCHANGED <<in_interrupt, halted>>

\* Fault: r31 is overwritten before it is saved.
EnterR31Lost(c) ==
  /\ frames' = [frames EXCEPT ![c] = Append(@, [ctx[c] EXCEPT !.r31 = int_no[c]])]
  /\ ctx' = [ctx EXCEPT ![c].r31 = int_no[c], ![c].ip = lo[c]]
  /\ in_interrupt' = in_interrupt \cup {c}
  /\ interrupted' = [interrupted EXCEPT ![c] = ctx[c]]
  /\ UNCHANGED halted

\* isr_push of ip, flags and registers, then r31 and the jump; a full ISR
\* stack is a panic, which ends the program
Enter(c) ==
  IF Len(frames[c]) = MaxFrames
    THEN halted' = 1 /\ UNCHANGED <<ctx, frames, in_interrupt, interrupted>>
    ELSE /\ frames' = [frames EXCEPT ![c] = Append(@, ctx[c])]
         /\ ctx' = [ctx EXCEPT ![c] = Context(lo[c], int_no[c], @.rest)]
         /\ in_interrupt' = in_interrupt \cup {c}
         /\ interrupted' = [interrupted EXCEPT ![c] = ctx[c]]
         /\ UNCHANGED halted

\* Fault: an empty vector is entered.
VectorUntested(c, l, after) ==
  /\ At(c, l)
  /\ Enter(c)
  /\ int_no' = [int_no EXCEPT ![c] = Nothing]
  /\ Goto(c, after)
  /\ lo' = [lo EXCEPT ![c] = Ones]
  /\ UNCHANGED <<pending, irq_masked, released, vectors, w, word>>

\* An empty vector drops the interrupt, and so does in_interrupt, which is tested
\* here again after vm_handle_interrupts.
Vector(c, l, after) ==
  /\ At(c, l)
  /\ IF c \in in_interrupt \/ (lo[c] = Ones /\ ivt_hi[int_no[c]] = Ones)
       THEN UNCHANGED <<ctx, frames, halted, in_interrupt, interrupted>>
       ELSE Enter(c)
  /\ int_no' = [int_no EXCEPT ![c] = Nothing]
  /\ Goto(c, after)
  /\ lo' = [lo EXCEPT ![c] = Ones]
  /\ UNCHANGED <<pending, irq_masked, released, vectors, w, word>>

EnterPending(c) ==
  \/ VectorLow(c, "vector", "vector_hi") /\ UNCHANGED owed
  \/ Vector(c, "vector_hi", "exec") /\ owed' = [owed EXCEPT ![c] = @ \ ({int_no[c]} \ pending[c])]

----------------------------------------------------------------------------
(* vm_instruction_case: the instructions that matter here. *)

\* Between the two stores of a vector, only its own ISRs run on core 0.
Installing(c) == c = BSP_CORE /\ store # Nothing /\ c \notin in_interrupt

Ready(c) == At(c, "exec") /\ ctx[c].ip # Ones /\ ~Installing(c)
Step(c) == Ready(c) /\ Goto(c, "loop")

\* FETCH64: there is no memory at 0xFFFFFFFF, which is a panic
FetchPanic(c) ==
  /\ At(c, "exec") /\ ctx[c].ip = Ones
  /\ halted' = 1
  /\ Goto(c, "loop")
  /\ UNCHANGED <<pending, owed, in_interrupt, irq_masked, released, ctx, frames,
                 interrupted, vectors, scan>>

\* Any other instruction: the context changes, by a jump too.
Plain(c) ==
  /\ Step(c)
  /\ \E rest \in Rest, ip \in IF c \in in_interrupt THEN {ctx[c].ip} ELSE Code :
       ctx' = [ctx EXCEPT ![c] = Context(ip, 0, rest)]
  /\ UNCHANGED <<pending, owed, in_interrupt, irq_masked, released, halted, frames,
                 interrupted, vectors, scan>>

Halt(c) ==
  /\ Step(c)
  /\ halted' = 1
  /\ UNCHANGED <<pending, owed, in_interrupt, irq_masked, released, ctx, frames,
                 interrupted, vectors, scan>>

\* INT rd: nothing happens within an ISR
IntInstruction(c, n) ==
  /\ Ready(c)
  /\ IF c \in in_interrupt
       THEN Goto(c, "loop") /\ UNCHANGED int_no
       ELSE Goto(c, "int") /\ int_no' = [int_no EXCEPT ![c] = n]
  /\ UNCHANGED <<pending, owed, machine, vectors, w, word, lo>>

EnterInt(c) ==
  \/ VectorLow(c, "int", "int_hi") /\ UNCHANGED owed
  \/ Vector(c, "int_hi", "loop") /\ UNCHANGED owed

\* vm_iret: nothing happens outside an ISR; an empty stack is a panic
Iret(c) ==
  /\ Step(c)
  /\ IF c \notin in_interrupt
       THEN UNCHANGED <<halted, ctx, frames, in_interrupt>>
       ELSE IF frames[c] = <<>>
         THEN halted' = 1 /\ UNCHANGED <<ctx, frames, in_interrupt>>
         ELSE /\ ctx' = [ctx EXCEPT ![c] = frames[c][Len(frames[c])]]
              /\ frames' = [frames EXCEPT ![c] = SubSeq(@, 1, Len(@) - 1)]
              /\ in_interrupt' = in_interrupt \ {c}
              /\ UNCHANGED halted
  /\ UNCHANGED <<pending, owed, irq_masked, released, interrupted, vectors, scan>>

\* IPI rd, rs1
Ipi(c, target, n) ==
  /\ Step(c)
  /\ Trigger(target, n)
  /\ UNCHANGED <<machine, vectors, scan>>

\* STARTAP rd, rs1: of the BSP only; a core that runs already jumps to entry.
\* A running core stores to its ip too, and may undo the jump: ip and released
\* are then as they were, which a stuttering step allows.
StartAp(c, target, entry) ==
  /\ Step(c)
  /\ IF c = BSP_CORE /\ target \in Cores \ {BSP_CORE}
       THEN /\ ctx' = [ctx EXCEPT ![target].ip = entry]
            /\ released' = released \cup {target}
       ELSE UNCHANGED <<ctx, released>>
  /\ UNCHANGED <<pending, owed, in_interrupt, irq_masked, halted, frames, interrupted,
                 vectors, scan>>

\* OUT to CPU_CTX_IRQ_MASK
SetMask(c, on) ==
  /\ Step(c)
  /\ irq_masked' = IF on THEN irq_masked \cup {c} ELSE irq_masked \ {c}
  /\ UNCHANGED <<pending, owed, in_interrupt, released, halted, ctx, frames, interrupted,
                 vectors, scan>>

\* IN from KEYBOARD acknowledges serial and keyboard interrupts of core 0, and
\* raises the serial one again when bytes are left.  The acknowledged ones are
\* owed no longer; that no byte is left without an interrupt is Serial's matter.
InKeyboard(c) ==
  /\ Step(c)
  /\ \E again \in {{}} \cup {{n} : n \in AckIrqs} :
       /\ pending' = [pending EXCEPT ![BSP_CORE] = (@ \ AckIrqs) \cup again]
       /\ owed' = [owed EXCEPT ![BSP_CORE] = (@ \ AckIrqs) \cup again]
  /\ UNCHANGED <<machine, vectors, scan>>

\* ivt_write_entry of the kernel and register_isr of the BIOS: two stores,
\* by core 0 and outside ISRs
StoreLow(n, isr) ==
  /\ Step(BSP_CORE) /\ BSP_CORE \notin in_interrupt
  /\ ivt_lo' = [ivt_lo EXCEPT ![n] = isr]
  /\ store' = n
  /\ UNCHANGED <<pending, owed, machine, ivt_hi, scan>>

StoreHigh ==
  /\ At(BSP_CORE, "exec") /\ Installing(BSP_CORE)
  /\ Goto(BSP_CORE, "loop")
  /\ ivt_hi' = [ivt_hi EXCEPT ![store] = 0]
  /\ store' = Nothing
  /\ UNCHANGED <<pending, owed, machine, ivt_lo, scan>>

----------------------------------------------------------------------------
Instruction(c) ==
  \/ FetchPanic(c)
  \/ Plain(c)
  \/ Halt(c)
  \/ \E n \in Irqs : IntInstruction(c, n)
  \/ Iret(c)
  \/ \E t \in -1 .. NCores, n \in IpiIrqs : Ipi(c, t, n)
  \/ \E t \in -1 .. NCores, entry \in Code : StartAp(c, t, entry)
  \/ \E on \in Masking : SetMask(c, on)
  \/ InKeyboard(c)
  \/ c = BSP_CORE /\ \E n \in Irqs, isr \in Isrs : StoreLow(n, isr)
  \/ c = BSP_CORE /\ StoreHigh

Core(c) ==
  \/ Stop(c) \/ Handle(c) \/ Scan(c) \/ Take(c)
  \/ EnterPending(c) \/ EnterInt(c) \/ Instruction(c)

\* All threads have ended and vm_run joins them.
Joined == (\A c \in Cores : At(c, "done")) /\ UNCHANGED vars

Next ==
  \/ \E n \in DeviceIrqs : Device(n)
  \/ \E c \in Cores : Core(c)
  \/ Joined

Spec == Init /\ [][Next]_vars

\* The threads of the cores run; on the core that devices interrupt, a
\* compare-exchange that can succeed does so in the end, and service routines
\* return.
Taken(c) == Take(c) /\ At(c, "take") /\ pc'[c] = "vector"
Returned(c) == Iret(c) /\ c \in in_interrupt

----------------------------------------------------------------------------
(* Correctness. *)

Addr == Code \cup Isrs \cup {Ones}
ContextType == [ip : Addr, r31 : Irqs \cup {0}, rest : Rest]

\* The state of the cores stays within its types.
TypeOK ==
  /\ pending \in [Cores -> SUBSET Irqs]
  /\ in_interrupt \subseteq Cores /\ irq_masked \subseteq Cores /\ released \subseteq Cores
  /\ halted \in {0, 1}
  /\ ctx \in [Cores -> ContextType]
  /\ frames \in [Cores -> Seq(ContextType)]
  /\ ivt_lo \in [Irqs -> Isrs \cup {Ones}]
  /\ ivt_hi \in [Irqs -> {0, Ones}]
  /\ store \in Irqs \cup {Nothing}
  /\ pc \in [Cores -> {"loop", "scan", "take", "vector", "vector_hi", "exec", "int", "int_hi", "done"}]
  /\ w \in [Cores -> Nat]
  /\ word \in [Cores -> SUBSET Irqs]
  /\ int_no \in [Cores -> Irqs \cup {Nothing}]
  /\ lo \in [Cores -> Isrs \cup {Ones}]
  /\ owed \in [Cores -> SUBSET Irqs]
  /\ interrupted \in [Cores -> ContextType]

\* The interrupt that core c has taken off its bitmap and not yet entered
InFlight(c) == IF pc[c] \in {"vector", "vector_hi"} THEN {int_no[c]} ELSE {}

\* An interrupt that a device or a core raises stays pending until its core
\* enters it, whatever is raised between the load of a bitmap word and the
\* compare-exchange; no interrupt is pending that was not raised.
NoLostInterrupt ==
  \A c \in Cores : pending[c] \subseteq owed[c] /\ owed[c] \subseteq pending[c] \cup InFlight(c)

\* A core is in an ISR exactly while one frame is on its ISR stack: service
\* routines do not nest, by INT, IPI or a device, and the stack never overflows.
NoNesting ==
  \A c \in Cores : Len(frames[c]) = IF c \in in_interrupt THEN 1 ELSE 0

\* IRET returns to what the core was doing when the interrupt came, r31 included.
ResumesInterrupted ==
  [][\A c \in Cores : c \in in_interrupt /\ c \notin in_interrupt' => ctx'[c] = interrupted[c]]_vars

\* The core that stores the vectors takes interrupts between the two stores
\* of one, and jumps to a service routine that was installed all the same.
EntersIsr ==
  [][BSP_CORE \notin in_interrupt /\ BSP_CORE \in in_interrupt' =>
       ctx'[BSP_CORE].ip \in Isrs]_vars

\* The lowest interrupt, which the scan prefers, is entered in the end by the
\* core that devices interrupt, unless that core masks it.
LowestIsTaken ==
  \A n \in Irqs : (\A m \in Irqs : n <= m) =>
    (n \in pending[BSP_CORE] ~>
       n \notin pending[BSP_CORE] \/ BSP_CORE \in irq_masked \/ halted = 1)
=============================================================================
