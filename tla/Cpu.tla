--------------------------------- MODULE Cpu ---------------------------------
(* The instructions of a core (vm_instruction_case in vm.c, stack.h): its     *)
(* registers, flags, data stack and call stack in RAM.  The program in memory *)
(* is arbitrary: each step is any instruction of the groups it is made of.    *)
(* Interrupts, devices and the other cores are in Interrupts.                 *)
EXTENDS Flags

CONSTANTS
  Width,     \* bits of a word: 32 in the program
  Regs,      \* registers
  Text,      \* addresses of instructions: 0 .. Text
  Cells,     \* words of RAM that the program uses for its data
  CallSize,  \* CALL_STACK_SIZE
  DataSize,  \* DATA_STACK_SIZE
  Programs   \* the sets of instruction groups that programs are made of

ASSUME WidthAssumption == Width \in Nat \ {0} /\ Modulus = 2 ^ Width
ASSUME SizesAssumption == Text \in Nat /\ {Cells, CallSize, DataSize} \subseteq Nat \ {0}

VARIABLES
  groups,   \* the instruction groups of the program, fixed
  regs,     \* VCPU.regs
  flags,    \* VCPU.flags
  ip,       \* VCPU.ip, in instructions
  csp, dsp, \* VCPU.csp and VCPU.dsp
  mem,      \* words of VM.memory: data, call stack, data stack, next stack
  run,      \* running, halted, or panic: exit(1)
  div0,     \* 1 when INT_DIVIDE_BY_ZERO was raised
  meaning,  \* history: what the flags were last computed from
  called,   \* history: the return address last pushed at each index
  pushed    \* history: the word last pushed at each index

vars == <<groups, regs, flags, ip, csp, dsp, mem, run, div0, meaning, called, pushed>>

\* vm_create: the stacks of a core lie behind each other.  Words are 4 bytes,
\* entries of the call stack 8; the interrupt stack follows.
CallBase == Cells
DataBase == CallBase + 2 * CallSize
IsrBase == DataBase + DataSize
CallAddr(i) == CallBase + 2 * i
DataAddr(i) == DataBase + i

None == [kind |-> "none"]

Init ==
  /\ groups \in Programs
  /\ regs = [r \in Regs |-> 0]
  /\ flags = {}
  /\ ip = 0
  /\ csp = CallSize
  /\ dsp = DataSize
  /\ mem = [a \in 0 .. IsrBase |-> 0]
  /\ run = "running"
  /\ div0 = 0
  /\ meaning = None
  /\ called = [i \in 0 .. CallSize - 1 |-> 0]
  /\ pushed = [i \in 0 .. DataSize - 1 |-> 0]

-----------------------------------------------------------------------------
\* FETCH64 of an instruction of group g.
Fetch(g) == run = "running" /\ g \in groups /\ ip < Text
Step == ip' = ip + 1

\* FETCH64 outside of the memory.
FetchPanic ==
  /\ run = "running" /\ ip = Text
  /\ run' = "panic"
  /\ UNCHANGED <<groups, regs, flags, ip, csp, dsp, mem, div0, meaning, called, pushed>>

Panic(g) ==
  /\ Fetch(g)
  /\ run' = "panic"
  /\ UNCHANGED <<groups, regs, flags, ip, csp, dsp, mem, div0, meaning, called, pushed>>

stacks == <<csp, dsp, called, pushed>>

\* An instruction that writes a register and the flags only.
Writes(rd, r, fl, what) ==
  /\ Step
  /\ regs' = [regs EXCEPT ![rd] = r]
  /\ flags' = fl
  /\ meaning' = what
  /\ UNCHANGED <<groups, mem, run, div0, stacks>>

Result(r) == [kind |-> "result", r |-> r]

\* OP_ADD, OP_ADDI, OP_INC: b is a register or an immediate, hence any word.
Add(rd, a, b, folded) ==
  /\ Fetch("alu")
  /\ Writes(rd, Sum(a, b), AddFlags(a, b, Sum(a, b), folded), [kind |-> "add", a |-> a, b |-> b])

\* OP_SUB, OP_SUBI
Sub(rd, a, b, folded) ==
  /\ Fetch("alu")
  /\ Writes(rd, Difference(a, b), SubFlags(a, b, Difference(a, b), folded),
            [kind |-> "compare", x |-> a, y |-> b])

\* OP_CMP, OP_CMPI
Cmp(a, b, folded) ==
  /\ Fetch("alu")
  /\ Step
  /\ flags' = SubFlags(a, b, Difference(a, b), folded)
  /\ meaning' = [kind |-> "compare", x |-> a, y |-> b]
  /\ UNCHANGED <<groups, regs, mem, run, div0, stacks>>

-----------------------------------------------------------------------------
\* A word as the set of the bits that are 1 in it.
Places == 0 .. Width - 1
Ones(w) == {i \in Places : (w \div 2 ^ i) % 2 = 1}

\* The shifts take their distance modulo the width.  SAR shifts a uint32_t,
\* so that no copies of the sign come in.
Distance(b) == b % Width
ShiftLeft(A, n) == {i \in Places : i - n \in A}
ShiftRight(A, n) == {i \in Places : i + n \in A}
RotateLeft(A, n) == {(i + n) % Width : i \in A}
RotateRight(A, n) == {i \in Places : (i + n) % Width \in A}

\* What OP_AND .. OP_ROR and their immediate forms make of the bits A and B.
BitResults(A, B, n) ==
  {A \cap B, A \cup B, (A \ B) \cup (B \ A), Places \ A,
   ShiftLeft(A, n), ShiftRight(A, n), RotateLeft(A, n), RotateRight(A, n)}

\* Their results, and those of OP_MUL, OP_MOV, OP_MOVI and OP_CPUID (any word,
\* like an immediate).
LogicResults(a, b) ==
  {(a * b) % Modulus, a, b}
    \cup {r \in Word : Ones(r) \in BitResults(Ones(a), Ones(b), Distance(b))}

Logic(rd, a, b) ==
  /\ Fetch("alu")
  /\ \E r \in LogicResults(a, b) : Writes(rd, r, LogicFlags(flags, r), Result(r))

\* OP_MOVI in programs that use the stacks.
Movi(rd, r) ==
  /\ Fetch("stack")
  /\ Writes(rd, r, LogicFlags(flags, r), Result(r))

\* OP_DIV, OP_MOD: unsigned; by zero they raise an interrupt and leave the
\* register and the flags.
Divide(rd, a, b) ==
  /\ Fetch("alu")
  /\ IF b # 0
       THEN \E r \in {a \div b, a % b} : Writes(rd, r, LogicFlags(flags, r), Result(r))
       ELSE /\ Step
            /\ div0' = 1
            /\ UNCHANGED <<groups, regs, flags, mem, run, meaning, stacks>>

\* OP_JZ .. OP_JNC and the relative OP_RJZ, OP_RJNZ, OP_JMP and OP_RJMP: the
\* target is an immediate, absolute or counted from last_ip.
JumpIf(jump, target) ==
  /\ Fetch("alu")
  /\ ip' = IF Taken(jump, flags) THEN target ELSE ip + 1
  /\ UNCHANGED <<groups, regs, flags, mem, run, div0, meaning, stacks>>
Jump(target) ==
  /\ run = "running" /\ ip < Text
  /\ ip' = target
  /\ UNCHANGED <<groups, regs, flags, mem, run, div0, meaning, stacks>>

Halt ==
  /\ run = "running" /\ ip < Text
  /\ Step
  /\ run' = "halted"
  /\ UNCHANGED <<groups, regs, flags, mem, div0, meaning, stacks>>

-----------------------------------------------------------------------------
\* Floats: registers reinterpreted.  The result of FADD .. FSQRT, ITOF and
\* FLOAD32 is any word, and its sign as a float sets the flags (a NaN counts as
\* positive).
FloatResult(rd, r, sign) ==
  /\ Fetch("float")
  /\ Writes(rd, r, LogicFlags(flags, sign), Result(sign))

\* OP_FTOI: out of range, or a NaN.
Ftoi(rd, r) ==
  /\ Fetch("float")
  /\ Writes(rd, r, LogicFlags(flags, r), Result(r))
FtoiInvalid(rd) ==
  /\ Fetch("float")
  /\ Writes(rd, 0, {"OF"}, None)

Fcmp(order) ==
  /\ Fetch("float")
  /\ Step
  /\ flags' = FcmpFlags(order)
  /\ meaning' = [kind |-> "fcmp", order |-> order]
  /\ UNCHANGED <<groups, regs, mem, run, div0, stacks>>

-----------------------------------------------------------------------------
\* Memory.  The address is computed from registers, hence any; Outside stands
\* for one beyond the RAM.  Programs do not address their own stacks.
Data == 0 .. Cells - 1
MemPanic == Panic("memory")

\* OP_LOAD: one byte of the word, never negative as a word.
Load(rd, a, byte) ==
  /\ Fetch("memory")
  /\ Writes(rd, byte, LoadFlags(flags, byte), [kind |-> "load", r |-> byte])
\* OP_LOAD32, OP_LOADX32, OP_LDAR
Load32(rd, a) ==
  /\ Fetch("memory")
  /\ Writes(rd, mem[a], LogicFlags(flags, mem[a]), Result(mem[a]))

\* OP_STORE32, OP_STOREX32, OP_FSTORE32, OP_STLR, and OP_STORE of a byte of v.
Store(a, v) ==
  /\ Fetch("memory")
  /\ Step
  /\ mem' = [mem EXCEPT ![a] = v]
  /\ UNCHANGED <<groups, regs, flags, run, div0, meaning, stacks>>

\* An atomic operation that leaves the old word in rd.
Exchanges(rd, a, new, fl, what) ==
  /\ Fetch("memory")
  /\ Step
  /\ mem' = [mem EXCEPT ![a] = new]
  /\ regs' = [regs EXCEPT ![rd] = mem[a]]
  /\ flags' = fl
  /\ meaning' = what
  /\ UNCHANGED <<groups, run, div0, stacks>>

Xchg(rd, a, v) == Exchanges(rd, a, v, LogicFlags(flags, mem[a]), Result(mem[a]))
Xadd(rd, a, v) ==
  Exchanges(rd, a, Sum(mem[a], v), AddFlags(mem[a], v, Sum(mem[a], v), FALSE),
            [kind |-> "add", a |-> mem[a], b |-> v])
Cas(rd, a, v) ==
  LET success == mem[a] = regs[rd]
  IN  Exchanges(rd, a, IF success THEN v ELSE mem[a], CasFlags(success),
                [kind |-> "cas", success |-> success])

-----------------------------------------------------------------------------
\* OP_PUSH: data_push.  PushUnchecked alone is a fault for Push: no test for a
\* full stack.
PushUnchecked(rd) ==
  /\ Fetch("stack")
  /\ Step
  /\ dsp' = dsp - 1
  /\ mem' = [mem EXCEPT ![DataAddr(dsp - 1)] = regs[rd]]
  /\ pushed' = [pushed EXCEPT ![dsp - 1] = regs[rd]]
  /\ UNCHANGED <<groups, regs, flags, csp, run, div0, meaning, called>>
Push(rd) == dsp > 0 /\ PushUnchecked(rd)
PushPanic == dsp = 0 /\ Panic("stack")

\* OP_POP: data_pop
Pop(rd) ==
  /\ Fetch("stack")
  /\ dsp < DataSize
  /\ Step
  /\ dsp' = dsp + 1
  /\ LET v == mem[DataAddr(dsp)]
     IN  /\ regs' = [regs EXCEPT ![rd] = v]
         /\ flags' = LogicFlags(flags, v)
         /\ meaning' = Result(v)
  /\ UNCHANGED <<groups, csp, mem, run, div0, called, pushed>>
PopPanic == dsp = DataSize /\ Panic("stack")

\* OP_CALL, OP_RCALL, OP_CALLR: call_push of the address behind the call.
Call(target) ==
  /\ Fetch("stack")
  /\ csp > 0
  /\ csp' = csp - 1
  /\ mem' = [mem EXCEPT ![CallAddr(csp - 1)] = ip + 1, ![CallAddr(csp - 1) + 1] = 0]
  /\ called' = [called EXCEPT ![csp - 1] = ip + 1]
  /\ ip' = target
  /\ UNCHANGED <<groups, regs, flags, dsp, run, div0, meaning, pushed>>
CallPanic == csp = 0 /\ Panic("stack")

\* OP_RET: call_pop
Ret ==
  /\ Fetch("stack")
  /\ csp < CallSize
  /\ csp' = csp + 1
  /\ ip' = mem[CallAddr(csp)]
  /\ UNCHANGED <<groups, regs, flags, dsp, mem, run, div0, meaning, called, pushed>>
RetPanic == csp = CallSize /\ Panic("stack")

\* OP_OUT to CPU_CTX_CSP and CPU_CTX_DSP: a value out of range is ignored.
OutCsp(v) ==
  /\ Fetch("stack")
  /\ Step
  /\ csp' = IF v <= CallSize THEN v ELSE csp
  /\ UNCHANGED <<groups, regs, flags, dsp, mem, run, div0, meaning, called, pushed>>
OutDsp(v) ==
  /\ Fetch("stack")
  /\ Step
  /\ dsp' = IF v <= DataSize THEN v ELSE dsp
  /\ UNCHANGED <<groups, regs, flags, csp, mem, run, div0, meaning, called, pushed>>

\* OP_IN of CPU_CTX_CSP and CPU_CTX_DSP: the flags stay.
InContext(rd, v) ==
  /\ Fetch("stack")
  /\ v \in {csp, dsp} \cap Word
  /\ Writes(rd, v, flags, meaning)

-----------------------------------------------------------------------------
Alu ==
  \/ \E rd, rs1 \in Regs, b \in Word :
       \/ \E folded \in BOOLEAN : \/ Add(rd, regs[rs1], b, folded)
                                  \/ Sub(rd, regs[rs1], b, folded)
                                  \/ Cmp(regs[rs1], b, folded)
       \/ Logic(rd, regs[rs1], b)
       \/ Divide(rd, regs[rs1], b)
  \/ \E jump \in Jumps, target \in 0 .. Text : JumpIf(jump, target)

Float ==
  \E rd \in Regs, r \in Word :
    \/ \E sign \in {0, 1, Modulus - 1} : FloatResult(rd, r, sign)
    \/ Ftoi(rd, r)
    \/ FtoiInvalid(rd)
    \/ \E order \in FloatOrders : Fcmp(order)

Memory ==
  \/ \E rd, rs2 \in Regs, a \in Data :
       \/ \E byte \in 0 .. Half - 1 : Load(rd, a, byte)
       \/ Load32(rd, a)
       \/ \E v \in Word : Store(a, v)
       \/ Xchg(rd, a, regs[rs2])
       \/ Xadd(rd, a, regs[rs2])
       \/ Cas(rd, a, regs[rs2])
  \/ MemPanic

Stack ==
  \/ \E rd \in Regs :
       \/ Push(rd)
       \/ Pop(rd)
       \/ \E r \in Word : Movi(rd, r) \/ InContext(rd, r)
  \/ \E target \in 0 .. Text : Call(target)
  \/ Ret
  \/ \E v \in Word : OutCsp(v) \/ OutDsp(v)
  \/ PushPanic \/ PopPanic \/ CallPanic \/ RetPanic

\* The process has ended, or vm_run returns after a halt.
Ended == run # "running" /\ UNCHANGED vars

Next ==
  \/ Alu \/ Float \/ Memory \/ Stack
  \/ \E target \in 0 .. Text : Jump(target)
  \/ Halt \/ FetchPanic \/ Ended

Spec == Init /\ [][Next]_vars

-----------------------------------------------------------------------------
\* Conditional jumps decide what was compared, at any distance from the
\* comparison: equality and unsigned order always, signed order when the
\* difference does not overflow, and the order of floats, where JL and JLE are
\* also taken for unordered ones.
CompareDecides ==
  /\ meaning.kind = "compare" =>
       /\ EqualityDecided(meaning.x, meaning.y, flags)
       /\ UnsignedDecided(meaning.x, meaning.y, flags)
       /\ InRange(meaning.x, meaning.y) => SignedDecided(meaning.x, meaning.y, flags)
  /\ meaning.kind = "fcmp" =>
       /\ Taken("JZ", flags) <=> meaning.order = "equal"
       /\ Taken("JG", flags) <=> meaning.order = "greater"
       /\ Taken("JL", flags) <=> meaning.order \in {"less", "unordered"}

\* After another instruction they decide on its result: a logic result as a
\* comparison with 0, a sum by its carry, CAS by its success.  After a LOAD only
\* the branches on equality do: it leaves CF and OF as they were.
ResultDecides ==
  /\ meaning.kind = "result" =>
       EqualityDecided(meaning.r, 0, flags) /\ UnsignedDecided(meaning.r, 0, flags)
         /\ SignedDecided(meaning.r, 0, flags)
  /\ meaning.kind = "add" =>
       /\ Taken("JC", flags) <=> meaning.a + meaning.b \notin Word
       /\ Taken("JZ", flags) <=> meaning.a + meaning.b \in {0, Modulus}
  /\ meaning.kind = "load" => EqualityDecided(meaning.r, 0, flags)
  /\ meaning.kind = "cas" => (Taken("JZ", flags) <=> meaning.success)

\* The stacks hold what was pushed: neither runs into the other or into its
\* neighbours, whatever the program sets the stack pointers to.
StacksHold ==
  /\ \A i \in 0 .. CallSize - 1 : mem[CallAddr(i)] = called[i] /\ mem[CallAddr(i) + 1] = 0
  /\ \A i \in 0 .. DataSize - 1 : mem[DataAddr(i)] = pushed[i]
  /\ mem[IsrBase] = 0

\* The conditional jumps have "signed comparison semantics", overflow or not.
SignedSemantics ==
  meaning.kind = "compare" => SignedDecided(meaning.x, meaning.y, flags)
=============================================================================
