---------------------------- MODULE DeviceProofs ----------------------------
(***************************************************************************)
(* The disk, which misses no signal, erases no command and is never stuck   *)
(* with one, whatever a program writes to its registers and whenever it is  *)
(* closed, and the reads of the BIOS, which get their own sectors and wait  *)
(* for nothing in vain: for every set of sectors, buffers and contents.     *)
(*                                                                          *)
(* The division routines, for words of every width, and the clocks that     *)
(* convert times with them, for every time, clock id and time set.          *)
(***************************************************************************)
EXTENDS Clock, BiosDisk, WellFoundedInduction, TLAPS

\* What a leaf that names no prover is tried with, and for how many seconds.
USE ZenonT(3), SMTT(30)

----------------------------------------------------------------------------
(* The disk and the reads of the BIOS. *)

Transferring == worker \in {"transfer", "drain", "finish"}

\* What makes the properties inductive: a command is in current_cmd from the
\* moment it is accepted until the worker has finished it, and op_complete
\* keeps the disk busy from then until core 0 has seen it.
DiskInv ==
  /\ TypeOK
  /\ NoMissedSignal
  /\ CommandNotErased
  /\ current_cmd # NONE => status = BUSY /\ op_complete = 0
  /\ op_complete = 1 => status = BUSY
  /\ Transferring => current_cmd # NONE
  /\ worker = "drain" => buf \in Data /\ job.mem \in Valid

\* The drive starts idle, with nothing signalled.
LEMMA DiskInit == Init => DiskInv
BY DiskAssumption DEF Init, DiskInv, TypeOK, NoMissedSignal, CommandNotErased, Transferring,
   JobType, Job, NoJob, NONE, FREE, BUSY

\* Writing a register or a command keeps the invariant: a command is taken
\* only by a disk whose worker is not in a transfer.
LEMMA DiskProgram == DiskInv /\ Program => DiskInv'
<1> SUFFICES ASSUME DiskInv, Program PROVE DiskInv'
  OBVIOUS
<1> USE DEF DiskInv, TypeOK, NoMissedSignal, CommandNotErased, Transferring, NONE, FREE, BUSY
<1>1. ASSUME NEW l \in Lbas, SetLba(l) PROVE DiskInv'
  BY <1>1 DEF SetLba
<1>2. ASSUME NEW m \in Addrs, SetMem(m) PROVE DiskInv'
  BY <1>2 DEF SetMem
<1>3. ASSUME NEW c \in Commands, Cmd(c) PROVE DiskInv'
  <2>1. CASE status = BUSY
    BY <1>3, <2>1 DEF Cmd, regs
  <2>2. CASE status # BUSY
    <3>1. /\ current_cmd' = c /\ status' = BUSY /\ op_complete' = 0
          /\ worker' = IF worker = "waiting" THEN "check" ELSE worker
          /\ accepted' = Job(c, lba, mem_addr) /\ failed' = 0
          /\ UNCHANGED <<lba, mem_addr, thread_running, job, buf, memory, image, irq, close_pc>>
      BY <1>3, <2>2 DEF Cmd, Signal, regs
    <3>2. accepted' \in JobType /\ accepted'.cmd = c
      BY <3>1, DiskAssumption DEF Job, JobType
    <3>3. ~Transferring /\ ~Transferring' /\ worker' # "waiting"
      BY <2>2, <3>1
    <3> QED
      BY <2>2, <3>1, <3>2, <3>3
  <2> QED
    BY <2>1, <2>2
<1>4. ASSUME Deliver PROVE DiskInv'
  BY <1>4 DEF Deliver, regs
<1> QED
  BY <1>1, <1>2, <1>3, <1>4 DEF Program

\* The worker, the poll of core 0 and the shutdown keep it.
LEMMA DiskDevice == DiskInv /\ Device => DiskInv'
<1> SUFFICES ASSUME DiskInv, Device PROVE DiskInv'
  OBVIOUS
<1> USE DEF DiskInv, TypeOK, NoMissedSignal, CommandNotErased, Transferring, NONE, FREE, BUSY, regs
<1>1. CASE Tick
  BY <1>1 DEF Tick
<1>2. CASE Check
  <2>1. CASE thread_running = 0
    BY <1>2, <2>1 DEF Check
  <2>2. CASE thread_running # 0 /\ current_cmd = NONE
    BY <1>2, <2>2 DEF Check
  <2>3. CASE thread_running # 0 /\ current_cmd # NONE
    <3>1. job' \in JobType /\ job'.cmd = current_cmd /\ worker' = "transfer"
      BY <1>2, <2>3 DEF Check, Job, JobType
    <3>2. UNCHANGED <<lba, mem_addr, status, current_cmd, op_complete, thread_running, buf,
                      memory, image, irq, close_pc, accepted, failed>>
      BY <1>2 DEF Check
    <3> QED
      BY <2>3, <3>1, <3>2
  <2> QED
    BY <2>1, <2>2, <2>3
<1>3. CASE SpuriousWake
  BY <1>3 DEF SpuriousWake
<1>4. CASE GiveUp
  BY <1>4 DEF GiveUp
<1>5. CASE Fill
  <2>1. buf' \in Data
    BY <1>5 DEF Fill
  <2> QED
    BY <1>5, <2>1 DEF Fill
<1>6. CASE Drain
  <2>1. memory' \in [Valid -> Data] /\ image' \in [Image -> Data]
    BY <1>6 DEF Drain
  <2> QED
    BY <1>6, <2>1 DEF Drain
<1>7. CASE Finish
  <2>1. job' \in JobType
    BY <1>7 DEF Finish, NoJob, Job, JobType
  <2> QED
    BY <1>7, <2>1 DEF Finish
<1>8. CASE Close
  BY <1>8 DEF Close, Signal
<1>9. CASE Join
  BY <1>9 DEF Join
<1>10. CASE Closed
  BY <1>10 DEF Closed, vars
<1> QED
  BY <1>1, <1>2, <1>3, <1>4, <1>5, <1>6, <1>7, <1>8, <1>9, <1>10, Zenon DEF Device, Worker

\* Every step of the program, of the drive and of its thread keeps DiskInv.
LEMMA DiskStep == DiskInv /\ [Next]_vars => DiskInv'
<1> SUFFICES ASSUME DiskInv, [Next]_vars PROVE DiskInv'
  OBVIOUS
<1>1. CASE Next
  BY <1>1, DiskProgram, DiskDevice DEF Next
<1>2. CASE UNCHANGED vars
  BY <1>2 DEF vars, DiskInv, TypeOK, NoMissedSignal, CommandNotErased, Transferring
<1> QED
  BY <1>1, <1>2

\* For any program that writes the registers at any time: the worker of
\* disk_worker never waits while disk_cmd or disk_close has something for it.
THEOREM SignalsAreNotMissed == Spec => []NoMissedSignal
<1>1. DiskInv => NoMissedSignal
  BY DEF DiskInv
<1> QED
  BY <1>1, DiskInit, DiskStep, PTL DEF Spec

\* Under any such program the end of one command never erases the next: what
\* disk_cmd accepted stays in current_cmd until the worker has served it.
THEOREM CommandsAreServed == Spec => []CommandNotErased
<1>1. DiskInv => CommandNotErased
  BY DEF DiskInv
<1> QED
  BY <1>1, DiskInit, DiskStep, PTL DEF Spec

\* The worker is on its way to look at the request, to serve it or to end.
Awake == worker \in {"check", "transfer", "drain", "finish"}

\* The worker is told to end when the disk is closed and not before, and
\* ends only then.
CloseInv ==
  /\ thread_running = IF close_pc = "open" THEN 1 ELSE 0
  /\ worker = "exit" => thread_running = 0

LEMMA CloseStep == DiskInv /\ CloseInv /\ [Next]_vars => CloseInv'
<1> SUFFICES ASSUME DiskInv, CloseInv, [Next]_vars PROVE CloseInv'
  OBVIOUS
<1> USE DEF CloseInv
<1>1. CASE Program
  <2>1. UNCHANGED <<thread_running, close_pc>> /\ (worker' = worker \/ worker' = "check")
    BY <1>1 DEF Program, SetLba, SetMem, Cmd, Signal, Deliver
  <2> QED
    BY <2>1
<1>2. CASE Check
  BY <1>2 DEF Check
<1>3. CASE Tick \/ SpuriousWake \/ GiveUp \/ Fill \/ Drain \/ Finish
  <2>1. UNCHANGED <<thread_running, close_pc>> /\ (worker' = worker \/ worker' # "exit")
    BY <1>3 DEF Tick, SpuriousWake, GiveUp, Fill, Drain, Finish
  <2> QED
    BY <2>1
<1>4. CASE Close
  BY <1>4 DEF Close
<1>5. CASE Join
  BY <1>5 DEF Join
<1>6. CASE Closed \/ UNCHANGED vars
  BY <1>6 DEF Closed, vars
<1> QED
  BY <1>1, <1>2, <1>3, <1>4, <1>5, <1>6 DEF Next, Device, Worker

\* While a command is accepted and not answered, its answer is ready for the tick,
\* or the worker is awake; and disk_close joins a worker that was told to end
\* and does not wait for a signal.
DiskProceeds ==
  /\ Running /\ status = BUSY /\ accepted.cmd # NONE => op_complete = 1 \/ Awake
  /\ close_pc = "join" => thread_running = 0 /\ (worker = "exit" \/ Awake)

\* The disk and its worker never wait for each other, neither with a command in
\* progress nor in disk_close, whenever signals come and waits end by themselves.
THEOREM DiskHasWork == Spec => []DiskProceeds
<1>1. Init => CloseInv
  BY DEF Init, CloseInv
<1>2. DiskInv /\ CloseInv => DiskProceeds
  BY DEF DiskInv, CloseInv, DiskProceeds, TypeOK, NoMissedSignal, CommandNotErased, Awake, Running
<1> QED
  BY <1>1, <1>2, DiskInit, DiskStep, CloseStep, PTL DEF Spec

----------------------------------------------------------------------------
(* The BIOS.  Its steps are steps of a program of the device. *)

\* The buffer holds what the image has for the request, or the device gave up.
Loaded == failed = 0 => memory[Buf] = image[request]

\* The transfer is the one that was asked for, as far as the worker has come.
InProgress ==
  /\ current_cmd = READ
  /\ Transferring => job = Job(READ, request, Buf)
  /\ worker = "drain" /\ failed = 0 => buf = image[request]
  /\ worker = "finish" => Loaded

\* The four stages of the loop that waits for disk_done: the transfer, its end
\* that core 0 has not seen, the interrupt, the flag.
Waits ==
  \/ status = BUSY /\ op_complete = 0 /\ irq = 0 /\ disk_done = 0 /\ InProgress
  \/ status = BUSY /\ op_complete = 1 /\ irq = 0 /\ disk_done = 0 /\ Loaded
  \/ status = FREE /\ irq = 1 /\ disk_done = 0 /\ Loaded
  \/ status = FREE /\ irq = 0 /\ disk_done = 1 /\ Loaded

\* The inductive invariant of the BIOS with the device.
BiosInv ==
  /\ DiskInv
  /\ request \in {Headers, File} /\ disk_done \in {0, 1}
  /\ bios_pc \in {"clear", "mem", "count", "cmd", "use"} => status = FREE /\ irq = 0
  /\ bios_pc \in {"mem", "count", "cmd"} => disk_done = 0
  /\ bios_pc \in {"count", "cmd", "wait"} => mem_addr = Buf
  /\ bios_pc \in {"cmd", "wait"} => lba = request
  /\ bios_pc = "wait" => Waits
  /\ bios_pc = "use" => Loaded
  /\ bios_pc \in {"clear", "mem", "count", "cmd", "wait", "use", "kernel", "halted"}

\* What the BIOS does to the device, any program may do.
LEMMA BiosIsProgram == BiosInv /\ [BiosNext]_allVars => [Next]_vars
BY BiosAssumption DEF BiosInv, BiosNext, BiosStep, ClearDone, OutMem, OutCount, OutCmd, SeeDone,
   Validate, LoadAndJump, IsrDiskComplete, Kernel, Next, Program, allVars

\* A step of the device moves the loop that waits from one stage to the next.
LEMMA WaitsStep ==
  ASSUME BiosInv, DiskInv', Device, UNCHANGED biosVars, bios_pc = "wait"
  PROVE  Waits'
<1> USE DEF BiosInv, DiskInv, TypeOK, CommandNotErased, Waits, InProgress, Loaded, Transferring,
            NONE, READ, FREE, BUSY, biosVars, regs
<1>1. CASE Tick
  BY <1>1 DEF Tick
<1>2. CASE Check
  BY <1>2 DEF Check
<1>3. CASE SpuriousWake
  BY <1>3 DEF SpuriousWake
<1>4. CASE GiveUp
  BY <1>4 DEF GiveUp
<1>5. CASE Fill
  <2>1. InProgress /\ status = BUSY /\ op_complete = 0 /\ irq = 0 /\ disk_done = 0
    BY <1>5 DEF Fill
  <2>2. job.cmd = READ /\ job.lba = request
    BY <1>5, <2>1 DEF Fill, Job
  <2>3. failed' = 0 => buf' = image[request]
    BY <1>5, <2>2 DEF Fill, WRITE
  <2> QED
    BY <1>5, <2>1, <2>3 DEF Fill
<1>6. CASE Drain
  <2>1. InProgress /\ status = BUSY /\ op_complete = 0 /\ irq = 0 /\ disk_done = 0
    BY <1>6 DEF Drain
  <2>2. job.cmd = READ /\ job.mem = Buf
    BY <1>6, <2>1 DEF Drain, Job
  <2>3. memory'[Buf] = buf /\ image' = image
    BY <1>6, <2>2 DEF Drain
  <2> QED
    BY <1>6, <2>1, <2>3 DEF Drain
<1>7. CASE Finish
  BY <1>7 DEF Finish
<1>8. CASE Close
  BY <1>8 DEF Close, Signal
<1>9. CASE Join
  BY <1>9 DEF Join
<1>10. CASE Closed
  BY <1>10 DEF Closed, vars
<1> QED
  BY <1>1, <1>2, <1>3, <1>4, <1>5, <1>6, <1>7, <1>8, <1>9, <1>10, Zenon DEF Device, Worker

\* Outside of that loop the device is at rest: a step of it changes nothing
\* that the BIOS depends on.
LEMMA RestStep ==
  ASSUME BiosInv, Device,
         bios_pc \in {"clear", "mem", "count", "cmd", "use"}
  PROVE  UNCHANGED <<status, irq, memory, image, failed, lba, mem_addr>>
<1>1. current_cmd = NONE /\ ~Transferring /\ status = FREE
  BY DEF BiosInv, DiskInv, FREE, BUSY
<1>2. CASE Tick \/ Check \/ SpuriousWake \/ Fill \/ Drain \/ Finish
  BY <1>1, <1>2 DEF Tick, Check, SpuriousWake, Fill, Drain, Finish, Transferring, FREE, BUSY, regs
<1>3. CASE GiveUp \/ Close \/ Join \/ Closed
  BY <1>1, <1>3 DEF GiveUp, Close, Join, Closed, Transferring, FREE, BUSY, regs, vars
<1> QED
  BY <1>2, <1>3 DEF Device, Worker

\* Every step of the boot program and of the drive keeps BiosInv.
LEMMA BiosStepInv == BiosInv /\ [BiosNext]_allVars => BiosInv'
<1> SUFFICES ASSUME BiosInv, [BiosNext]_allVars PROVE BiosInv'
  OBVIOUS
<1>0. DiskInv'
  BY BiosIsProgram, DiskStep DEF BiosInv
<1> USE DEF BiosInv, Headers, File
<1>1. CASE ClearDone
  BY <1>0, <1>1 DEF ClearDone, Bios, vars, Loaded
<1>2. CASE OutMem
  BY <1>0, <1>2 DEF OutMem, SetMem, Bios, Loaded
<1>3. CASE OutCount
  BY <1>0, <1>3 DEF OutCount, SetLba, Bios, Loaded
<1>4. CASE OutCmd
  <2>1. status = FREE /\ irq = 0 /\ disk_done = 0 /\ ~Transferring
    BY <1>4 DEF OutCmd, DiskInv, CommandNotErased, Transferring, FREE, BUSY
  <2>2. /\ status' = BUSY /\ op_complete' = 0 /\ irq' = 0 /\ disk_done' = 0
        /\ current_cmd' = READ /\ ~Transferring'
        /\ worker' # "drain" /\ worker' # "finish"
    BY <1>4, <2>1 DEF OutCmd, Cmd, Signal, Transferring, FREE, BUSY
  <2>3. Waits'
    BY <2>2 DEF Waits, InProgress
  <2> QED
    BY <1>0, <1>4, <2>2, <2>3 DEF OutCmd, Cmd, regs, Bios
<1>5. CASE SeeDone
  BY <1>0, <1>5 DEF SeeDone, Bios, Waits, Loaded, vars
<1>6. CASE IsrDiskComplete
  <2>1. irq = 1 /\ irq' = 0 /\ disk_done' = 1 /\ UNCHANGED <<bios_pc, request, status, lba, mem_addr>>
    BY <1>6 DEF IsrDiskComplete, Deliver, regs
  <2>2. bios_pc = "wait"
    BY <1>6, <2>1 DEF IsrDiskComplete, Bios
  <2>3. Waits'
    BY <1>6, <2>1, <2>2 DEF IsrDiskComplete, Deliver, Waits, Loaded
  <2> QED
    BY <1>0, <2>1, <2>2, <2>3
<1>7. CASE Validate
  BY <1>0, <1>7 DEF Validate, Bios, Loaded, vars
<1>8. CASE LoadAndJump
  BY <1>0, <1>8 DEF LoadAndJump, Bios, Loaded, vars
<1>9. CASE Kernel
  BY <1>0, <1>9 DEF Kernel, biosVars
<1>10. CASE Device /\ UNCHANGED biosVars
  <2>1. CASE bios_pc = "wait"
    <3>1. Waits'
      BY <1>0, <1>10, <2>1, WaitsStep
    <3>2. UNCHANGED <<lba, mem_addr>>
      BY <1>10 DEF Device, Worker, Tick, Check, SpuriousWake, GiveUp, Fill, Drain, Finish, Close, Join,
         Closed, regs, vars
    <3> QED
      BY <1>0, <1>10, <2>1, <3>1, <3>2 DEF biosVars
  <2>2. CASE bios_pc \in {"clear", "mem", "count", "cmd", "use"}
    BY <1>0, <1>10, <2>2, RestStep DEF biosVars, Loaded
  <2>3. CASE bios_pc \in {"kernel", "halted"}
    BY <1>0, <1>10, <2>3 DEF biosVars
  <2> QED
    BY <2>1, <2>2, <2>3
<1>11. CASE UNCHANGED allVars
  BY <1>0, <1>11 DEF allVars, vars, biosVars, Waits, InProgress, Loaded, Transferring
<1> QED
  BY <1>1, <1>2, <1>3, <1>4, <1>5, <1>6, <1>7, <1>8, <1>9, <1>10, <1>11, Zenon DEF BiosNext, BiosStep

\* disk_read_sectors of the BIOS waits for its own transfer and returns with
\* its own data in the buffer, and the disk is free when its next command
\* comes, with the machine shut down at any point.
THEOREM BiosReadsCorrect == BiosSpec => []ReadsItsOwn
<1>1. BiosInit => BiosInv
  BY DiskInit DEF BiosInit, BiosInv, Init, Headers, File
<1>2. BiosInv => ReadsItsOwn
  BY DEF BiosInv, DiskInv, ReadsItsOwn, BufferIsImage, DoneMeansIdle, Bios, Waits, Loaded, FREE, BUSY
<1> QED
  BY <1>1, <1>2, BiosStepInv, PTL DEF BiosSpec
\* While the BIOS waits for disk_done in an open disk, it is set, or its interrupt
\* is raised, or the tick has an answer to give, or the worker is at the read.
BootProceeds ==
  Running /\ bios_pc = "wait" =>
    \/ disk_done = 1
    \/ irq = 1
    \/ status = BUSY /\ op_complete = 1
    \/ status = BUSY /\ current_cmd = READ /\ Awake

\* The BIOS never waits for an answer that nobody is going to give.
THEOREM BootHasAnswer == BiosSpec => []BootProceeds
<1>1. BiosInit => BiosInv /\ CloseInv
  BY DiskInit DEF BiosInit, BiosInv, Init, Headers, File, CloseInv
<1>2. BiosInv /\ CloseInv /\ [BiosNext]_allVars => CloseInv'
  BY BiosIsProgram, CloseStep DEF BiosInv
<1>3. BiosInv /\ CloseInv => BootProceeds
  BY DEF BiosInv, DiskInv, CloseInv, BootProceeds, TypeOK, NoMissedSignal, Waits, InProgress, Awake,
     Running, READ, NONE
<1> QED
  BY <1>1, <1>2, <1>3, BiosStepInv, PTL DEF BiosSpec

----------------------------------------------------------------------------
(* Induction and recursion over the natural numbers.  The theorems of the   *)
(* library take an operator for what is proved or defined; these take a     *)
(* set, or a function, which can be given where they are cited.             *)

\* A set of natural numbers that is not empty has a least one.
LEMMA LeastNat ==
  ASSUME NEW T \in SUBSET Nat, T # {}
  PROVE  \E x \in T : \A y \in T : x <= y
<1> DEFINE R == OpToRel(<, Nat)
<1>1. IsWellFoundedOn(R, Nat)
  BY NatLessThanWellFounded, Zenon
<1>2. \A x, y \in Nat : <<y, x>> \in R <=> y < x
  BY DEF OpToRel
<1> HIDE DEF R
<1>3. PICK x \in T : \A y \in T : ~(<<y, x>> \in R)
  BY <1>1, WFMin, Zenon
<1>4. ASSUME NEW y \in T PROVE x <= y
  <2>1. ~(y < x)
    BY <1>2, <1>3, Zenon
  <2> QED
    BY <2>1
<1> QED
  BY <1>4

\* Induction: a set of natural numbers that has 0 and the successor of each of
\* its elements has them all.
LEMMA Induction ==
  ASSUME NEW T \in SUBSET Nat, 0 \in T, \A n \in T : n + 1 \in T
  PROVE  T = Nat
<1> SUFFICES ASSUME Nat \ T # {} PROVE FALSE
  BY Zenon
<1>1. PICK x \in Nat \ T : \A y \in Nat \ T : x <= y
  BY LeastNat, Zenon
<1>2. x # 0 /\ x - 1 \in Nat /\ ~(x <= x - 1)
  OBVIOUS
<1>3. x - 1 \in T
  BY <1>1, <1>2
<1>4. (x - 1) + 1 \in T
  BY <1>3
<1> QED
  BY <1>4

\* The first n + 1 values of the function defined by f0 and step
Begins(S, f0, step, n) ==
  {g \in [0 .. n -> S] : g[0] = f0 /\ \A k \in 0 .. n - 1 : g[k + 1] = step[k][g[k]]}

Follows(f, f0, step) == f[0] = f0 /\ \A n \in Nat : f[n + 1] = step[n][f[n]]

\* Recursion: there is a function on the natural numbers with the first value
\* f0 and whose next value step gives.
LEMMA Recursion ==
  ASSUME NEW S, NEW f0 \in S, NEW step \in [Nat -> [S -> S]]
  PROVE  \E f \in [Nat -> S] : Follows(f, f0, step)
<1> DEFINE B(n) == Begins(S, f0, step, n)
<1>1. \A n \in Nat : B(n) # {}
  <2> DEFINE T == {n \in Nat : B(n) # {}}
  <2>1. 0 \in T
    <3>1. [k \in 0 .. 0 |-> f0] \in B(0)
      BY DEF Begins
    <3> QED
      BY <3>1
  <2>2. ASSUME NEW n \in T PROVE n + 1 \in T
    <3>1. PICK g : g \in B(n)
      BY <2>2
    <3>2. /\ g \in [0 .. n -> S] /\ g[0] = f0
          /\ \A k \in 0 .. n - 1 : g[k + 1] = step[k][g[k]]
      BY <3>1 DEF Begins
    <3> DEFINE h == [k \in 0 .. n + 1 |-> IF k <= n THEN g[k] ELSE step[n][g[n]]]
    <3>3. n \in Nat /\ g[n] \in S
      BY <3>2
    <3>4. step[n][g[n]] \in S
      BY <3>3
    <3>5. h \in [0 .. n + 1 -> S]
      BY <3>2, <3>4
    <3>6. h[0] = f0
      BY <3>2, <3>3
    <3>7. ASSUME NEW k \in 0 .. (n + 1) - 1 PROVE h[k + 1] = step[k][h[k]]
      <4>1. CASE k = n
        BY <3>3, <4>1
      <4>2. CASE k # n
        <5>1. k \in 0 .. n - 1 /\ k \in 0 .. n + 1 /\ k + 1 \in 0 .. n + 1 /\ k <= n /\ k + 1 <= n
          BY <3>3, <4>2
        <5>2. g[k + 1] = step[k][g[k]]
          BY <3>2, <5>1
        <5> QED
          BY <5>1, <5>2
      <4> QED
        BY <4>1, <4>2
    <3> HIDE DEF h
    <3>8. h \in B(n + 1)
      BY <3>5, <3>6, <3>7 DEF Begins
    <3> QED
      BY <3>3, <3>8
  <2> HIDE DEF T
  <2>3. T = Nat
    BY <2>1, <2>2, Induction, Zenon DEF T
  <2> QED
    BY <2>3 DEF T
<1>2. ASSUME NEW n \in Nat, NEW m \in Nat, n <= m, NEW g \in B(n), NEW h \in B(m)
      PROVE  g[n] = h[n]
  <2> DEFINE T == {k \in Nat : k <= n => g[k] = h[k]}
  <2>0. /\ g[0] = f0 /\ \A k \in 0 .. n - 1 : g[k + 1] = step[k][g[k]]
        /\ h[0] = f0 /\ \A k \in 0 .. m - 1 : h[k + 1] = step[k][h[k]]
    BY DEF Begins
  <2>1. 0 \in T
    BY <2>0
  <2>2. ASSUME NEW k \in T PROVE k + 1 \in T
    <3>1. k \in Nat /\ (k <= n => g[k] = h[k])
      OBVIOUS
    <3>2. CASE k + 1 <= n
      <4>1. k \in 0 .. n - 1 /\ k \in 0 .. m - 1 /\ k <= n
        BY <1>2, <3>1, <3>2
      <4>2. g[k + 1] = h[k + 1]
        BY <2>0, <3>1, <4>1
      <4> QED
        BY <3>1, <4>2
    <3> QED
      BY <3>1, <3>2
  <2>3. n \in T
    <3> HIDE DEF T
    <3>1. T = Nat
      BY <2>1, <2>2, Induction, Zenon DEF T
    <3> QED
      BY <3>1
  <2> QED
    BY <2>3
<1> DEFINE G == [n \in Nat |-> CHOOSE g : g \in B(n)]
           f == [n \in Nat |-> G[n][n]]
<1>3. \A n \in Nat : G[n] \in B(n)
  <2> SUFFICES ASSUME NEW n \in Nat PROVE (CHOOSE g : g \in B(n)) \in B(n)
    OBVIOUS
  <2>1. \E g : g \in B(n)
    BY <1>1
  <2> QED
    BY <2>1
<1> HIDE DEF G
<1>4. f \in [Nat -> S]
  BY <1>3 DEF Begins
<1>5. f[0] = f0
  BY <1>3 DEF Begins
<1>6. ASSUME NEW n \in Nat PROVE f[n + 1] = step[n][f[n]]
  <2>1. n + 1 \in Nat /\ n <= n + 1 /\ n \in 0 .. (n + 1) - 1
    OBVIOUS
  <2>2. G[n + 1][n + 1] = step[n][G[n + 1][n]]
    BY <1>3, <2>1 DEF Begins
  <2>3. G[n][n] = G[n + 1][n]
    BY <1>2, <1>3, <2>1
  <2> QED
    BY <2>1, <2>2, <2>3
<1> HIDE DEF f
<1> QED
  BY <1>4, <1>5, <1>6 DEF Follows

----------------------------------------------------------------------------
(* The division routines. *)

\* The powers of two
LEMMA Pow2Facts ==
  /\ Pow2 \in [Nat -> Nat]
  /\ Pow2[0] = 1
  /\ \A n \in Nat : Pow2[n + 1] = 2 * Pow2[n]
<1> DEFINE step == [n \in Nat |-> [m \in Nat |-> 2 * m]]
<1>1. 1 \in Nat /\ step \in [Nat -> [Nat -> Nat]] /\ \A n, m \in Nat : step[n][m] = 2 * m
  OBVIOUS
<1> HIDE DEF step
<1>2. PICK f \in [Nat -> Nat] : Follows(f, 1, step)
  BY <1>1, Recursion, Zenon
<1>3. f = [n \in Nat |-> IF n = 0 THEN 1 ELSE 2 * f[n - 1]]
  <2>1. ASSUME NEW n \in Nat, n # 0 PROVE f[n] = 2 * f[n - 1]
    <3>1. n - 1 \in Nat /\ (n - 1) + 1 = n
      BY <2>1
    <3>2. f[(n - 1) + 1] = step[n - 1][f[n - 1]]
      BY <1>2, <3>1 DEF Follows
    <3> QED
      BY <1>1, <1>2, <3>1, <3>2, Zenon
  <2>2. f[0] = 1
    BY <1>2 DEF Follows
  <2> QED
    BY <1>2, <2>1, <2>2
<1>4. Pow2 = [n \in Nat |-> IF n = 0 THEN 1 ELSE 2 * Pow2[n - 1]]
  BY <1>3 DEF Pow2
<1>5. Pow2[0] = 1 /\ \A n \in Nat : Pow2[n + 1] = 2 * Pow2[n]
  BY <1>4
<1>6. \A n \in Nat : Pow2[n] \in Nat
  <2> DEFINE T == {n \in Nat : Pow2[n] \in Nat}
  <2>1. 0 \in T /\ \A n \in T : n + 1 \in T
    BY <1>5
  <2> HIDE DEF T
  <2>2. T = Nat
    BY <2>1, Induction, Zenon DEF T
  <2> QED
    BY <2>2 DEF T
<1> QED
  BY <1>4, <1>5, <1>6

LEMMA Pow2Type == \A n \in Nat : Pow2[n] \in Nat \ {0}
<1> DEFINE T == {n \in Nat : Pow2[n] \in Nat \ {0}}
<1>1. 0 \in T
  BY Pow2Facts
<1>2. \A n \in T : n + 1 \in T
  BY Pow2Facts
<1> HIDE DEF T
<1>3. T = Nat
  BY <1>1, <1>2, Induction, Zenon DEF T
<1> QED
  BY <1>3 DEF T

LEMMA ProductGrows ==
  ASSUME NEW x \in Int, NEW y \in Int, NEW z \in Nat, x <= y
  PROVE  x * z \in Int /\ y * z \in Int /\ x * z <= y * z
<1>1. y - x \in Nat /\ (y - x) * z \in Nat
  OBVIOUS
<1>2. (y - x) * z = y * z - x * z
  OBVIOUS
<1> QED
  BY <1>1, <1>2

\* Quotient and remainder are unique.
LEMMA DivModUnique ==
  ASSUME NEW a \in Int, NEW b \in Nat \ {0}, NEW q \in Int, NEW r \in Nat,
         a = q * b + r, r < b
  PROVE  q = a \div b /\ r = a % b
<1> DEFINE d == a \div b
           m == a % b
<1>1. d \in Int /\ m \in Int /\ 0 <= m /\ m < b /\ a = d * b + m
  OBVIOUS
<1> HIDE DEF d, m
<1>2. ~(q + 1 <= d)
  <2> SUFFICES ASSUME q + 1 <= d PROVE FALSE
    OBVIOUS
  <2>1. (q + 1) * b <= d * b /\ q * b \in Int /\ d * b \in Int
    BY <1>1, ProductGrows
  <2>2. (q + 1) * b = q * b + b
    OBVIOUS
  <2> QED
    BY <1>1, <2>1, <2>2
<1>3. ~(d + 1 <= q)
  <2> SUFFICES ASSUME d + 1 <= q PROVE FALSE
    OBVIOUS
  <2>1. (d + 1) * b <= q * b /\ q * b \in Int /\ d * b \in Int
    BY <1>1, ProductGrows
  <2>2. (d + 1) * b = d * b + b
    BY <1>1
  <2> QED
    BY <1>1, <2>1, <2>2
<1>4. q = d
  BY <1>1, <1>2, <1>3
<1>5. r = m
  BY <1>1, <1>4
<1> QED
  BY <1>4, <1>5 DEF d, m

\* The words of Bits bits
LEMMA WordFacts ==
  /\ Pow2[Bits - 1] \in Nat \ {0} /\ Pow2[Bits] = 2 * Pow2[Bits - 1]
  /\ MaxU = 2 * Pow2[Bits - 1] - 1
  /\ MinS = -(Pow2[Bits - 1]) /\ MaxS = Pow2[Bits - 1] - 1
<1>1. Bits - 1 \in Nat /\ (Bits - 1) + 1 = Bits
  BY BitsAssumption
<1>2. Pow2[Bits - 1] \in Nat \ {0}
  BY <1>1, Pow2Type
<1>3. Pow2[(Bits - 1) + 1] = 2 * Pow2[Bits - 1]
  BY <1>1, Pow2Facts
<1> QED
  BY <1>1, <1>2, <1>3 DEF MaxU, MinS, MaxS

\* The first loop ends, and with a divisor more than half of a.
LEMMA ShiftFacts ==
  ASSUME NEW a \in 0 .. MaxU, NEW b \in 1 .. MaxU, b <= a
  PROVE  Shift(a, b) \in Nat /\ a < 2 * (b * Pow2[Shift(a, b)])
<1> DEFINE M == Pow2[Bits - 1]
           D(s) == b * Pow2[s]
           Stop(s) == D(s) >= M \/ D(s) > a \div 2
<1>0. /\ M \in Nat \ {0} /\ MaxU = 2 * M - 1 /\ a \in Nat /\ b \in Nat \ {0} /\ a <= 2 * M - 1
      /\ Bits - 1 \in Nat
  BY WordFacts, BitsAssumption
<1>1. \A s \in Nat : D(s) \in Nat
  BY <1>0, Pow2Type
<1>2. Stop(Bits - 1)
  <2>1. 1 * M <= b * M
    BY <1>0, ProductGrows
  <2> QED
    BY <1>0, <2>1
<1>3. \E s \in 0 .. Bits - 1 : Stop(s) /\ \A r \in 0 .. s - 1 : ~Stop(r)
  <2> DEFINE T == {s \in 0 .. Bits - 1 : Stop(s)}
  <2> HIDE DEF Stop
  <2>1. T \in SUBSET Nat /\ T # {}
    BY <1>0, <1>2
  <2>2. PICK s \in T : \A y \in T : s <= y
    BY <2>1, LeastNat, Zenon
  <2>3. s \in 0 .. Bits - 1 /\ Stop(s)
    BY <2>2
  <2>4. ASSUME NEW r \in 0 .. s - 1 PROVE ~Stop(r)
    <3>1. r \in 0 .. Bits - 1 /\ ~(s <= r)
      BY <1>0, <2>3
    <3> QED
      BY <2>2, <3>1
  <2> QED
    BY <2>3, <2>4
<1> DEFINE P(s) == /\ b * Pow2[s] >= Pow2[Bits - 1] \/ b * Pow2[s] > a \div 2
                   /\ \A r \in 0 .. s - 1 : b * Pow2[r] < Pow2[Bits - 1] /\ b * Pow2[r] <= a \div 2
<1>4. \E s \in 0 .. Bits - 1 : P(s)
  <2>1. PICK s \in 0 .. Bits - 1 : Stop(s) /\ \A r \in 0 .. s - 1 : ~Stop(r)
    BY <1>3
  <2>2. a \div 2 \in Int
    BY <1>0
  <2>3. ASSUME NEW r \in 0 .. s - 1 PROVE D(r) < M /\ D(r) <= a \div 2
    <3>1. ~Stop(r) /\ D(r) \in Nat
      BY <1>1, <2>1
    <3> HIDE DEF D, M
    <3> QED
      BY <1>0, <2>2, <3>1
  <2> QED
    BY <2>1, <2>3
<1>5. Shift(a, b) = CHOOSE s \in 0 .. Bits - 1 : P(s)
  BY DEF Shift
<1> DEFINE n == Shift(a, b)
<1> HIDE DEF P
<1>6. n \in 0 .. Bits - 1 /\ P(n)
  BY <1>4, <1>5
<1> HIDE DEF n
<1>7. n \in Nat /\ D(n) \in Nat /\ (D(n) >= M \/ D(n) > a \div 2)
  BY <1>0, <1>1, <1>6 DEF P
<1>8. a < 2 * D(n)
  <2> HIDE DEF D, M
  <2> QED
    BY <1>0, <1>7
<1> QED
  BY <1>7, <1>8 DEF n

States == [quot : Nat, rem : Nat]

LEMMA TurnType ==
  ASSUME NEW b \in Nat \ {0}, NEW i \in Nat, NEW s \in States
  PROVE  Turn(b, i, s) \in States
<1>1. b * Pow2[i] \in Nat
  BY Pow2Type
<1> QED
  BY <1>1 DEF Turn, States

\* The second loop as its recursive function
LEMMA TurnsFacts ==
  ASSUME NEW a \in Nat, NEW b \in Nat \ {0}, NEW n \in Nat
  PROVE  \A i \in 0 .. n :
           Turns(a, b, n)[i]
             = Turn(b, i, IF i = n THEN [quot |-> 0, rem |-> a] ELSE Turns(a, b, n)[i + 1])
<1> DEFINE f0 == Turn(b, n, [quot |-> 0, rem |-> a])
           step == [k \in Nat |-> [s \in States |-> IF k < n THEN Turn(b, n - (k + 1), s) ELSE s]]
<1>1. f0 \in States
  <2>1. [quot |-> 0, rem |-> a] \in States
    BY DEF States
  <2> QED
    BY <2>1, TurnType
<1>2. step \in [Nat -> [States -> States]]
  <2>1. ASSUME NEW k \in Nat, NEW s \in States
        PROVE  (IF k < n THEN Turn(b, n - (k + 1), s) ELSE s) \in States
    <3>1. CASE k < n
      <4>1. n - (k + 1) \in Nat
        BY <3>1
      <4> QED
        BY <3>1, <4>1, TurnType
    <3> QED
      BY <3>1
  <2> QED
    BY <2>1
<1>3. \A k \in Nat, s \in States : k < n => step[k][s] = Turn(b, n - (k + 1), s)
  OBVIOUS
<1> HIDE DEF f0, step
<1>4. PICK g \in [Nat -> States] : Follows(g, f0, step)
  BY <1>1, <1>2, Recursion
<1> DEFINE h == [i \in 0 .. n |-> g[n - i]]
           W(f) == [i \in 0 .. n |-> Turn(b, i, IF i = n THEN [quot |-> 0, rem |-> a] ELSE f[i + 1])]
<1>5. ASSUME NEW i \in 0 .. n
      PROVE  h[i] = Turn(b, i, IF i = n THEN [quot |-> 0, rem |-> a] ELSE h[i + 1])
  <2>1. CASE i = n
    <3>1. n - i = 0
      BY <2>1
    <3>2. h[i] = f0
      BY <1>4, <3>1 DEF Follows
    <3> QED
      BY <2>1, <3>2 DEF f0
  <2>2. CASE i # n
    <3> DEFINE k == n - (i + 1)
    <3>1. k \in Nat /\ k < n /\ n - i = k + 1 /\ n - (k + 1) = i /\ i + 1 \in 0 .. n
      BY <2>2
    <3>2. h[i + 1] = g[k] /\ g[k] \in States
      BY <3>1
    <3>3. h[i] = g[k + 1]
      BY <3>1
    <3> HIDE DEF k, h
    <3>4. g[k + 1] = step[k][g[k]]
      BY <1>4, <3>1 DEF Follows
    <3>5. step[k][g[k]] = Turn(b, i, g[k])
      BY <1>3, <3>1, <3>2
    <3> QED
      BY <2>2, <3>2, <3>3, <3>4, <3>5
  <2> QED
    BY <2>1, <2>2
<1>6. h = W(h)
  BY <1>5
<1>7. Turns(a, b, n) = CHOOSE f : f = W(f)
  BY DEF Turns
<1> HIDE DEF h, W
<1>8. Turns(a, b, n) = W(Turns(a, b, n))
  BY <1>6, <1>7
<1> QED
  BY <1>8 DEF W

\* What is left after a turn with the divisor D is the remainder of a.
Divides(a, D, s) == s \in States /\ a = s.quot * D + s.rem /\ s.rem < D

LEMMA TurnStep ==
  ASSUME NEW a \in Nat, NEW b \in Nat \ {0}, NEW i \in Nat, NEW s \in States,
         a = s.quot * (2 * (b * Pow2[i])) + s.rem, s.rem < 2 * (b * Pow2[i])
  PROVE  Divides(a, b * Pow2[i], Turn(b, i, s))
<1> DEFINE D == b * Pow2[i]
           t == Turn(b, i, s)
<1>1. D \in Nat
  BY Pow2Type
<1>2. s.quot \in Nat /\ s.rem \in Nat
  BY DEF States
<1>3. t \in States
  BY TurnType
<1>4. t = IF s.rem >= D THEN [quot |-> 2 * s.quot + 1, rem |-> s.rem - D]
          ELSE [quot |-> 2 * s.quot, rem |-> s.rem]
  BY DEF Turn
<1>5. a = s.quot * (2 * D) + s.rem /\ s.rem < 2 * D
  OBVIOUS
<1> HIDE DEF D, t
<1>6. CASE s.rem >= D
  <2>1. t.quot = 2 * s.quot + 1 /\ t.rem = s.rem - D
    BY <1>4, <1>6
  <2>2. (2 * s.quot + 1) * D = s.quot * (2 * D) + D
    BY <1>1, <1>2
  <2> QED
    BY <1>1, <1>2, <1>3, <1>5, <2>1, <2>2 DEF Divides, D, t
<1>7. CASE ~(s.rem >= D)
  <2>1. t.quot = 2 * s.quot /\ t.rem = s.rem
    BY <1>4, <1>7, Zenon
  <2>2. (2 * s.quot) * D = s.quot * (2 * D) /\ s.rem < D
    BY <1>1, <1>2, <1>7
  <2> QED
    BY <1>1, <1>2, <1>3, <1>5, <2>1, <2>2 DEF Divides, D, t
<1> QED
  BY <1>6, <1>7

\* Shift and subtract gives quotient and remainder of all words.
LEMMA UnsignedExact ==
  ASSUME NEW a \in 0 .. MaxU, NEW b \in 1 .. MaxU
  PROVE  UDivMod(a, b) = [quot |-> a \div b, rem |-> a % b]
<1>0. a \in Nat /\ b \in Nat \ {0}
  BY WordFacts
<1>1. CASE a < b
  <2>1. 0 = a \div b /\ a = a % b
    <3>1. a = 0 * b + a
      BY <1>0
    <3> QED
      BY <1>0, <1>1, <3>1, DivModUnique
  <2> QED
    BY <1>0, <1>1, <2>1 DEF UDivMod
<1>2. CASE ~(a < b)
  <2> DEFINE n == Shift(a, b)
             f == Turns(a, b, n)
  <2>1. b <= a
    BY <1>0, <1>2
  <2>2. n \in Nat /\ a < 2 * (b * Pow2[n])
    BY <2>1, ShiftFacts
  <2> HIDE DEF n
  <2>3. \A i \in 0 .. n : f[i] = Turn(b, i, IF i = n THEN [quot |-> 0, rem |-> a] ELSE f[i + 1])
    BY <1>0, <2>2, TurnsFacts
  <2> HIDE DEF f
  <2> DEFINE T == {k \in Nat : k <= n => Divides(a, b * Pow2[n - k], f[n - k])}
  <2>4. 0 \in T
    <3> DEFINE s == [quot |-> 0, rem |-> a]
    <3>1. s \in States /\ s.quot = 0 /\ s.rem = a
      BY <1>0 DEF States
    <3>2. b * Pow2[n] \in Nat
      BY <1>0, <2>2, Pow2Type
    <3>3. a = 0 * (2 * (b * Pow2[n])) + a
      BY <1>0, <3>2
    <3>4. n \in 0 .. n /\ n - 0 = n
      BY <2>2
    <3>5. f[n] = Turn(b, n, s)
      BY <2>3, <3>4
    <3> HIDE DEF s
    <3>6. Divides(a, b * Pow2[n], Turn(b, n, s))
      BY <1>0, <2>2, <3>1, <3>3, TurnStep
    <3> QED
      BY <3>4, <3>5, <3>6
  <2>5. ASSUME NEW k \in T PROVE k + 1 \in T
    <3>0. k \in Nat /\ (k <= n => Divides(a, b * Pow2[n - k], f[n - k]))
      OBVIOUS
    <3> HIDE DEF T
    <3> SUFFICES ASSUME k + 1 <= n PROVE Divides(a, b * Pow2[n - (k + 1)], f[n - (k + 1)])
      BY <3>0 DEF T
    <3> DEFINE i == n - (k + 1)
               s == f[i + 1]
    <3>1. i \in Nat /\ i \in 0 .. n /\ i # n /\ i + 1 = n - k /\ k <= n
      BY <2>2, <3>0
    <3> HIDE DEF i
    <3>2. f[i] = Turn(b, i, s)
      BY <2>3, <3>1
    <3>3. Divides(a, b * Pow2[i + 1], s)
      BY <3>0, <3>1
    <3>4. b * Pow2[i + 1] = 2 * (b * Pow2[i])
      <4>1. Pow2[i] \in Nat /\ Pow2[i + 1] = 2 * Pow2[i]
        BY <3>1, Pow2Facts
      <4> QED
        BY <1>0, <4>1
    <3> HIDE DEF s
    <3>5. /\ s \in States /\ a = s.quot * (2 * (b * Pow2[i])) + s.rem
          /\ s.rem < 2 * (b * Pow2[i])
      BY <3>3, <3>4 DEF Divides
    <3>6. Divides(a, b * Pow2[i], Turn(b, i, s))
      BY <1>0, <3>1, <3>5, TurnStep
    <3> QED
      BY <3>2, <3>6 DEF i
  <2>6. n \in T
    <3> HIDE DEF T
    <3>1. T = Nat
      BY <2>4, <2>5, Induction, Zenon DEF T
    <3> QED
      BY <2>2, <3>1
  <2>7. Divides(a, b * Pow2[0], f[0])
    <3>1. n - n = 0 /\ n <= n
      BY <2>2
    <3> QED
      BY <2>6, <3>1
  <2>8. b * Pow2[0] = b
    BY <1>0, Pow2Facts
  <2>9. f[0] \in States /\ a = f[0].quot * b + f[0].rem /\ f[0].rem < b
    BY <2>7, <2>8 DEF Divides
  <2>10. f[0].quot \in Nat /\ f[0].rem \in Nat /\ f[0] = [quot |-> f[0].quot, rem |-> f[0].rem]
    BY <2>9 DEF States
  <2>11. f[0].quot = a \div b /\ f[0].rem = a % b
    <3> DEFINE q == f[0].quot
               r == f[0].rem
    <3>1. a \in Int /\ q \in Int /\ r \in Nat /\ a = q * b + r /\ r < b
      BY <1>0, <2>9, <2>10
    <3> HIDE DEF q, r
    <3>2. q = a \div b /\ r = a % b
      BY <1>0, <3>1, DivModUnique
    <3> QED
      BY <3>2 DEF q, r
  <2>12. UDivMod(a, b) = f[0]
    BY <1>0, <1>2 DEF UDivMod, f, n
  <2> QED
    BY <2>10, <2>11, <2>12
<1> QED
  BY <1>1, <1>2

LEMMA AbsoluteFacts ==
  ASSUME NEW x \in MinS .. MaxS
  PROVE  UAbs(x) = IF x < 0 THEN -x ELSE x
<1> DEFINE M == Pow2[Bits - 1]
           N == Pow2[Bits]
<1>1. M \in Nat \ {0} /\ N = 2 * M /\ x \in Int /\ -M <= x /\ x <= M - 1
  BY WordFacts
<1> HIDE DEF M, N
<1>2. CASE x < 0
  <2>1. N \in Nat \ {0} /\ -x \in Nat /\ -x < N /\ -x = 0 * N + (-x)
    BY <1>1, <1>2
  <2>2. -x = (-x) % N
    BY <2>1, DivModUnique
  <2> QED
    BY <1>2, <2>2 DEF UAbs, Unsigned, N
<1> QED
  BY <1>1, <1>2 DEF UAbs

\* Converting a quotient or a remainder to a signed word, and negating it
LEMMA SignedFacts ==
  ASSUME NEW x \in Nat, x <= Pow2[Bits - 1]
  PROVE  IF x < Pow2[Bits - 1] THEN Signed(x) = x /\ Negate(Signed(x)) = -x
         ELSE Negate(Signed(x)) = -x
<1> DEFINE M == Pow2[Bits - 1]
           N == Pow2[Bits]
<1>1. M \in Nat \ {0} /\ N = 2 * M /\ x \in Nat /\ x <= M /\ N \in Nat \ {0} /\ MaxS = M - 1
  BY WordFacts
<1> HIDE DEF M, N
<1>2. Signed(x) = IF x < M THEN x ELSE x - N
  BY <1>1 DEF Signed, N
<1>3. CASE x = 0
  <2>1. Signed(x) = 0
    BY <1>1, <1>2, <1>3
  <2>2. 0 = 0 * N + 0
    BY <1>1
  <2>3. 0 = 0 % N
    BY <1>1, <2>2, DivModUnique
  <2>4. Negate(Signed(x)) = 0
    BY <1>1, <2>1, <2>3 DEF Negate, Unsigned, Signed, N
  <2> QED
    BY <1>1, <1>3, <2>1, <2>4 DEF M
<1>4. CASE x # 0 /\ x < M
  <2>1. Signed(x) = x
    BY <1>2, <1>4
  <2>2. -x \in Int /\ N - x \in Nat /\ N - x < N /\ -x = (-1) * N + (N - x) /\ -1 \in Int
    BY <1>1, <1>4
  <2>3. N - x = (-x) % N
    BY <1>1, <2>2, DivModUnique
  <2>4. Negate(x) = Signed(N - x)
    BY <2>3 DEF Negate, Unsigned, N
  <2>5. Signed(N - x) = -x
    <3>1. N - x > MaxS /\ (N - x) - N = -x
      BY <1>1, <1>4
    <3> QED
      BY <3>1 DEF Signed, N
  <2> QED
    BY <1>1, <1>4, <2>1, <2>4, <2>5 DEF M
<1>5. CASE x = M
  <2>1. Signed(x) = -M
    BY <1>1, <1>2, <1>5
  <2>2. M \in Int /\ M < N /\ M = 0 * N + M /\ -(-M) = M
    BY <1>1
  <2>3. M = M % N
    BY <1>1, <2>2, DivModUnique
  <2>4. Negate(-M) = Signed(M)
    BY <2>2, <2>3 DEF Negate, Unsigned, N
  <2> QED
    BY <1>1, <1>5, <2>1, <2>4 DEF M
<1> QED
  BY <1>1, <1>3, <1>4, <1>5

LEMMA SignedExact ==
  ASSUME NEW a \in MinS .. MaxS, NEW b \in MinS .. MaxS \ {0}, ~(a = MinS /\ b = -1)
  PROVE  /\ a = SDiv(a, b) * b + SMod(a, b)
         /\ UAbs(SMod(a, b)) < UAbs(b)
         /\ SMod(a, b) # 0 => (SMod(a, b) < 0) = (a < 0)
<1> DEFINE M == Pow2[Bits - 1]
           x == UAbs(a)
           y == UAbs(b)
           Q == x \div y
           R == x % y
           q == SDiv(a, b)
           r == SMod(a, b)
<1>1. /\ M \in Nat \ {0} /\ MinS = -M /\ MaxS = M - 1 /\ MaxU = 2 * M - 1
      /\ a \in Int /\ b \in Int /\ b # 0 /\ -M <= a /\ a <= M - 1 /\ -M <= b /\ b <= M - 1
      /\ ~(a = -M /\ b = -1)
  BY WordFacts
<1>2. x = (IF a < 0 THEN -a ELSE a) /\ y = (IF b < 0 THEN -b ELSE b)
  BY AbsoluteFacts
<1> HIDE DEF M, x, y
<1>3. /\ x \in Nat /\ y \in Nat \ {0} /\ x <= M /\ y <= M
      /\ x \in 0 .. MaxU /\ y \in 1 .. MaxU
  BY <1>1, <1>2
<1>4. UDivMod(x, y) = [quot |-> Q, rem |-> R]
  BY <1>3, UnsignedExact
<1>5. q = IF (a < 0) # (b < 0) THEN Negate(Signed(Q)) ELSE Signed(Q)
  BY <1>4 DEF SDiv, UDiv, x, y
<1>6. r = IF a < 0 THEN Negate(Signed(R)) ELSE Signed(R)
  BY <1>4 DEF SMod, UMod, x, y
<1>7. Q \in Nat /\ R \in Nat /\ R < y /\ x = Q * y + R
  <2>1. Q \in Int /\ R \in Nat /\ R < y /\ x = Q * y + R
    BY <1>3
  <2> HIDE DEF Q, R
  <2>2. ~(Q <= -1)
    <3> SUFFICES ASSUME Q <= -1 PROVE FALSE
      OBVIOUS
    <3>1. Q * y <= (-1) * y /\ Q * y \in Int
      BY <1>3, <2>1, ProductGrows
    <3> QED
      BY <1>3, <2>1, <3>1
  <2> QED
    BY <2>1, <2>2
<1> HIDE DEF Q, R, q, r
<1>8. Q <= x
  <2>1. 1 * Q <= y * Q /\ y * Q = Q * y /\ Q * y \in Int
    BY <1>3, <1>7, ProductGrows
  <2> QED
    BY <1>3, <1>7, <2>1
<1>9. Q = M => x = M /\ y = 1
  <2> SUFFICES ASSUME Q = M, y >= 2 PROVE FALSE
    BY <1>1, <1>3, <1>7, <1>8
  <2>1. 2 * Q <= y * Q /\ y * Q = Q * y /\ Q * y \in Int
    BY <1>3, <1>7, ProductGrows
  <2> QED
    BY <1>1, <1>3, <1>7, <2>1
<1>10. r = (IF a < 0 THEN -R ELSE R) /\ r \in MinS .. MaxS
  <2>1. R < M /\ R <= M
    BY <1>1, <1>3, <1>7
  <2>2. Signed(R) = R /\ Negate(Signed(R)) = -R
    BY <1>7, <2>1, SignedFacts DEF M
  <2> QED
    BY <1>1, <1>6, <1>7, <2>1, <2>2
<1>11. q = IF (a < 0) # (b < 0) THEN -Q ELSE Q
  <2>1. Q <= M
    BY <1>1, <1>3, <1>7, <1>8
  <2>2. CASE Q < M
    <3>1. Signed(Q) = Q /\ Negate(Signed(Q)) = -Q
      BY <1>7, <2>1, <2>2, SignedFacts DEF M
    <3> QED
      BY <1>5, <3>1
  <2>3. CASE Q = M
    <3>1. a = -M /\ b = 1
      BY <1>1, <1>2, <1>9, <2>3
    <3>2. Negate(Signed(Q)) = -Q
      BY <1>1, <1>7, <2>1, <2>3, SignedFacts DEF M
    <3> QED
      BY <1>1, <1>5, <3>1, <3>2
  <2> QED
    BY <1>1, <1>7, <2>1, <2>2, <2>3
<1>12. a = q * b + r
  <2>1. CASE a < 0 /\ b < 0
    <3>1. Q * b = -(Q * y)
      BY <1>1, <1>2, <1>7, <2>1
    <3>2. q = Q /\ r = -R /\ x = -a
      BY <1>2, <1>10, <1>11, <2>1
    <3>3. Q * y \in Int
      BY <1>3, <1>7
    <3> QED
      BY <1>1, <1>7, <3>1, <3>2, <3>3
  <2>2. CASE a < 0 /\ ~(b < 0)
    <3>1. q = -Q /\ r = -R /\ x = -a /\ y = b
      BY <1>2, <1>10, <1>11, <2>2
    <3>2. (-Q) * b = -(Q * y) /\ Q * y \in Int
      BY <1>1, <1>3, <1>7, <3>1
    <3> QED
      BY <1>1, <1>7, <3>1, <3>2
  <2>3. CASE ~(a < 0) /\ b < 0
    <3>1. q = -Q /\ r = R /\ x = a /\ y = -b
      BY <1>2, <1>10, <1>11, <2>3
    <3>2. (-Q) * b = Q * y /\ Q * y \in Int
      BY <1>1, <1>3, <1>7, <3>1
    <3> QED
      BY <1>1, <1>7, <3>1, <3>2
  <2>4. CASE ~(a < 0) /\ ~(b < 0)
    <3>1. q = Q /\ r = R /\ x = a /\ y = b
      BY <1>2, <1>10, <1>11, <2>4
    <3> QED
      BY <1>7, <3>1
  <2> QED
    BY <2>1, <2>2, <2>3, <2>4
<1>13. UAbs(r) < y
  <2>1. UAbs(r) = IF r < 0 THEN -r ELSE r
    BY <1>10, AbsoluteFacts
  <2> QED
    BY <1>1, <1>7, <1>10, <2>1
<1>14. r # 0 => (r < 0) = (a < 0)
  BY <1>1, <1>7, <1>10
<1> QED
  BY <1>12, <1>13, <1>14 DEF q, r, y

\* The division routines are exact for words of every width: shift and subtract
\* computes quotient and remainder, and the signed routines truncate towards
\* zero, up to the one quotient that is no signed word.
THEOREM DivisionCorrect == DivisionExact
<1>1. \A a \in 0 .. MaxU, b \in 1 .. MaxU : UDivMod(a, b) = [quot |-> a \div b, rem |-> a % b]
  BY UnsignedExact
<1>2. ASSUME NEW a \in MinS .. MaxS, NEW b \in MinS .. MaxS \ {0}, ~(a = MinS /\ b = -1)
      PROVE  /\ a = SDiv(a, b) * b + SMod(a, b)
             /\ UAbs(SMod(a, b)) < UAbs(b)
             /\ SMod(a, b) # 0 => (SMod(a, b) < 0) = (a < 0)
  BY <1>2, SignedExact
<1> QED
  BY <1>1, <1>2 DEF DivisionExact

----------------------------------------------------------------------------
(* The clocks. *)

\* What a clock of the host shows at t
TimeAt(c, t) == CASE c = "REALTIME" -> t + Epoch
                  [] c = "MONOTONIC" -> t
                  [] c = "BOOT" -> t - Start

ClockCalls ==
  [op : {"none", "gettime", "settime", "gettimeofday"}, clock : Clocks, addr : Pointers, target : Nat]

\* The two words that are read belong to one time, at which the low register
\* was read, and sign and magnitude are the distance that was set last.
ClockInv ==
  /\ now \in Start .. Last
  /\ neg \in {0, 1} /\ mag \in Nat /\ base = IF neg = 0 THEN mag ELSE -mag
  /\ base + now + Epoch >= 0
  /\ latched \in [Clocks -> Int]
  /\ call \in ClockCalls
  /\ call.op = "settime" => call.clock = "REALTIME"
  /\ pc \in {"idle", "lo", "hi"}
  /\ pc # "idle" => began \in Start .. now
  /\ pc = "hi" => /\ at \in began .. now
                  /\ latched[call.clock] = TimeAt(call.clock, at)
                  /\ lo = TimeAt(call.clock, at) % Word

LEMMA ClockFacts ==
  /\ Start \in Nat /\ Last \in Nat /\ Start <= Last /\ Epoch \in Nat
  /\ Word \in Nat \ {0} /\ MaxU \in Nat /\ Last + Epoch <= MaxU
<1>1. Bits \in Nat /\ Bits \div 2 \in Nat
  BY BitsAssumption
<1>2. Pow2[Bits] \in Nat \ {0} /\ Pow2[Bits \div 2] \in Nat \ {0}
  BY <1>1, Pow2Type
<1>3. MaxU \in Nat
  BY <1>2 DEF MaxU
<1> QED
  BY <1>2, <1>3, ClockAssumption DEF Word

LEMMA ClocksInit == ClockInit => ClockInv
<1> SUFFICES ASSUME ClockInit PROVE ClockInv
  OBVIOUS
<1>1. call \in ClockCalls /\ call.op = "none"
  BY DEF ClockInit, NoCall, ClockCalls, Clocks, Pointers
<1> QED
  BY <1>1, ClockFacts DEF ClockInit, ClockInv

\* A call that begins or fails at once
LEMMA ClockCallStep ==
  ASSUME ClockInv, Calls
  PROVE  ClockInv'
<1>0. NoCall \in ClockCalls /\ NoCall.op = "none"
  BY DEF NoCall, ClockCalls, Clocks, Pointers
<1>1. ASSUME NEW r, Return(r), pc = "idle" PROVE ClockInv'
  BY <1>0, <1>1 DEF Return, ClockInv, kernel, history
<1>2. ASSUME NEW c \in ClockCalls, c.op = "settime" => c.clock = "REALTIME", ReadTime(c)
      PROVE  ClockInv'
  <2>1. /\ call' = c /\ pc' = "lo" /\ began' = now
        /\ UNCHANGED <<now, latched, neg, mag, base>>
    BY <1>2 DEF ReadTime, kernel
  <2>2. now \in Start .. now
    BY ClockFacts DEF ClockInv
  <2> QED
    BY <1>2, <2>1, <2>2 DEF ClockInv
<1>3. ASSUME NEW i \in ClockIds, NEW a \in Pointers, Getres(i, a) PROVE ClockInv'
  BY <1>1, <1>3 DEF Getres, Fail
<1>4. ASSUME NEW i \in ClockIds, NEW a \in Pointers, Gettime(i, a) PROVE ClockInv'
  <2>1. pc = "idle"
    BY <1>4 DEF Gettime
  <2>2. CASE \E r : Return(r)
    BY <1>1, <2>1, <2>2
  <2>3. CASE ~\E r : Return(r)
    <3> DEFINE c == [op |-> "gettime", clock |-> ClockOf[i], addr |-> a, target |-> 0]
    <3>1. Supported(i) /\ ReadTime(c)
      BY <1>4, <2>3 DEF Gettime, Fail
    <3>2. ClockOf[i] \in Clocks
      BY <3>1 DEF ClockOf, Supported, Clocks
    <3>3. c \in ClockCalls /\ c.op # "settime"
      BY <3>2 DEF ClockCalls
    <3> HIDE DEF c
    <3> QED
      BY <1>2, <3>1, <3>3
  <2> QED
    BY <2>2, <2>3
<1>5. ASSUME NEW i \in ClockIds, NEW a \in Pointers, NEW ts \in Timespecs, Settime(i, a, ts)
      PROVE  ClockInv'
  <2>1. pc = "idle"
    BY <1>5 DEF Settime
  <2>2. CASE \E r : Return(r)
    BY <1>1, <2>1, <2>2
  <2>3. CASE ~\E r : Return(r)
    <3> DEFINE c == [op |-> "settime", clock |-> "REALTIME", addr |-> a, target |-> Ns(ts)]
    <3>1. ValidTime(ts) /\ ReadTime(c)
      BY <1>5, <2>3 DEF Settime, Fail
    <3>2. Ns(ts) \in Nat
      <4>1. ts[1] \in Nat /\ ts[2] \in Nat /\ NS_PER_SEC \in Nat
        BY <3>1, ClockAssumption DEF ValidTime
      <4>2. ts[1] * NS_PER_SEC \in Nat
        BY <4>1
      <4> QED
        BY <4>1, <4>2 DEF Ns
    <3>3. c \in ClockCalls /\ c.clock = "REALTIME"
      BY <3>2 DEF ClockCalls, Clocks
    <3> HIDE DEF c
    <3> QED
      BY <1>2, <3>1, <3>3
  <2> QED
    BY <2>2, <2>3
<1>6. ASSUME NEW a \in Pointers, Gettimeofday(a) PROVE ClockInv'
  <2>1. pc = "idle"
    BY <1>6 DEF Gettimeofday
  <2>2. CASE \E r : Return(r)
    BY <1>1, <2>1, <2>2
  <2>3. CASE ~\E r : Return(r)
    <3> DEFINE c == [op |-> "gettimeofday", clock |-> "REALTIME", addr |-> a, target |-> 0]
    <3>1. ReadTime(c)
      BY <1>6, <2>3 DEF Gettimeofday, Fail
    <3>2. c \in ClockCalls /\ c.op # "settime"
      BY DEF ClockCalls, Clocks
    <3> HIDE DEF c
    <3> QED
      BY <1>2, <3>1, <3>2
  <2> QED
    BY <2>2, <2>3
<1> QED
  BY <1>3, <1>4, <1>5, <1>6 DEF Calls

\* mmio_read_time_ns puts the words of one time together.
LEMMA WholeTime ==
  ASSUME ClockInv, pc = "hi", call.clock # "BOOT"
  PROVE  /\ at \in Int /\ began \in Int /\ now \in Int /\ began <= at /\ at <= now
         /\ Start <= began /\ now <= Last
         /\ Hi(call.clock) * Word + lo = TimeAt(call.clock, at)
<1>0. /\ at \in Int /\ began \in Int /\ now \in Int /\ began <= at /\ at <= now
      /\ Start <= began /\ now <= Last
  BY ClockFacts DEF ClockInv
<1> DEFINE t == TimeAt(call.clock, at)
<1>1. call.clock \in {"REALTIME", "MONOTONIC"}
  BY DEF ClockInv, ClockCalls, Clocks
<1>2. t \in Int
  BY <1>0, <1>1, ClockFacts DEF TimeAt
<1>3. HiOffset[call.clock] <= LastOffset
  BY <1>1 DEF HiOffset, LastOffset
<1>4. Hi(call.clock) = t \div Word /\ lo = t % Word
  BY <1>3 DEF Hi, ClockInv
<1> HIDE DEF t
<1>5. (t \div Word) * Word + (t % Word) = t
  BY <1>2, ClockFacts
<1> QED
  BY <1>0, <1>4, <1>5 DEF t

LEMMA ClockReadStep ==
  ASSUME ClockInv, ReadLo \/ ReadHi \/ Advance
  PROVE  ClockInv'
<1>1. CASE ReadLo
  <2> DEFINE c == call.clock
  <2>0. c \in Clocks
    BY DEF ClockInv, ClockCalls
  <2>1. /\ pc = "lo" /\ pc' = "hi" /\ at' = now /\ lo' = HostTime(c) % Word
        /\ latched' = [latched EXCEPT ![c] = HostTime(c)]
        /\ UNCHANGED <<now, neg, mag, call, base, began>>
    BY <1>1 DEF ReadLo, kernel
  <2>2. HostTime(c) = TimeAt(c, now) /\ HostTime(c) \in Int
    BY <2>0, ClockFacts DEF HostTime, TimeAt, Clocks, ClockInv
  <2>3. now \in began .. now
    BY <2>1, ClockFacts DEF ClockInv
  <2> QED
    BY <2>0, <2>1, <2>2, <2>3 DEF ClockInv
<1>2. CASE ReadHi
  <2> DEFINE raw == Hi(call.clock) * Word + lo
  <2>1. /\ pc = "hi" /\ pc' = "idle" /\ call' = NoCall /\ FinishTime(raw)
        /\ UNCHANGED <<now, latched>>
    BY <1>2 DEF ReadHi
  <2>2. NoCall \in ClockCalls /\ NoCall.op = "none"
    BY DEF NoCall, ClockCalls, Clocks, Pointers
  <2>3. CASE call.op = "settime"
    <3>1. call.clock = "REALTIME" /\ call.target \in Nat
      BY <2>3 DEF ClockInv, ClockCalls
    <3>2. raw = at + Epoch /\ at \in Int /\ now \in Int /\ at <= now /\ at >= 0
      BY <2>1, <3>1, WholeTime, ClockFacts DEF TimeAt
    <3>3. /\ neg' = IF call.target >= raw THEN 0 ELSE 1
          /\ mag' = IF call.target >= raw THEN call.target - raw ELSE raw - call.target
          /\ base' = call.target - (at + Epoch)
      BY <2>1, <2>3 DEF FinishTime, SetOffset
    <3> HIDE DEF raw
    <3>4. neg' \in {0, 1} /\ mag' \in Nat /\ base' = IF neg' = 0 THEN mag' ELSE -mag'
      BY <3>1, <3>2, <3>3, ClockFacts
    <3>5. base' + now + Epoch >= 0
      BY <3>1, <3>2, <3>3, ClockFacts
    <3> QED
      BY <2>1, <2>2, <3>4, <3>5 DEF ClockInv
  <2>4. CASE call.op # "settime"
    <3>1. UNCHANGED <<neg, mag, base>>
      BY <2>1, <2>4 DEF FinishTime, kernel
    <3> QED
      BY <2>1, <2>2, <3>1 DEF ClockInv
  <2> QED
    BY <2>3, <2>4
<1>3. CASE Advance
  <2>1. now < Last /\ now' = now + 1 /\ UNCHANGED <<latched, neg, mag, call, pc, lo, began, at, base>>
    BY <1>3 DEF Advance, kernel, history
  <2>2. now' \in Start .. Last /\ now \in Int /\ base \in Int
    BY <2>1, ClockFacts DEF ClockInv
  <2>3. base' + now' + Epoch >= 0
    BY <2>1, <2>2, ClockFacts DEF ClockInv
  <2>4. pc # "idle" => began \in Start .. now'
    BY <2>1, <2>2, ClockFacts DEF ClockInv
  <2>5. pc = "hi" => at \in began .. now'
    BY <2>1, <2>2, <2>4, ClockFacts DEF ClockInv
  <2> QED
    BY <2>1, <2>2, <2>3, <2>4, <2>5 DEF ClockInv
<1> QED
  BY <1>1, <1>2, <1>3

LEMMA ClockInvariant == ClockSpec => []ClockInv
<1>1. ClockInv /\ [ClockNext]_clocks => ClockInv'
  <2> SUFFICES ASSUME ClockInv, [ClockNext]_clocks PROVE ClockInv'
    OBVIOUS
  <2>1. CASE ClockNext
    BY <2>1, ClockCallStep, ClockReadStep DEF ClockNext
  <2>2. CASE UNCHANGED clocks
    BY <2>2 DEF clocks, history, ClockInv
  <2> QED
    BY <2>1, <2>2
<1> QED
  BY <1>1, ClocksInit, PTL DEF ClockSpec

\* Which step returns a time, and which time
LEMMA ReturnedTime ==
  ASSUME ClockInv, ClockNext, NEW c \in {"REALTIME", "MONOTONIC"}, Returns(c)
  PROVE  /\ now \in Int /\ at \in Int /\ began \in Int
         /\ began <= at /\ at <= now /\ Start <= began /\ now <= Last
         /\ ns' = IF c = "REALTIME" THEN ApplyOffset(at + Epoch) ELSE at
<1>1. pc = "hi" /\ pc' = "idle" /\ call.op # "settime" /\ call.clock = c
  BY DEF Returns
<1>2. ReadHi
  <2>1. ~Calls
    BY <1>1, Zenon DEF Calls, Getres, Gettime, Settime, Gettimeofday
  <2> QED
    BY <1>1, <2>1 DEF ClockNext, ReadLo, Advance
<1>3. ns' = IF c = "REALTIME" THEN ApplyOffset(Hi(c) * Word + lo) ELSE Hi(c) * Word + lo
  BY <1>1, <1>2 DEF ReadHi, FinishTime
<1> QED
  BY <1>1, <1>3, WholeTime DEF TimeAt

\* A read of CLOCK_MONOTONIC gives a time of the host's clock between the call
\* and its return: the low register latches both words.
THEOREM MonotonicCorrect == ClockSpec => MonotonicIsWhole
<1>1. ClockInv /\ [ClockNext]_clocks => [Returns("MONOTONIC") => began <= ns' /\ ns' <= now]_clocks
  BY ReturnedTime
<1> QED
  BY <1>1, ClockInvariant, PTL DEF ClockSpec, MonotonicIsWhole

\* CLOCK_REALTIME and gettimeofday give the time that clock_settime set plus the
\* time that has passed since, for times set before and after the host's.
THEOREM RealtimeCorrect == ClockSpec => RealtimeFollowsSet
<1>1. ASSUME ClockInv, ClockNext, Returns("REALTIME")
      PROVE  Shown(began) <= ns' /\ ns' <= Shown(now)
  <2>1. /\ now \in Int /\ at \in Int /\ began \in Int
        /\ began <= at /\ at <= now /\ Start <= began /\ now <= Last
        /\ ns' = ApplyOffset(at + Epoch)
    BY <1>1, ReturnedTime
  <2>2. ASSUME NEW t \in Int
        PROVE  Shown(t) = IF t + Epoch + base < MaxU THEN t + Epoch + base ELSE MaxU
    BY DEF Shown
  <2>3. /\ neg \in {0, 1} /\ mag \in Nat /\ base = IF neg = 0 THEN mag ELSE -mag
        /\ base + now + Epoch >= 0
    BY <1>1 DEF ClockInv
  <2>4. CASE neg = 0
    BY <2>1, <2>2, <2>3, <2>4, ClockFacts DEF ApplyOffset
  <2>5. CASE neg = 1
    BY <2>1, <2>2, <2>3, <2>5, ClockFacts DEF ApplyOffset
  <2> QED
    BY <2>3, <2>4, <2>5
<1>2. ClockInv /\ [ClockNext]_clocks => [Returns("REALTIME") => Shown(began) <= ns' /\ ns' <= Shown(now)]_clocks
  BY <1>1
<1> QED
  BY <1>2, ClockInvariant, PTL DEF ClockSpec, RealtimeFollowsSet

\* The time that a call works out is a word.
LEMMA TimeIsWord ==
  ASSUME ClockInv, ReadHi, call.op # "settime"
  PROVE  ns' \in 0 .. MaxU
<1> DEFINE c == call.clock
           raw == Hi(c) * Word + lo
<1>1. pc = "hi" /\ c \in Clocks /\ ns' = IF c = "REALTIME" THEN ApplyOffset(raw) ELSE raw
  BY DEF ReadHi, FinishTime, ClockInv, ClockCalls
<1>2. /\ at \in Int /\ Start <= at /\ at <= Last
      /\ lo = TimeAt(c, at) % Word
  BY <1>1, ClockFacts DEF ClockInv
<1>3. raw \in 0 .. MaxU
  <2>1. CASE c = "BOOT"
    <3>1. at - Start \in 0 .. MaxU /\ lo = (at - Start) % Word
      BY <1>2, <2>1, ClockFacts DEF TimeAt
    <3>2. lo \in 0 .. at - Start
      BY <3>1, ClockFacts
    <3>3. raw = lo
      BY <2>1, <3>2, ClockFacts DEF Hi, HiOffset, LastOffset
    <3> HIDE DEF raw
    <3> QED
      BY <1>2, <3>1, <3>2, <3>3, ClockFacts
  <2>2. CASE c # "BOOT"
    <3>1. raw = TimeAt(c, at)
      BY <1>1, <2>2, WholeTime DEF Clocks
    <3> HIDE DEF raw
    <3> QED
      BY <1>1, <1>2, <2>2, <3>1, ClockFacts DEF TimeAt, Clocks
  <2> QED
    BY <2>1, <2>2
<1> HIDE DEF raw
<1>4. mag \in Nat /\ neg \in {0, 1}
  BY DEF ClockInv
<1>5. ApplyOffset(raw) \in 0 .. MaxU
  BY <1>3, <1>4, ClockFacts DEF ApplyOffset
<1> QED
  BY <1>1, <1>3, <1>5

\* What the division routines make of a time
LEMMA SplitTime ==
  ASSUME NEW t \in 0 .. MaxU
  PROVE  /\ UDiv(t, NS_PER_SEC) \in Nat /\ UMod(t, NS_PER_SEC) \in 0 .. NS_PER_SEC - 1
         /\ t = UDiv(t, NS_PER_SEC) * NS_PER_SEC + UMod(t, NS_PER_SEC)
         /\ Fits(t) <=> t < (MaxSec + 1) * NS_PER_SEC
         /\ LET r == UMod(t, NS_PER_SEC)
                m == UDiv(r, NS_PER_US) * NS_PER_US
            IN  m \in Int /\ m <= r /\ r < m + NS_PER_US
<1> DEFINE S == NS_PER_SEC
           U == NS_PER_US
           q == UDiv(t, S)
           r == UMod(t, S)
           v == UDiv(r, U)
<1>0. MaxU \in Nat /\ S \in 1 .. MaxU /\ U \in 1 .. MaxU /\ MaxSec \in Nat
  BY ClockFacts, ClockAssumption
<1>1. q = t \div S /\ r = t % S
  BY <1>0, UnsignedExact DEF UDiv, UMod
<1> HIDE DEF S, U, q, r
<1>2. q \in Nat /\ r \in 0 .. S - 1 /\ t = q * S + r
  BY <1>0, <1>1
<1>3. r \in 0 .. MaxU
  BY <1>0, <1>2
<1>4. v = r \div U
  BY <1>0, <1>3, UnsignedExact DEF UDiv, U
<1> HIDE DEF v
<1>5. v \in Nat /\ v * U <= r /\ r < v * U + U /\ v * U \in Int
  BY <1>0, <1>3, <1>4
<1>6. q <= MaxSec <=> t < (MaxSec + 1) * S
  <2>1. CASE q <= MaxSec
    <3>1. (q + 1) * S <= (MaxSec + 1) * S
      BY <1>0, <1>2, <2>1
    <3> QED
      BY <1>0, <1>2, <2>1, <3>1
  <2>2. CASE q >= MaxSec + 1
    <3>1. q * S >= (MaxSec + 1) * S
      BY <1>0, <1>2, <2>2
    <3> QED
      BY <1>0, <1>2, <2>2, <3>1
  <2> QED
    BY <1>0, <1>2, <2>1, <2>2
<1> QED
  BY <1>2, <1>5, <1>6 DEF Fits, S, U, q, r, v

\* What clock_gettime and gettimeofday return makes up the time that they read,
\* for every time and every length of a second.
THEOREM ConversionsCorrect == ClockSpec => TimeIsSplit
<1> DEFINE unit == IF call.op = "gettime" THEN 1 ELSE NS_PER_US
           time == ret'.sec * NS_PER_SEC + ret'.frac * unit
           split == /\ ret'.err = "EOVERFLOW" <=> ns' >= (MaxSec + 1) * NS_PER_SEC
                    /\ ret'.err = "OK" => /\ time <= ns' /\ ns' < time + unit
                                          /\ ret'.frac * unit < NS_PER_SEC
<1>1. ASSUME ClockInv, ClockNext, NEW c \in Clocks, Returns(c)
      PROVE  split
  <2>1. ReadHi /\ call.op # "settime"
    <3>1. ~Calls
      BY <1>1, Zenon DEF Returns, Calls, Getres, Gettime, Settime, Gettimeofday
    <3> QED
      BY <1>1, <3>1, Zenon DEF Returns, ClockNext, ReadLo, Advance
  <2> DEFINE t == ns'
             s == UDiv(t, NS_PER_SEC)
             r == UMod(t, NS_PER_SEC)
             m == UDiv(r, NS_PER_US)
  <2>2. t \in 0 .. MaxU
    BY <1>1, <2>1, TimeIsWord
  <2>3. ret' = IF ~Fits(t) THEN Result("EOVERFLOW", 0, 0)
               ELSE IF call.addr = "bad" THEN Result("EFAULT", 0, 0)
               ELSE IF call.op = "gettime" THEN Result("OK", s, r)
               ELSE Result("OK", s, m)
    BY <2>1 DEF ReadHi, FinishTime, Timespec, Timeval
  <2> HIDE DEF t
  <2>4. /\ s \in Nat /\ r \in 0 .. NS_PER_SEC - 1 /\ t = s * NS_PER_SEC + r
        /\ Fits(t) <=> t < (MaxSec + 1) * NS_PER_SEC
        /\ m * NS_PER_US \in Int /\ m * NS_PER_US <= r /\ r < m * NS_PER_US + NS_PER_US
    BY <2>2, SplitTime
  <2>5. MaxSec \in Nat /\ NS_PER_SEC \in Nat /\ NS_PER_US \in Nat /\ t \in Nat
    BY <2>2, ClockFacts, ClockAssumption
  <2> HIDE DEF s, r, m
  <2>6. ret'.err = "EOVERFLOW" <=> t >= (MaxSec + 1) * NS_PER_SEC
    <3>1. ret'.err = "EOVERFLOW" <=> ~Fits(t)
      BY <2>3 DEF Result
    <3> DEFINE limit == (MaxSec + 1) * NS_PER_SEC
    <3>2. limit \in Int
      BY <2>5
    <3>3. Fits(t) <=> t < limit
      BY <2>4
    <3> HIDE DEF limit
    <3>4. t >= limit <=> ~(t < limit)
      BY <2>5, <3>2
    <3>5. ret'.err = "EOVERFLOW" <=> t >= limit
      BY <3>1, <3>3, <3>4, Zenon
    <3> QED
      BY <3>5 DEF limit
  <2>7. ASSUME ret'.err = "OK"
        PROVE  time <= t /\ t < time + unit /\ ret'.frac * unit < NS_PER_SEC
    <3>1. ret'.sec = s /\ ret'.frac = IF call.op = "gettime" THEN r ELSE m
      BY <2>3, <2>7 DEF Result
    <3>2. CASE call.op = "gettime"
      <4> DEFINE f == s * NS_PER_SEC
      <4>1. ret'.frac = r /\ ret'.sec = s /\ unit = 1 /\ r \in Int /\ f \in Int /\ t = f + r
        BY <2>4, <2>5, <3>1, <3>2
      <4> HIDE DEF unit
      <4>2. time = f + r /\ ret'.frac * unit = r
        BY <4>1
      <4> HIDE DEF f, time
      <4> QED
        BY <2>4, <2>5, <4>1, <4>2
    <3>3. CASE call.op # "gettime"
      <4>1. ret'.sec = s /\ ret'.frac * unit = m * NS_PER_US /\ unit = NS_PER_US
        BY <3>1, <3>3
      <4> HIDE DEF unit
      <4> DEFINE e == m * NS_PER_US
                 f == s * NS_PER_SEC
      <4>2. e \in Int /\ f \in Int /\ e <= r /\ r < e + NS_PER_US /\ t = f + r /\ r < NS_PER_SEC
        BY <2>4, <2>5
      <4>3. time = f + e /\ ret'.frac * unit = e
        BY <4>1
      <4> HIDE DEF e, f, time
      <4> QED
        BY <2>4, <2>5, <4>1, <4>2, <4>3
    <3> QED
      BY <3>2, <3>3
  <2> QED
    BY <2>6, <2>7 DEF t
<1>2. ClockInv /\ [ClockNext]_clocks => [\A c \in Clocks : Returns(c) => split]_clocks
  BY <1>1
<1> QED
  BY <1>2, ClockInvariant, PTL DEF ClockSpec, TimeIsSplit

=============================================================================
