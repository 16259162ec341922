-------------------------------- MODULE Disk --------------------------------
(***************************************************************************)
(* The disk device (io_devices/disk/disk.c and the disk ports of io.c): a   *)
(* core writes the transfer registers and a command, a worker thread that   *)
(* waits on a condition variable does the transfer, core 0 polls for its    *)
(* end and raises INT_DISK_COMPLETE.  Each action is one critical section   *)
(* of disk.mutex or of the shared lock.                                     *)
(***************************************************************************)
EXTENDS Integers

CONSTANTS
  Lbas,      \* sectors that a program asks for
  Image,     \* the ones that the image file has
  Addrs,     \* buffers in memory
  Valid,     \* the ones for which is_valid_dma holds
  Data,      \* contents of a sector
  Commands   \* values written to DISK_CMD

NONE == 0
READ == 1
WRITE == 2
FREE == 0
BUSY == 1

ASSUME DiskAssumption ==
  /\ Image \subseteq Lbas /\ Image # {}
  /\ Valid \subseteq Addrs /\ Addrs # {}
  /\ Data # {}
  /\ Commands \subseteq Nat

VARIABLES
  lba, mem_addr,          \* the transfer registers (count is part of lba)
  status, current_cmd,    \* vm->disk.status and current_cmd
  op_complete,            \* 0 or 1
  thread_running,         \* 0 or 1
  worker,                 \* where the worker thread is
  job,                    \* the registers and the command it copied
  buf,                    \* its transfer buffer
  memory, image,          \* contents of memory and of the image file
  irq,                    \* INT_DISK_COMPLETE is pending on core 0
  close_pc,               \* where vm_destroy is in disk_close
  accepted,               \* history: the command in progress, as it was written
  failed                  \* history: it was given up without an error

regs == <<lba, mem_addr>>
vars == <<lba, mem_addr, status, current_cmd, op_complete, thread_running, worker, job,
          buf, memory, image, irq, close_pc, accepted, failed>>

Job(c, l, m) == [cmd |-> c, lba |-> l, mem |-> m]
NoJob == Job(NONE, 0, 0)
Running == close_pc = "open"         \* the cores run

----------------------------------------------------------------------------
\* disk_init
Init ==
  /\ lba = 0 /\ mem_addr = 0
  /\ status = FREE /\ current_cmd = NONE
  /\ op_complete = 0 /\ thread_running = 1
  /\ worker = "check" /\ job = NoJob /\ buf = 0
  /\ memory \in [Valid -> Data] /\ image \in [Image -> Data]
  /\ irq = 0
  /\ close_pc = "open"
  /\ accepted = NoJob /\ failed = 0

\* accept_io: DISK_LBA and DISK_COUNT, DISK_MEM
SetLba(l) ==
  /\ Running
  /\ lba' = l
  /\ UNCHANGED <<mem_addr, status, current_cmd, op_complete, thread_running, worker, job,
                 buf, memory, image, irq, close_pc, accepted, failed>>

SetMem(m) ==
  /\ Running
  /\ mem_addr' = m
  /\ UNCHANGED <<lba, status, current_cmd, op_complete, thread_running, worker, job,
                 buf, memory, image, irq, close_pc, accepted, failed>>

\* Fault: the condition variable is not signalled.
SignalForgotten == UNCHANGED worker

\* pthread_cond_signal
Signal == worker' = IF worker = "waiting" THEN "check" ELSE worker

\* Fault: a busy disk takes the next command.
CmdBusy(value) ==
  /\ Running
  /\ current_cmd' = value /\ status' = BUSY /\ op_complete' = 0
  /\ Signal
  /\ accepted' = Job(value, lba, mem_addr) /\ failed' = 0
  /\ UNCHANGED <<regs, thread_running, job, buf, memory, image, irq, close_pc>>

\* disk_cmd: a command for a busy disk is ignored
Cmd(value) ==
  /\ Running
  /\ IF status = BUSY
       THEN UNCHANGED <<status, current_cmd, op_complete, worker, accepted, failed>>
       ELSE /\ current_cmd' = value
            /\ status' = BUSY
            /\ op_complete' = 0
            /\ Signal
            /\ accepted' = Job(value, lba, mem_addr)
            /\ failed' = 0
  /\ UNCHANGED <<regs, thread_running, job, buf, memory, image, irq, close_pc>>

\* disk_tick, by core 0 after an instruction
Tick ==
  /\ Running
  /\ status = BUSY /\ op_complete = 1
  /\ status' = FREE
  /\ op_complete' = 0
  /\ irq' = 1
  /\ UNCHANGED <<regs, current_cmd, thread_running, worker, job, buf, memory, image,
                 close_pc, accepted, failed>>

----------------------------------------------------------------------------
(* disk_worker. *)

\* The wait loop with disk.mutex held; a waiter may wake without a signal.
Check ==
  /\ worker = "check"
  /\ IF thread_running = 0
       THEN worker' = "exit" /\ UNCHANGED job
       ELSE IF current_cmd = NONE
         THEN worker' = "waiting" /\ UNCHANGED job
         ELSE worker' = "transfer" /\ job' = Job(current_cmd, lba, mem_addr)
  /\ UNCHANGED <<regs, status, current_cmd, op_complete, thread_running, buf, memory,
                 image, irq, close_pc, accepted, failed>>

SpuriousWake ==
  /\ worker = "waiting"
  /\ worker' = "check"
  /\ UNCHANGED <<regs, status, current_cmd, op_complete, thread_running, job, buf, memory,
                 image, irq, close_pc, accepted, failed>>

\* A bad address, no memory for the buffer, or an unknown command: no transfer
GiveUp ==
  /\ worker = "transfer"
  /\ worker' = "finish"
  /\ failed' = 1
  /\ UNCHANGED <<regs, status, current_cmd, op_complete, thread_running, job, buf, memory,
                 image, irq, close_pc, accepted>>

\* fread or the copy from memory into the buffer.  What is past the end of
\* the file leaves the buffer as malloc returned it.
Fill ==
  /\ worker = "transfer" /\ job.mem \in Valid
  /\ \/ job.cmd = READ /\ IF job.lba \in Image THEN buf' = image[job.lba] ELSE buf' \in Data
     \/ job.cmd = WRITE /\ buf' = memory[job.mem]
  /\ worker' = "drain"
  /\ failed' = IF job.cmd = READ /\ job.lba \notin Image THEN 1 ELSE failed
  /\ UNCHANGED <<regs, status, current_cmd, op_complete, thread_running, job, memory,
                 image, irq, close_pc, accepted>>

\* The copy into memory, or fwrite; a write past the end extends the file,
\* which the fixed set of sectors of the model leaves out.
Drain ==
  /\ worker = "drain"
  /\ IF job.cmd = READ
       THEN memory' = [memory EXCEPT ![job.mem] = buf] /\ UNCHANGED image
       ELSE /\ image' = [l \in Image |-> IF l = job.lba THEN buf ELSE image[l]]
            /\ UNCHANGED memory
  /\ worker' = "finish"
  /\ UNCHANGED <<regs, status, current_cmd, op_complete, thread_running, job, buf, irq,
                 close_pc, accepted, failed>>

Finish ==
  /\ worker = "finish"
  /\ current_cmd' = NONE
  /\ op_complete' = 1
  /\ worker' = "check"
  /\ job' = NoJob
  /\ UNCHANGED <<regs, status, thread_running, buf, memory, image, irq, close_pc,
                 accepted, failed>>

Worker == Check \/ GiveUp \/ Fill \/ Drain \/ Finish

----------------------------------------------------------------------------
(* disk_close, once the threads of the cores have ended. *)

\* Fault: the worker is woken but not told to end.
CloseRunning ==
  /\ close_pc = "open"
  /\ close_pc' = "join"
  /\ Signal
  /\ UNCHANGED <<regs, status, current_cmd, op_complete, thread_running, job, buf, memory,
                 image, irq, accepted, failed>>

Close ==
  /\ close_pc = "open"
  /\ close_pc' = "join"
  /\ thread_running' = 0
  /\ Signal
  /\ UNCHANGED <<regs, status, current_cmd, op_complete, job, buf, memory, image, irq,
                 accepted, failed>>

Join ==
  /\ close_pc = "join" /\ worker = "exit"
  /\ close_pc' = "closed"
  /\ UNCHANGED <<regs, status, current_cmd, op_complete, thread_running, worker, job, buf,
                 memory, image, irq, accepted, failed>>

----------------------------------------------------------------------------
\* The program takes the interrupt.
Deliver ==
  /\ Running /\ irq = 1
  /\ irq' = 0
  /\ UNCHANGED <<regs, status, current_cmd, op_complete, thread_running, worker, job, buf,
                 memory, image, close_pc, accepted, failed>>

Closed == close_pc = "closed" /\ UNCHANGED vars

\* Any program: registers and commands are written at any time.
Program ==
  \/ \E l \in Lbas : SetLba(l)
  \/ \E m \in Addrs : SetMem(m)
  \/ \E c \in Commands : Cmd(c)
  \/ Deliver

Device == Tick \/ Worker \/ SpuriousWake \/ Close \/ Join \/ Closed

Next == Program \/ Device

Spec == Init /\ [][Next]_vars

----------------------------------------------------------------------------
(* Correctness. *)

JobType == [cmd : Commands \cup {NONE}, lba : Lbas \cup {0}, mem : Addrs \cup {0}]

\* The device's state stays within its types.
TypeOK ==
  /\ lba \in Lbas \cup {0} /\ mem_addr \in Addrs \cup {0}
  /\ status \in {FREE, BUSY}
  /\ current_cmd \in Commands \cup {NONE}
  /\ op_complete \in {0, 1} /\ thread_running \in {0, 1} /\ irq \in {0, 1} /\ failed \in {0, 1}
  /\ worker \in {"check", "waiting", "transfer", "drain", "finish", "exit"}
  /\ job \in JobType /\ accepted \in JobType
  /\ buf \in Data \cup {0}
  /\ memory \in [Valid -> Data] /\ image \in [Image -> Data]
  /\ close_pc \in {"open", "join", "closed"}

\* The worker never waits while there is a command for it or it is to end:
\* the command is stored before the signal, with disk.mutex held.
NoMissedSignal ==
  worker = "waiting" => current_cmd = NONE /\ thread_running = 1

\* An accepted command stays in current_cmd until the worker has finished it:
\* the end of one operation never erases the next one, since the disk is free
\* again only after core 0 has seen that end.
CommandNotErased ==
  /\ status = BUSY /\ op_complete = 0 => current_cmd = accepted.cmd
  /\ worker \in {"transfer", "drain", "finish"} => status = BUSY /\ op_complete = 0 /\ job.cmd = accepted.cmd

\* A command that asks for something ends: with an interrupt, or at shutdown.
CommandEnds ==
  (status = BUSY /\ accepted.cmd # NONE) ~> (status = FREE \/ close_pc # "open")

\* disk_close returns: the worker sees thread_running and ends.
CloseEnds == close_pc = "join" ~> close_pc = "closed"

\* Nobody waits for the worker of the disk for ever, neither the guest for its
\* command nor disk_close for the thread.
DiskEnds == CommandEnds /\ CloseEnds
=============================================================================
