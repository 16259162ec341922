------------------------------ MODULE BiosDisk ------------------------------
(***************************************************************************)
(* The BIOS loads the kernel (bios/bios.c) from the disk device: it reads   *)
(* the ELF headers, validates them, reads the whole file into the same      *)
(* buffer and jumps to the entry.  disk_read_sectors waits for disk_done,   *)
(* which the handler of INT_DISK_COMPLETE sets.  The kernel that it enters    *)
(* is any program: it writes registers and commands at any time.            *)
(***************************************************************************)
EXTENDS Disk

CONSTANTS
  Buf,           \* KERNEL_ELF_BUF
  ElfHeaders     \* contents that elf_validate and the size test accept

\* The two transfers: the headers, then the file
Headers == 1
File == 2

ASSUME BiosAssumption ==
  /\ {Headers, File} \subseteq Lbas
  /\ Buf \in Addrs
  /\ READ \in Commands
  /\ ElfHeaders \subseteq Data

VARIABLES
  bios_pc,       \* where the BIOS is
  request,       \* the transfer it is at
  disk_done      \* the flag that the handler sets

biosVars == <<bios_pc, request, disk_done>>
allVars == <<vars, biosVars>>

Bios == Running /\ bios_pc \notin {"kernel", "halted"}

----------------------------------------------------------------------------
BiosInit ==
  /\ Init
  /\ bios_pc = "clear" /\ request = Headers /\ disk_done = 0

\* disk_read_sectors
ClearDone ==
  /\ Bios /\ bios_pc = "clear"
  /\ disk_done' = 0
  /\ bios_pc' = "mem"
  /\ UNCHANGED <<vars, request>>

OutMem ==
  /\ Bios /\ bios_pc = "mem"
  /\ SetMem(Buf)
  /\ bios_pc' = "count"
  /\ UNCHANGED <<request, disk_done>>

\* Fault: the count of the first transfer is kept.
OutCountHeaders ==
  /\ Bios /\ bios_pc = "count"
  /\ SetLba(Headers)
  /\ bios_pc' = "cmd"
  /\ UNCHANGED <<request, disk_done>>

\* DISK_LBA is KERNEL_LBA in both; DISK_COUNT tells them apart
OutCount ==
  /\ Bios /\ bios_pc = "count"
  /\ SetLba(request)
  /\ bios_pc' = "cmd"
  /\ UNCHANGED <<request, disk_done>>

OutCmd ==
  /\ Bios /\ bios_pc = "cmd"
  /\ Cmd(READ)
  /\ bios_pc' = "wait"
  /\ UNCHANGED <<request, disk_done>>

SeeDone ==
  /\ Bios /\ bios_pc = "wait" /\ disk_done = 1
  /\ bios_pc' = "use"
  /\ UNCHANGED <<vars, request, disk_done>>

\* Fault: the handler only returns.
IsrReturns ==
  /\ Bios
  /\ Deliver
  /\ UNCHANGED biosVars

\* isr_disk_complete
IsrDiskComplete ==
  /\ Bios
  /\ Deliver
  /\ disk_done' = 1
  /\ UNCHANGED <<bios_pc, request>>

\* elf_validate and elf_file_size, on what the first transfer left
Validate ==
  /\ Bios /\ bios_pc = "use" /\ request = Headers
  /\ IF memory[Buf] \in ElfHeaders
       THEN request' = File /\ bios_pc' = "clear"
       ELSE bios_pc' = "halted" /\ UNCHANGED request
  /\ UNCHANGED <<vars, disk_done>>

\* The segments are copied to where they run, and the kernel entered
LoadAndJump ==
  /\ Bios /\ bios_pc = "use" /\ request = File
  /\ bios_pc' = "kernel"
  /\ UNCHANGED <<vars, request, disk_done>>

BiosStep == ClearDone \/ OutMem \/ OutCount \/ OutCmd \/ SeeDone \/ Validate \/ LoadAndJump

\* What runs once the BIOS has entered the kernel
Kernel == bios_pc = "kernel" /\ Program /\ UNCHANGED biosVars

BiosNext == BiosStep \/ IsrDiskComplete \/ Kernel \/ (Device /\ UNCHANGED biosVars)

\* Core 0 executes the BIOS and takes its interrupt, core 0 polls the disk after
\* each instruction, the worker thread runs, and vm_destroy goes on.
BiosSpec ==
  /\ BiosInit /\ [][BiosNext]_allVars
  /\ WF_allVars(BiosStep) /\ WF_allVars(IsrDiskComplete)
  /\ WF_allVars(Tick /\ UNCHANGED biosVars) /\ WF_allVars(Worker /\ UNCHANGED biosVars)
  /\ WF_allVars(Join /\ UNCHANGED biosVars)

----------------------------------------------------------------------------
(* Correctness. *)

\* When disk_read_sectors returns, the buffer holds what the image file has
\* for this request, unless the device gave up: never what was there before,
\* and never the previous request's data.
BufferIsImage ==
  bios_pc = "use" /\ failed = 0 => memory[Buf] = image[request]

\* disk_done is set by the end of the current transfer: nothing of an earlier
\* transfer (an interrupt, a busy worker) is left when the BIOS goes on, so
\* the next one starts on a free disk and its command is not ignored.
DoneMeansIdle ==
  /\ Bios /\ disk_done = 1 => status = FREE /\ irq = 0 /\ current_cmd = NONE
  /\ Bios /\ bios_pc = "cmd" => status = FREE

\* Each read of the BIOS waits for its own transfer and gets its own data.
ReadsItsOwn == BufferIsImage /\ DoneMeansIdle

\* The BIOS enters the kernel or halts, unless the VM is shut down first.
BootEnds == <>(bios_pc \in {"kernel", "halted"} \/ close_pc # "open")
=============================================================================
