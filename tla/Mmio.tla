-------------------------------- MODULE Mmio --------------------------------
(***************************************************************************)
(* Loads, stores and atomics of the cores (memory.c) and the lookup of the *)
(* device that an address belongs to (find_mmio in mmio.h), which remembers *)
(* the last device and its range in three variables of the machine.  Every *)
(* core loads and stores them without a lock; each access is one step here *)
(* and takes effect in program order.  A panic ends the process.           *)
(* Only 32-bit loads and stores and the atomics look a device up.  Loads    *)
(* and stores of bytes know the frame buffer and nothing else, a 64-bit    *)
(* store only memory; a 64-bit load is two 32-bit ones.                    *)
(***************************************************************************)
EXTENDS Integers

CONSTANTS
  Cores,        \* 0 is the one that runs from the start
  Devices,      \* the devices, by name
  RangeOf,      \* RangeOf[d]: <<start, end>> of device d
  Screen,       \* the frame buffer's: their reads and writes take no lock
  RamSize,      \* memory_size
  MmioAddrs     \* addresses that are accessed

NoDev == "none"

VARIABLES
  started,              \* cores that run
  cache_dev, cache_range,  \* mmio_cache_dev; mmio_cache_start and _end
  shared_lock,          \* the core that holds the machine's lock, or -1
  access,               \* access[c]: what core c accesses: [op, addr]
  at_step,              \* access[c]'s next step
  cached,               \* the local variable of find_mmio
  found,                \* its result
  outcome               \* what served the last access of c

mmio == <<started, cache_dev, cache_range, shared_lock, access, at_step, cached,
          found, outcome>>

Within(a, d) == RangeOf[d][1] <= a /\ a <= RangeOf[d][2]
Owner(a) == IF \E d \in Devices : Within(a, d)
              THEN CHOOSE d \in Devices : Within(a, d) ELSE NoDev

\* The ranges that vm_create registers do not overlap.
ASSUME MmioAssumption ==
  /\ 0 \in Cores
  /\ Devices \cap {NoDev, "ram", "panic"} = {}
  /\ Screen \subseteq Devices /\ RamSize \in Int
  /\ RangeOf \in [Devices -> Int \X Int] /\ MmioAddrs \subseteq Int /\ MmioAddrs # {}
  /\ \A d, e \in Devices, a \in MmioAddrs : Within(a, d) /\ Within(a, e) => d = e

Words == {"read", "write", "atomic"}
Accesses == [op : Words \cup {"byte", "write64"}, addr : MmioAddrs]

MmioInit ==
  /\ started = {0}
  /\ cache_dev = NoDev /\ cache_range = <<0, 0>>
  /\ shared_lock = -1
  /\ access \in [Cores -> {CHOOSE x \in Accesses : TRUE}]
  /\ at_step = [c \in Cores |-> "idle"]
  /\ cached = [c \in Cores |-> NoDev]
  /\ found = [c \in Cores |-> NoDev]
  /\ outcome = [c \in Cores |-> "none"]

Panicked == \E c \in Cores : outcome[c] = "panic"
At(c, l) == at_step[c] = l /\ ~Panicked
Go(c, l) == at_step' = [at_step EXCEPT ![c] = l]

----------------------------------------------------------------------------
(* find_mmio. *)

Begin(c, x) ==
  /\ c \in started /\ At(c, "idle") /\ x.op \in Words
  /\ access' = [access EXCEPT ![c] = x]
  /\ outcome' = [outcome EXCEPT ![c] = "none"]
  /\ Go(c, "cached")
  /\ UNCHANGED <<started, cache_dev, cache_range, shared_lock, cached, found>>

\* The lookup is the first of the access, or the one under the lock
Found(c, d) ==
  /\ found' = [found EXCEPT ![c] = d]
  /\ cached' = [cached EXCEPT ![c] = NoDev]
  /\ Go(c, IF found[c] = NoDev THEN "found" ELSE "serve")

LoadCached(c) ==
  /\ At(c, "cached")
  /\ cached' = [cached EXCEPT ![c] = cache_dev]
  /\ Go(c, IF cache_dev = NoDev THEN "scan" ELSE "low")
  /\ UNCHANGED <<started, cache_dev, cache_range, shared_lock, access, found, outcome>>

CompareStart(c) ==
  /\ At(c, "low")
  /\ Go(c, IF access[c].addr >= cache_range[1] THEN "high" ELSE "scan")
  /\ UNCHANGED <<started, cache_dev, cache_range, shared_lock, access, cached, found, outcome>>

\* Fault: an address outside the remembered range is taken for memory.
CompareEndOnly(c) ==
  /\ At(c, "high")
  /\ Found(c, IF access[c].addr <= cache_range[2] THEN cached[c] ELSE NoDev)
  /\ UNCHANGED <<started, cache_dev, cache_range, shared_lock, access, outcome>>

CompareEnd(c) ==
  /\ At(c, "high")
  /\ IF access[c].addr <= cache_range[2]
       THEN Found(c, cached[c])
       ELSE Go(c, "scan") /\ UNCHANGED <<cached, found>>
  /\ UNCHANGED <<started, cache_dev, cache_range, shared_lock, access, outcome>>

\* The devices do not change: going through them is one step
Scan(c) ==
  /\ At(c, "scan")
  /\ cached' = [cached EXCEPT ![c] = Owner(access[c].addr)]
  /\ Go(c, IF Owner(access[c].addr) = NoDev THEN "forget" ELSE "store_dev")
  /\ UNCHANGED <<started, cache_dev, cache_range, shared_lock, access, found, outcome>>

StoreDev(c) ==
  /\ At(c, "store_dev")
  /\ cache_dev' = cached[c]
  /\ Go(c, "store_start")
  /\ UNCHANGED <<started, cache_range, shared_lock, access, cached, found, outcome>>

\* Fault: the start of the range is left as it was.
StoreStartNot(c) ==
  /\ At(c, "store_start")
  /\ Go(c, "store_end")
  /\ UNCHANGED <<started, cache_dev, cache_range, shared_lock, access, cached, found, outcome>>

StoreStart(c) ==
  /\ At(c, "store_start")
  /\ cache_range' = [cache_range EXCEPT ![1] = RangeOf[cached[c]][1]]
  /\ Go(c, "store_end")
  /\ UNCHANGED <<started, cache_dev, shared_lock, access, cached, found, outcome>>

StoreEnd(c) ==
  /\ At(c, "store_end")
  /\ cache_range' = [cache_range EXCEPT ![2] = RangeOf[cached[c]][2]]
  /\ Found(c, cached[c])
  /\ UNCHANGED <<started, cache_dev, shared_lock, access, outcome>>

Forget(c) ==
  /\ At(c, "forget")
  /\ cache_dev' = NoDev
  /\ Found(c, NoDev)
  /\ UNCHANGED <<started, cache_range, shared_lock, access, outcome>>

FindMmio(c) ==
  \/ LoadCached(c) \/ CompareStart(c) \/ CompareEnd(c) \/ Scan(c)
  \/ StoreDev(c) \/ StoreStart(c) \/ StoreEnd(c) \/ Forget(c)

----------------------------------------------------------------------------
(* vm_read32, vm_write32 and the atomics; vm_read8, vm_write8 and vm_write64. *)

\* fb_byte_index; in_ram
OnScreen(a) == \E d \in Screen : Within(a, d)
InRam(a) == IF a < RamSize THEN "ram" ELSE "panic"

\* A byte, or a 64-bit store: no device is looked up
Direct(c, x) ==
  /\ c \in started /\ At(c, "idle") /\ x.op \notin Words
  /\ access' = [access EXCEPT ![c] = x]
  /\ outcome' = [outcome EXCEPT ![c] =
       IF x.op = "byte" /\ OnScreen(x.addr) THEN Owner(x.addr) ELSE InRam(x.addr)]
  /\ UNCHANGED <<started, cache_dev, cache_range, shared_lock, at_step, cached, found>>

End(c, what) ==
  /\ outcome' = [outcome EXCEPT ![c] = what]
  /\ found' = [found EXCEPT ![c] = NoDev]
  /\ Go(c, "idle")

\* No device: memory.  A device: an atomic panics, the screen takes no lock; all
\* devices have a write32
Found1(c) ==
  /\ At(c, "found")
  /\ \/ found[c] = NoDev /\ End(c, InRam(access[c].addr)) /\ UNCHANGED shared_lock
     \/ /\ found[c] # NoDev /\ access[c].op = "atomic"
        /\ End(c, "panic") /\ UNCHANGED shared_lock
     \/ /\ found[c] # NoDev /\ access[c].op # "atomic"
        /\ IF OnScreen(access[c].addr)
             THEN UNCHANGED shared_lock
             ELSE shared_lock = -1 /\ shared_lock' = c
        /\ Go(c, IF access[c].op = "read" THEN "cached" ELSE "serve")
        /\ UNCHANGED <<found, outcome>>
  /\ UNCHANGED <<started, cache_dev, cache_range, access, cached>>

\* The handler of the device found, and the unlock
Serve(c) ==
  /\ At(c, "serve")
  /\ End(c, IF found[c] = NoDev THEN "panic" ELSE found[c])
  /\ shared_lock' = IF shared_lock = c THEN -1 ELSE shared_lock
  /\ UNCHANGED <<started, cache_dev, cache_range, access, cached>>

\* STARTAP
StartAp(c) ==
  /\ c \notin started /\ ~Panicked
  /\ started' = started \cup {c}
  /\ UNCHANGED <<cache_dev, cache_range, shared_lock, access, at_step, cached, found, outcome>>

\* panic() has ended the process
Exited == Panicked /\ UNCHANGED mmio

MmioNext ==
  \/ \E c \in Cores, x \in Accesses : Begin(c, x) \/ Direct(c, x)
  \/ \E c \in Cores : FindMmio(c) \/ Found1(c) \/ Serve(c) \/ StartAp(c)
  \/ Exited

MmioSpec == MmioInit /\ [][MmioNext]_mmio

----------------------------------------------------------------------------
(* Correctness. *)

\* No 32-bit access to a device ends in RAM, in whatever way the cores
\* overwrite each other's entry of the cache: a register is not missed, and an
\* atomic on one always panics.  (A byte of a register, or 64 bits stored over
\* one, are in RAM: vm_read8, vm_write8 and vm_write64 do not look.)
DeviceNotMissed ==
  \A c \in Cores :
    outcome[c] = "ram" /\ access[c].op \in Words => Owner(access[c].addr) = NoDev

\* While only the first core runs, a 32-bit access reaches the device that its
\* address belongs to, or RAM if it belongs to none and is within it; all else
\* panics.
ExactAlone ==
  started = {0} /\ outcome[0] # "none" /\ access[0].op \in Words =>
    outcome[0] = IF Owner(access[0].addr) = NoDev THEN InRam(access[0].addr)
                 ELSE IF access[0].op = "atomic" THEN "panic"
                 ELSE Owner(access[0].addr)
=============================================================================
