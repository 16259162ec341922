----------------------------- MODULE CpuProofs -----------------------------
(***************************************************************************)
(* The cores and what they share.  That find_mmio misses no register on    *)
(* any number of cores and is exact on one; what the conditional jumps     *)
(* decide and the stacks hold, for words of any width, any number of       *)
(* registers and any sizes of the stacks; and that the timer keeps its     *)
(* distance, and stays on, whatever the guest stores into its register.    *)
(***************************************************************************)
EXTENDS Cpu, Mmio, Timer, TLAPS

\* What a leaf that names no prover is tried with, and for how many seconds.
USE ZenonT(3), SMTT(30)

----------------------------------------------------------------------------
(* The lookup of a device. *)

Looking == {"cached", "low", "high", "scan", "store_dev", "store_start", "store_end", "forget"}

MmioType ==
  /\ 0 \in started /\ started \subseteq Cores
  /\ cache_dev \in Devices \cup {NoDev} /\ cache_range \in Int \X Int
  /\ access \in [Cores -> Accesses]
  /\ at_step \in [Cores -> Looking \cup {"idle", "found", "serve"}]
  /\ cached \in [Cores -> Devices \cup {NoDev}]
  /\ found \in [Cores -> Devices \cup {NoDev}]
  /\ outcome \in [Cores -> Devices \cup {"none", "ram", "panic"}]

\* A core that has not been started does nothing; a lookup returns no device
\* only from the end of the scan.
LookInv ==
  \A c \in Cores :
    /\ c \notin started => at_step[c] = "idle" /\ outcome[c] = "none"
    /\ at_step[c] \in {"low", "high", "store_dev", "store_start", "store_end"} => cached[c] # NoDev
    /\ at_step[c] = "forget" => Owner(access[c].addr) = NoDev
    /\ at_step[c] = "found" /\ found[c] = NoDev => Owner(access[c].addr) = NoDev
    /\ outcome[c] = "ram" /\ access[c].op \in Words => Owner(access[c].addr) = NoDev

LookupInv == MmioType /\ LookInv

\* "ram" and "panic" are no devices, and no device is the absence of one.
LEMMA NoDevIsNot == NoDev # "ram" /\ \A d \in Devices : d # NoDev /\ d # "ram" /\ d # "panic"
  BY MmioAssumption DEF NoDev

\* An address belongs to a device whose range holds it, and to no other.
LEMMA OwnerFacts ==
  ASSUME NEW a \in MmioAddrs
  PROVE  /\ Owner(a) \in Devices \cup {NoDev}
         /\ Owner(a) # NoDev => Within(a, Owner(a))
         /\ \A d \in Devices : Within(a, d) => Owner(a) = d
<1>1. CASE \E d \in Devices : Within(a, d)
  <2>1. Owner(a) = CHOOSE d \in Devices : Within(a, d)
    BY <1>1 DEF Owner
  <2>2. Owner(a) \in Devices /\ Within(a, Owner(a))
    BY <1>1, <2>1
  <2> QED
    BY <2>2, MmioAssumption
<1>2. CASE ~\E d \in Devices : Within(a, d)
  BY <1>2 DEF Owner
<1> QED
  BY <1>1, <1>2

\* Before the first access the cache is empty and nothing has been served.
LEMMA LookupInit == MmioInit => LookupInv
<1> SUFFICES ASSUME MmioInit PROVE LookupInv
  OBVIOUS
<1>1. \E x \in Accesses : TRUE
  <2>1. PICK a \in MmioAddrs : TRUE
    BY MmioAssumption, Zenon
  <2>2. [op |-> "read", addr |-> a] \in Accesses
    BY DEF Accesses, Words
  <2> QED
    BY <2>2
<1>2. (CHOOSE x \in Accesses : TRUE) \in Accesses
  BY <1>1
<1> QED
  BY <1>2, MmioAssumption DEF MmioInit, LookupInv, MmioType, LookInv, Looking, NoDev

\* The types are kept by every step.
LEMMA MmioTypeStep == LookupInv /\ MmioNext => MmioType'
<1> SUFFICES ASSUME LookupInv, MmioNext PROVE MmioType'
  OBVIOUS
<1> USE DEF LookupInv, MmioType, Looking
<1>1. ASSUME NEW c \in Cores, NEW x \in Accesses, Begin(c, x) PROVE MmioType'
  BY <1>1 DEF Begin, Go
<1>0. ASSUME NEW c \in Cores, NEW x \in Accesses, Direct(c, x) PROVE MmioType'
  <2>1. x.addr \in MmioAddrs
    BY DEF Accesses
  <2>2. CASE x.op = "byte" /\ OnScreen(x.addr)
    <3>1. Owner(x.addr) \in Devices
      BY <2>1, <2>2, OwnerFacts, MmioAssumption DEF OnScreen
    <3>2. outcome' = [outcome EXCEPT ![c] = Owner(x.addr)]
      BY <1>0, <2>2 DEF Direct
    <3> QED
      BY <1>0, <3>1, <3>2 DEF Direct
  <2>3. CASE ~(x.op = "byte" /\ OnScreen(x.addr))
    <3>1. outcome' = [outcome EXCEPT ![c] = InRam(x.addr)]
      BY <1>0, <2>3 DEF Direct
    <3> QED
      BY <1>0, <3>1 DEF Direct, InRam
  <2> QED
    BY <2>2, <2>3
<1>2. ASSUME NEW c \in Cores, LoadCached(c) PROVE MmioType'
  BY <1>2 DEF LoadCached, Go
<1>3. ASSUME NEW c \in Cores, CompareStart(c) PROVE MmioType'
  BY <1>3 DEF CompareStart, Go
<1>4. ASSUME NEW c \in Cores, NEW d \in Devices \cup {NoDev}, Found(c, d)
      PROVE  /\ found' \in [Cores -> Devices \cup {NoDev}]
             /\ cached' \in [Cores -> Devices \cup {NoDev}]
             /\ at_step' \in [Cores -> Looking \cup {"idle", "found", "serve"}]
  BY <1>4 DEF Found, Go
<1>5. ASSUME NEW c \in Cores, CompareEnd(c) PROVE MmioType'
  <2>1. cached[c] \in Devices \cup {NoDev}
    OBVIOUS
  <2>2. CASE Found(c, cached[c])
    BY <1>4, <1>5, <2>1, <2>2 DEF CompareEnd
  <2>3. CASE Go(c, "scan") /\ UNCHANGED <<cached, found>>
    BY <1>5, <2>3 DEF CompareEnd, Go
  <2> QED
    BY <1>5, <2>2, <2>3 DEF CompareEnd
<1>6. ASSUME NEW c \in Cores, Scan(c) PROVE MmioType'
  <2>1. access[c].addr \in MmioAddrs
    BY DEF Accesses
  <2>2. Owner(access[c].addr) \in Devices \cup {NoDev}
    BY <2>1, OwnerFacts
  <2> QED
    BY <1>6, <2>2 DEF Scan, Go
<1>7. ASSUME NEW c \in Cores, StoreDev(c) PROVE MmioType'
  BY <1>7 DEF StoreDev, Go
<1>8. ASSUME NEW c \in Cores, StoreStart(c) PROVE MmioType'
  <2>1. cached[c] \in Devices
    BY <1>8 DEF StoreStart, At, LookInv
  <2>2. cache_range' \in Int \X Int
    BY <1>8, <2>1, MmioAssumption DEF StoreStart
  <2> QED
    BY <1>8, <2>2 DEF StoreStart, Go
<1>9. ASSUME NEW c \in Cores, StoreEnd(c) PROVE MmioType'
  <2>1. cached[c] \in Devices
    BY <1>9 DEF StoreEnd, At, LookInv
  <2>2. cache_range' \in Int \X Int
    BY <1>9, <2>1, MmioAssumption DEF StoreEnd
  <2> QED
    BY <1>4, <1>9, <2>1, <2>2 DEF StoreEnd
<1>10. ASSUME NEW c \in Cores, Forget(c) PROVE MmioType'
  BY <1>4, <1>10 DEF Forget
<1>11. ASSUME NEW c \in Cores, Found1(c) PROVE MmioType'
  BY <1>11 DEF Found1, End, Go, InRam
<1>12. ASSUME NEW c \in Cores, Serve(c) PROVE MmioType'
  BY <1>12 DEF Serve, End, Go
<1>13. ASSUME NEW c \in Cores, StartAp(c) PROVE MmioType'
  BY <1>13 DEF StartAp
<1>14. CASE Exited
  BY <1>14 DEF Exited, mmio
<1> QED
  BY <1>0, <1>1, <1>2, <1>3, <1>5, <1>6, <1>7, <1>8, <1>9, <1>10, <1>11, <1>12, <1>13, <1>14, Zenon
     DEF MmioNext, FindMmio

\* The part of LookInv about one core.
LookOf(c) ==
  /\ c \notin started => at_step[c] = "idle" /\ outcome[c] = "none"
  /\ at_step[c] \in {"low", "high", "store_dev", "store_start", "store_end"} => cached[c] # NoDev
  /\ at_step[c] = "forget" => Owner(access[c].addr) = NoDev
  /\ at_step[c] = "found" /\ found[c] = NoDev => Owner(access[c].addr) = NoDev
  /\ outcome[c] = "ram" /\ access[c].op \in Words => Owner(access[c].addr) = NoDev

\* A step of another core leaves what is known of a core alone, whatever it
\* does to the cache.
LEMMA OtherCore ==
  ASSUME NEW c \in Cores, NEW k \in Cores \ {c}, LookOf(k), started' = started,
         at_step'[k] = at_step[k], outcome'[k] = outcome[k], cached'[k] = cached[k],
         found'[k] = found[k], access'[k] = access[k]
  PROVE  LookOf(k)'
<1>1. Owner(access[k].addr)' = Owner(access[k].addr)
  BY DEF Owner, Within
<1> QED
  BY <1>1 DEF LookOf

\* No step makes a lookup return nothing for an address of a device.
LEMMA LookStep == LookupInv /\ MmioNext => LookInv'
<1> SUFFICES ASSUME LookupInv, MmioNext PROVE LookInv'
  OBVIOUS
<1>a. MmioType /\ \A k \in Cores : LookOf(k)
  BY DEF LookupInv, LookInv, LookOf
<1>b. (\A k \in Cores : LookOf(k)') => LookInv'
  BY DEF LookInv, LookOf
<1>c. ASSUME NEW c \in Cores,
             \/ \E x \in Accesses : Begin(c, x) \/ Direct(c, x)
             \/ FindMmio(c) \/ Found1(c) \/ Serve(c)
      PROVE  /\ started' = started
             /\ \A k \in Cores \ {c} :
                  /\ at_step'[k] = at_step[k] /\ outcome'[k] = outcome[k]
                  /\ cached'[k] = cached[k] /\ found'[k] = found[k]
                  /\ access'[k] = access[k]
  BY <1>a, <1>c DEF MmioType, Begin, Direct, FindMmio, LoadCached, CompareStart, CompareEnd, Scan,
     StoreDev, StoreStart, StoreEnd, Forget, Found, Found1, Serve, End, Go
<1>d. ASSUME NEW c \in Cores,
             \/ \E x \in Accesses : Begin(c, x) \/ Direct(c, x)
             \/ FindMmio(c) \/ Found1(c) \/ Serve(c)
      PROVE  LookOf(c)'
  <2> USE <1>a DEF LookOf, MmioType, At
  <2>0. access' = access => Owner(access[c].addr)' = Owner(access[c].addr)
    BY DEF Owner, Within
  <2>1. ASSUME NEW x \in Accesses, Begin(c, x) PROVE LookOf(c)'
    BY <2>1, NoDevIsNot DEF Begin, Go
  <2>12. ASSUME NEW x \in Accesses, Direct(c, x) PROVE LookOf(c)'
    BY <2>12 DEF Direct
  <2>2. CASE LoadCached(c)
    BY <2>2, <2>0 DEF LoadCached, Go
  <2>3. CASE CompareStart(c)
    BY <2>3, <2>0 DEF CompareStart, Go
  <2>4. CASE CompareEnd(c)
    BY <2>4, <2>0 DEF CompareEnd, Found, Go
  <2>5. CASE Scan(c)
    <3>1. access[c].addr \in MmioAddrs
      BY DEF Accesses
    <3>2. Owner(access[c].addr) \in Devices \cup {NoDev}
      BY <3>1, OwnerFacts
    <3> QED
      BY <2>5, <2>0, <3>2 DEF Scan, Go
  <2>6. CASE StoreDev(c)
    BY <2>6, <2>0 DEF StoreDev, Go
  <2>7. CASE StoreStart(c)
    BY <2>7, <2>0 DEF StoreStart, Go
  <2>8. CASE StoreEnd(c)
    BY <2>8, <2>0 DEF StoreEnd, Found, Go
  <2>9. CASE Forget(c)
    BY <2>9, <2>0 DEF Forget, Found, Go
  <2>10. CASE Found1(c)
    BY <2>10, <2>0 DEF Found1, End, Go
  <2>11. CASE Serve(c)
    BY <2>11, <2>0, NoDevIsNot DEF Serve, End, Go
  <2> QED
    BY <1>d, <2>1, <2>2, <2>3, <2>4, <2>5, <2>6, <2>7, <2>8, <2>9, <2>10, <2>11, <2>12,
       Zenon DEF FindMmio
<1>1. ASSUME NEW c \in Cores,
             \/ \E x \in Accesses : Begin(c, x) \/ Direct(c, x)
             \/ FindMmio(c) \/ Found1(c) \/ Serve(c)
      PROVE  LookInv'
  <2>1. ASSUME NEW k \in Cores \ {c} PROVE LookOf(k)'
    BY <1>1, <1>a, <1>c, OtherCore
  <2> QED
    BY <1>1, <1>b, <1>d, <2>1
<1>2. ASSUME NEW c \in Cores, StartAp(c) PROVE LookInv'
  BY <1>2, <1>a, <1>b DEF StartAp, LookOf, Owner, Within
<1>3. CASE Exited
  BY <1>3, <1>a, <1>b DEF Exited, mmio, LookOf, Owner, Within
<1> QED
  BY <1>1, <1>2, <1>3 DEF MmioNext

\* On any number of cores, no 32-bit access to a register is served from memory,
\* and no atomic on one returns: the compares of find_mmio can be torn by the
\* stores of other cores, but only towards a device.
THEOREM RegistersAreNotMissed == MmioSpec => []DeviceNotMissed
<1>1. LookupInv /\ [MmioNext]_mmio => LookupInv'
  <2>1. LookupInv /\ UNCHANGED mmio => LookupInv'
    BY DEF LookupInv, MmioType, LookInv, mmio, Owner, Within
  <2> QED
    BY <2>1, MmioTypeStep, LookStep DEF LookupInv
<1>2. LookupInv => DeviceNotMissed
  BY DEF LookupInv, LookInv, DeviceNotMissed
<1> QED
  BY <1>1, <1>2, LookupInit, PTL DEF MmioSpec
----------------------------------------------------------------------------
(* One core. *)

\* Between two lookups the remembered range is that of the remembered device,
\* and a lookup returns the device its address belongs to.
AloneInv ==
  started = {0} =>
    LET t == at_step[0]
        o == Owner(access[0].addr)
    IN  /\ cache_dev # NoDev /\ t \notin {"store_start", "store_end"} =>
             cache_range[1] = RangeOf[cache_dev][1] /\ cache_range[2] = RangeOf[cache_dev][2]
        /\ t = "store_end" => cache_range[1] = RangeOf[cache_dev][1]
        /\ t \in {"low", "high"} => cached[0] = cache_dev
        /\ t = "high" => access[0].addr >= cache_range[1]
        /\ t \in {"store_dev", "store_start", "store_end"} => cached[0] = o
        /\ t \in {"store_start", "store_end"} => cache_dev = cached[0]
        /\ t = "idle" => found[0] = NoDev
        /\ t = "found" => found[0] = o
        /\ t = "serve" => found[0] = o /\ o # NoDev /\ access[0].op # "atomic"
        /\ t \in Looking => found[0] \in {NoDev, o}
        /\ t \in Looking /\ found[0] # NoDev => access[0].op # "atomic"
        /\ outcome[0] # "none" => t = "idle"

CacheInv == LookupInv /\ AloneInv /\ ExactAlone

\* While core 0 runs alone its lookups keep the cache whole and its accesses
\* exact.
LEMMA AloneStep == CacheInv /\ MmioNext => (AloneInv /\ ExactAlone)'
<1> SUFFICES ASSUME CacheInv, MmioNext, started' = {0} PROVE (AloneInv /\ ExactAlone)'
  BY DEF AloneInv, ExactAlone
<1> DEFINE o == Owner(access[0].addr)
<1>t. MmioType /\ 0 \in Cores
  BY MmioAssumption DEF CacheInv, LookupInv
<1>a. access[0].addr \in MmioAddrs /\ access[0].addr \in Int
  BY <1>t, MmioAssumption, Zenon DEF MmioType, Accesses
<1>o. /\ o \in Devices \cup {NoDev}
      /\ \A d \in Devices : Within(access[0].addr, d) => o = d
  BY <1>a, OwnerFacts
<1>p. access' = access => Owner(access[0].addr)' = o
  BY DEF Owner, Within
<1> HIDE DEF o
<1>s. ASSUME NEW c \in Cores, StartAp(c) PROVE FALSE
  BY <1>s, <1>t DEF StartAp, MmioType
<1>e. CASE Exited
  BY <1>e, <1>p DEF Exited, mmio, CacheInv, AloneInv, ExactAlone, o
<1>c. ASSUME NEW c \in Cores,
             \/ \E x \in Accesses : Begin(c, x) \/ Direct(c, x)
             \/ FindMmio(c) \/ Found1(c) \/ Serve(c)
      PROVE  c = 0 /\ started = {0}
  <2>1. started' = started
    BY <1>c DEF Begin, Direct, FindMmio, LoadCached, CompareStart, CompareEnd, Scan,
       StoreDev, StoreStart, StoreEnd, Forget, Found1, Serve
  <2>2. c \in started \/ at_step[c] # "idle"
    BY <1>c DEF Begin, Direct, FindMmio, LoadCached, CompareStart, CompareEnd, Scan,
       StoreDev, StoreStart, StoreEnd, Forget, Found1, Serve, At
  <2> QED
    BY <2>1, <2>2 DEF CacheInv, LookupInv, LookInv
<1>d. ASSUME started = {0},
             \/ \E x \in Accesses : Begin(0, x) \/ Direct(0, x)
             \/ FindMmio(0) \/ Found1(0) \/ Serve(0)
      PROVE  (AloneInv /\ ExactAlone)'
  <2>r. cache_range \in Int \X Int
    BY <1>t DEF MmioType
  <2>d. /\ 0 \in DOMAIN access /\ 0 \in DOMAIN at_step /\ 0 \in DOMAIN cached
        /\ 0 \in DOMAIN found /\ 0 \in DOMAIN outcome
    BY <1>t DEF MmioType
  <2> USE <1>d, <2>d DEF At, Looking
  <2>a. AloneInv /\ ExactAlone /\ LookInv
    BY DEF CacheInv, LookupInv
  <2>1. ASSUME NEW x \in Accesses, Begin(0, x) PROVE (AloneInv /\ ExactAlone)'
    BY <2>1, <2>a DEF Begin, Go, AloneInv, ExactAlone
  <2>12. ASSUME NEW x \in Accesses, Direct(0, x) PROVE (AloneInv /\ ExactAlone)'
    BY <2>12, <2>a DEF Direct, AloneInv, ExactAlone
  <2>2. CASE LoadCached(0)
    BY <2>2, <2>a, <1>p DEF LoadCached, Go, AloneInv, ExactAlone, o
  <2>3. CASE CompareStart(0)
    BY <2>3, <2>a, <1>p DEF CompareStart, Go, AloneInv, ExactAlone, o
  <2>4. CASE CompareEnd(0)
    <3>1. cached[0] \in Devices /\ cached[0] = cache_dev
      BY <1>t, <2>4, <2>a DEF CompareEnd, LookInv, AloneInv, MmioType
    <3>2. CASE access[0].addr <= cache_range[2]
      <4>a. /\ cache_range[1] = RangeOf[cached[0]][1] /\ cache_range[2] = RangeOf[cached[0]][2]
            /\ access[0].addr >= cache_range[1]
        BY <2>4, <2>a, <3>1, NoDevIsNot, Zenon DEF CompareEnd, AloneInv
      <4>b. cache_range[1] \in Int
        BY <1>t DEF MmioType
      <4>1. Within(access[0].addr, cached[0])
        BY <4>a, <4>b, <1>a, <3>2 DEF Within
      <4>2. cached[0] = o
        BY <4>1, <3>1, <1>o
      <4> QED
        BY <2>4, <2>a, <1>p, <3>1, <3>2, <4>2, NoDevIsNot, Zenon
           DEF CompareEnd, Found, Go, AloneInv, ExactAlone, o
    <3>3. CASE ~(access[0].addr <= cache_range[2])
      BY <2>4, <2>a, <1>p, <3>3, Zenon DEF CompareEnd, Go, AloneInv, ExactAlone, o
    <3> QED
      BY <3>2, <3>3
  <2>5. CASE Scan(0)
    BY <2>5, <2>a, <1>p, <1>o DEF Scan, Go, AloneInv, ExactAlone, o
  <2>6. CASE StoreDev(0)
    BY <2>6, <2>a, <1>p DEF StoreDev, Go, AloneInv, ExactAlone, o
  <2>7. CASE StoreStart(0)
    BY <2>7, <2>a, <2>r, <1>p DEF StoreStart, Go, AloneInv, ExactAlone, o
  <2>8. CASE StoreEnd(0)
    <3>1. cached[0] = o /\ cache_dev = cached[0] /\ cached[0] # NoDev
      BY <1>t, <2>8, <2>a, Zenon DEF StoreEnd, AloneInv, LookInv, o
    <3>2. cache_range'[1] = RangeOf[cache_dev][1] /\ cache_range'[2] = RangeOf[cache_dev][2]
      BY <2>8, <2>a, <2>r, <3>1 DEF StoreEnd, AloneInv
    <3> QED
      BY <2>8, <2>a, <1>p, <3>1, <3>2 DEF StoreEnd, Found, Go, AloneInv, ExactAlone, o
  <2>9. CASE Forget(0)
    <3>1. o = NoDev
      BY <1>t, <2>9, <2>a, Zenon DEF Forget, LookInv, o
    <3> QED
      BY <2>9, <2>a, <1>p, <3>1 DEF Forget, Found, Go, AloneInv, ExactAlone, o
  <2>10. CASE Found1(0)
    <3>1. found[0] = o
      BY <2>10, <2>a, Zenon DEF Found1, AloneInv, o
    <3>2. UNCHANGED <<cache_dev, cache_range, access, cached>>
      BY <2>10, Zenon DEF Found1
    <3>3. CASE found[0] = NoDev
      <4>1. outcome'[0] = InRam(access[0].addr) /\ found'[0] = NoDev /\ at_step'[0] = "idle"
        BY <2>10, <3>3 DEF Found1, End, Go
      <4> QED
        BY <2>a, <1>p, <3>1, <3>2, <3>3, <4>1 DEF AloneInv, ExactAlone, o, InRam
    <3>4. CASE found[0] # NoDev /\ access[0].op = "atomic"
      <4>1. outcome'[0] = "panic" /\ found'[0] = NoDev /\ at_step'[0] = "idle"
        BY <2>10, <3>4 DEF Found1, End, Go
      <4> QED
        BY <2>a, <1>p, <3>1, <3>2, <3>4, <4>1 DEF AloneInv, ExactAlone, o
    <3>5. CASE found[0] # NoDev /\ access[0].op # "atomic"
      <4>1. UNCHANGED <<found, outcome>> /\ at_step'[0] \in {"cached", "serve"}
        BY <2>10, <3>5, Zenon DEF Found1, Go
      <4>2. outcome[0] = "none" /\ at_step[0] = "found"
        BY <2>10, <2>a DEF Found1, AloneInv
      <4> QED
        BY <2>a, <1>p, <3>1, <3>2, <3>5, <4>1, <4>2 DEF AloneInv, ExactAlone, o
    <3> QED
      BY <3>3, <3>4, <3>5
  <2>11. CASE Serve(0)
    BY <2>11, <2>a, <1>p DEF Serve, End, Go, AloneInv, ExactAlone, o
  <2> QED
    BY <2>1, <2>2, <2>3, <2>4, <2>5, <2>6, <2>7, <2>8, <2>9, <2>10, <2>11, <2>12
       DEF FindMmio
<1>n. ASSUME NEW c \in Cores,
             \/ \E x \in Accesses : Begin(c, x) \/ Direct(c, x)
             \/ FindMmio(c) \/ Found1(c) \/ Serve(c)
      PROVE  (AloneInv /\ ExactAlone)'
  BY <1>n, <1>c, <1>d
<1> QED
  BY <1>e, <1>s, <1>n DEF MmioNext

\* Until another core is started, every 32-bit access reaches the device whose
\* range holds its address, or memory if there is none, and an atomic on a device
\* panics: what find_mmio remembers is as good as a scan.
THEOREM OneCoreIsExact == MmioSpec => []ExactAlone
<1>1. MmioInit => CacheInv
  BY LookupInit, MmioAssumption DEF MmioInit, CacheInv, AloneInv, ExactAlone, Looking
<1>2. CacheInv /\ [MmioNext]_mmio => CacheInv'
  <2>1. CacheInv /\ UNCHANGED mmio => CacheInv'
    <3> SUFFICES ASSUME CacheInv, UNCHANGED mmio PROVE CacheInv'
      OBVIOUS
    <3>1. \A c \in Cores : Owner(access[c].addr)' = Owner(access[c].addr)
      BY DEF mmio, Owner, Within
    <3>2. 0 \in Cores
      BY MmioAssumption
    <3>3. LookupInv'
      BY <3>1 DEF CacheInv, LookupInv, MmioType, LookInv, mmio
    <3>4. AloneInv' /\ ExactAlone'
      BY <3>1, <3>2 DEF CacheInv, AloneInv, ExactAlone, mmio
    <3> QED
      BY <3>3, <3>4 DEF CacheInv
  <2> QED
    BY <2>1, MmioTypeStep, LookStep, AloneStep DEF CacheInv, LookupInv
<1>3. CacheInv => ExactAlone
  BY DEF CacheInv
<1> QED
  BY <1>1, <1>2, <1>3, PTL DEF MmioSpec

----------------------------------------------------------------------------
(* Arithmetic of words. *)

\* A number less than one modulus away from the words wraps around once.
LEMMA WordWrap ==
  ASSUME NEW n \in Int
  PROVE  /\ n % Modulus \in Word
         /\ n \in Word => n % Modulus = n
         /\ Modulus <= n /\ n < 2 * Modulus => n % Modulus = n - Modulus
         /\ -Modulus <= n /\ n < 0 => n % Modulus = n + Modulus
<1>0. Modulus \in Nat \ {0}
  BY HalfAssumption DEF Modulus
<1> HIDE DEF Modulus
<1>1. n % Modulus \in Word
  BY <1>0 DEF Word
<1>2. ASSUME n \in Word PROVE n % Modulus = n
  BY <1>0, <1>2 DEF Word
<1>3. ASSUME Modulus <= n, n < 2 * Modulus PROVE n % Modulus = n - Modulus
  BY <1>0, <1>3
<1>4. ASSUME -Modulus <= n, n < 0 PROVE n % Modulus = n + Modulus
  BY <1>0, <1>4
<1> QED
  BY <1>1, <1>2, <1>3, <1>4

\* 32-bit addition and subtraction.
LEMMA SumIs ==
  ASSUME NEW a \in Word, NEW b \in Word
  PROVE  Sum(a, b) = IF a + b < Modulus THEN a + b ELSE a + b - Modulus
<1>0. Modulus \in Nat \ {0}
  BY HalfAssumption DEF Modulus
<1>1. a \in Int /\ b \in Int /\ (a + b < Modulus => a + b \in Word)
  BY <1>0 DEF Word
<1>2. a + b >= Modulus => a + b < 2 * Modulus
  BY <1>0 DEF Word
<1>3. CASE a + b < Modulus
  BY <1>1, <1>3, WordWrap DEF Sum
<1>4. CASE a + b >= Modulus
  <2>1. (a + b) % Modulus = a + b - Modulus
    BY <1>0, <1>1, <1>2, <1>4, WordWrap
  <2> QED
    BY <1>0, <1>1, <1>4, <2>1 DEF Sum
<1> QED
  BY <1>0, <1>1, <1>3, <1>4

LEMMA DifferenceIs ==
  ASSUME NEW a \in Word, NEW b \in Word
  PROVE  Difference(a, b) = IF b <= a THEN a - b ELSE a - b + Modulus
<1>0. Modulus \in Nat \ {0}
  BY HalfAssumption DEF Modulus
<1>1. a - b \in Int /\ (b <= a => a - b \in Word)
  BY <1>0 DEF Word
<1>2. ~(b <= a) => -Modulus <= a - b /\ a - b < 0
  BY <1>0 DEF Word
<1>3. CASE b <= a
  BY <1>1, <1>3, WordWrap DEF Difference
<1>4. CASE ~(b <= a)
  BY <1>1, <1>2, <1>4, WordWrap DEF Difference
<1> QED
  BY <1>3, <1>4

\* The quotient and the remainder of two words are words.
LEMMA DivisionTypes ==
  ASSUME NEW a \in Word, NEW b \in Word \ {0}
  PROVE  a \div b \in Word /\ a % b \in Word
<1>0. Modulus \in Nat
  BY HalfAssumption DEF Modulus
<1>1. a \in Nat /\ b \in Nat \ {0}
  BY <1>0 DEF Word
<1>2. a \div b \in 0 .. a
  <2>1. a \div b \in Int /\ a % b \in 0 .. b - 1
    BY <1>1
  <2>2. a = b * (a \div b) + (a % b)
    BY <1>1
  <2>3. ASSUME NEW q \in Int, q < 0 PROVE b * q <= -b
    BY <1>1, <2>3
  <2>4. ASSUME NEW q \in Int, q > a PROVE b * q > a
    BY <1>1, <2>4
  <2> QED
    BY <1>1, <2>1, <2>2, <2>3, <2>4
<1>3. a % b \in 0 .. a
  BY <1>1
<1> QED
  BY <1>0, <1>1, <1>2, <1>3 DEF Word

\* So is every result of the instructions on bits.
LEMMA LogicTypes ==
  ASSUME NEW a \in Word, NEW b \in Word, NEW r \in LogicResults(a, b)
  PROVE  r \in Word
<1>1. a * b \in Int
  BY HalfAssumption DEF Word, Modulus
<1> QED
  BY <1>1, WordWrap DEF LogicResults

----------------------------------------------------------------------------
(* What one instruction lets the jumps decide. *)

\* CompareDecides and ResultDecides, for flags fl that were computed from m
ComparedBy(m, fl) ==
  /\ m.kind = "compare" =>
       /\ EqualityDecided(m.x, m.y, fl)
       /\ UnsignedDecided(m.x, m.y, fl)
       /\ InRange(m.x, m.y) => SignedDecided(m.x, m.y, fl)
  /\ m.kind = "fcmp" =>
       /\ Taken("JZ", fl) <=> m.order = "equal"
       /\ Taken("JG", fl) <=> m.order = "greater"
       /\ Taken("JL", fl) <=> m.order \in {"less", "unordered"}
ResultBy(m, fl) ==
  /\ m.kind = "result" =>
       EqualityDecided(m.r, 0, fl) /\ UnsignedDecided(m.r, 0, fl) /\ SignedDecided(m.r, 0, fl)
  /\ m.kind = "add" =>
       /\ Taken("JC", fl) <=> m.a + m.b \notin Word
       /\ Taken("JZ", fl) <=> m.a + m.b \in {0, Modulus}
  /\ m.kind = "load" => EqualityDecided(m.r, 0, fl)
  /\ m.kind = "cas" => (Taken("JZ", fl) <=> m.success)
DecidedBy(m, fl) == ComparedBy(m, fl) /\ ResultBy(m, fl)

\* The jumps, one by one.
LEMMA TakenIs ==
  ASSUME NEW fl
  PROVE  /\ Taken("JZ", fl) <=> "ZF" \in fl
         /\ Taken("JNZ", fl) <=> "ZF" \notin fl
         /\ Taken("JG", fl) <=> "ZF" \notin fl /\ "SF" \notin fl /\ "OF" \notin fl
         /\ Taken("JGE", fl) <=> "SF" \notin fl /\ "OF" \notin fl
         /\ Taken("JL", fl) <=> "SF" \in fl \/ "OF" \in fl
         /\ Taken("JLE", fl) <=> "ZF" \in fl \/ "SF" \in fl \/ "OF" \in fl
         /\ Taken("JC", fl) <=> "CF" \in fl
         /\ Taken("JNC", fl) <=> "CF" \notin fl
BY DEF Taken, SfEqualsOf

\* A word that is not negative as a number is its own signed value.
LEMMA SignedIs ==
  ASSUME NEW w \in Word
  PROVE  /\ Signed(w) \in -Half .. Half - 1
         /\ Signed(w) = w \/ Signed(w) = w - Modulus
         /\ Signed(w) < 0 <=> w >= Half
         /\ Signed(w) = 0 <=> w = 0
         /\ 0 \in Word /\ Signed(0) = 0
BY HalfAssumption DEF Signed, Word, Modulus

\* update_sub_flags after a comparison of two words
LEMMA SubDecides ==
  ASSUME NEW a \in Word, NEW b \in Word, NEW folded \in BOOLEAN
  PROVE  DecidedBy([kind |-> "compare", x |-> a, y |-> b],
                   SubFlags(a, b, Difference(a, b), folded))
<1> DEFINE r == Difference(a, b)
           fl == SubFlags(a, b, r, folded)
<1>0. Half \in Nat \ {0} /\ a \in 0 .. 2 * Half - 1 /\ b \in 0 .. 2 * Half - 1
  BY HalfAssumption DEF Word, Modulus
<1>1. r = IF b <= a THEN a - b ELSE a - b + 2 * Half
  BY DifferenceIs DEF Modulus
<1>2. /\ "ZF" \in fl <=> r = 0
      /\ "SF" \in fl <=> Signed(r) < 0
      /\ "CF" \in fl <=> a < b
      /\ "OF" \in fl => SubOverflows(a, b, r)
  BY DEF SubFlags, ZfSf
<1> HIDE DEF r, fl
<1>3. r = 0 <=> a = b
  BY <1>0, <1>1
<1>4. ASSUME InRange(a, b)
      PROVE  /\ Signed(r) = Signed(a) - Signed(b)
             /\ ~SubOverflows(a, b, r)
  <2>1. Signed(r) = Signed(a) - Signed(b)
    BY <1>0, <1>1, <1>4 DEF InRange, Signed, Modulus
  <2>2. Signed(a) \in Int /\ Signed(b) \in Int
    BY SignedIs, <1>0
  <2> QED
    BY <2>1, <2>2 DEF SubOverflows
<1>5. Signed(a) \in Int /\ Signed(b) \in Int /\ (Signed(a) = Signed(b) <=> a = b)
  BY <1>0 DEF Signed, Modulus
<1>6. EqualityDecided(a, b, fl) /\ UnsignedDecided(a, b, fl)
  BY <1>0, <1>2, <1>3, TakenIs DEF EqualityDecided, UnsignedDecided
<1>7. InRange(a, b) => SignedDecided(a, b, fl)
  BY <1>2, <1>3, <1>4, <1>5, TakenIs DEF SignedDecided
<1> QED
  BY <1>6, <1>7 DEF DecidedBy, ComparedBy, ResultBy, fl, r

\* update_add_flags after an addition of two words
LEMMA AddDecides ==
  ASSUME NEW a \in Word, NEW b \in Word, NEW folded \in BOOLEAN
  PROVE  DecidedBy([kind |-> "add", a |-> a, b |-> b],
                   AddFlags(a, b, Sum(a, b), folded))
<1> DEFINE r == Sum(a, b)
           fl == AddFlags(a, b, r, folded)
<1>0. Modulus \in Nat \ {0} /\ a \in 0 .. Modulus - 1 /\ b \in 0 .. Modulus - 1
  BY HalfAssumption DEF Word, Modulus
<1>1. r = IF a + b < Modulus THEN a + b ELSE a + b - Modulus
  BY SumIs
<1>2. ("ZF" \in fl <=> r = 0) /\ ("CF" \in fl <=> r < a)
  BY DEF AddFlags, ZfSf
<1> HIDE DEF r, fl
<1>3. (r = 0 <=> a + b \in {0, Modulus}) /\ (r < a <=> a + b \notin Word)
  BY <1>0, <1>1 DEF Word
<1> QED
  BY <1>2, <1>3, TakenIs, Zenon DEF DecidedBy, ComparedBy, ResultBy, fl, r

\* update_logic_flags after any other result, and the byte that OP_LOAD loads
LEMMA LogicDecides ==
  ASSUME NEW r \in Word, NEW old
  PROVE  /\ DecidedBy(Result(r), LogicFlags(old, r))
         /\ DecidedBy([kind |-> "load", r |-> r], LoadFlags(old, r))
<1> DEFINE fl == LogicFlags(old, r)
           ld == LoadFlags(old, r)
<1>0. r \in Nat /\ Signed(r) \in Int /\ (Signed(r) = 0 <=> r = 0) /\ Signed(0) = 0
  BY SignedIs, HalfAssumption DEF Word, Modulus
<1>1. /\ "ZF" \in fl <=> r = 0
      /\ "SF" \in fl <=> Signed(r) < 0
      /\ "CF" \notin fl /\ "OF" \notin fl
  BY DEF LogicFlags, ZfSf
<1>2. "ZF" \in ld <=> r = 0
  BY DEF LoadFlags, ZfSf
<1> HIDE DEF fl, ld
<1>3. EqualityDecided(r, 0, fl) /\ UnsignedDecided(r, 0, fl) /\ SignedDecided(r, 0, fl)
  BY <1>0, <1>1, TakenIs DEF EqualityDecided, UnsignedDecided, SignedDecided
<1>4. EqualityDecided(r, 0, ld)
  BY <1>2, TakenIs DEF EqualityDecided
<1>5. DecidedBy(Result(r), fl)
  BY <1>3, Zenon DEF DecidedBy, ComparedBy, ResultBy, Result
<1>6. DecidedBy([kind |-> "load", r |-> r], ld)
  BY <1>4, Zenon DEF DecidedBy, ComparedBy, ResultBy
<1> QED
  BY <1>5, <1>6 DEF fl, ld

\* set_cas_flags and update_fcmp_flags
LEMMA OtherDecides ==
  /\ \A success \in BOOLEAN : DecidedBy([kind |-> "cas", success |-> success], CasFlags(success))
  /\ \A order \in FloatOrders : DecidedBy([kind |-> "fcmp", order |-> order], FcmpFlags(order))
  /\ \A fl : DecidedBy(None, fl)
<1>1. ASSUME NEW success \in BOOLEAN
      PROVE  DecidedBy([kind |-> "cas", success |-> success], CasFlags(success))
  BY TakenIs DEF DecidedBy, ComparedBy, ResultBy, CasFlags
<1>2. ASSUME NEW order \in FloatOrders
      PROVE  DecidedBy([kind |-> "fcmp", order |-> order], FcmpFlags(order))
  BY TakenIs DEF DecidedBy, ComparedBy, ResultBy, FcmpFlags, FloatOrders
<1>3. ASSUME NEW fl PROVE DecidedBy(None, fl)
  BY Zenon DEF DecidedBy, ComparedBy, ResultBy, None
<1> QED
  BY <1>1, <1>2, <1>3, Zenon

----------------------------------------------------------------------------
(* The registers and the memory. *)

\* Registers and data are words, the stack pointers and the instruction
\* pointer stay in range, and what was pushed is what may be popped.
CpuType ==
  /\ regs \in [Regs -> Word]
  /\ ip \in 0 .. Text
  /\ csp \in 0 .. CallSize
  /\ dsp \in 0 .. DataSize
  /\ mem \in [0 .. IsrBase -> Int]
  /\ \A a \in Data : mem[a] \in Word
  /\ called \in [0 .. CallSize - 1 -> 0 .. Text]
  /\ pushed \in [0 .. DataSize - 1 -> Word]

MachineInv == CpuType /\ StacksHold

\* The parts of the memory, in the order in which vm_create lays them out
LEMMA Layout ==
  /\ Data \subseteq 0 .. IsrBase
  /\ IsrBase \in 0 .. IsrBase /\ IsrBase \notin Data
  /\ \A i \in 0 .. CallSize - 1 :
       /\ {CallAddr(i), CallAddr(i) + 1} \subseteq (0 .. IsrBase) \ (Data \cup {IsrBase})
       /\ CallAddr(i) # CallAddr(i) + 1
       /\ \A j \in 0 .. CallSize - 1 :
            j # i => {CallAddr(i), CallAddr(i) + 1} \cap {CallAddr(j), CallAddr(j) + 1} = {}
       /\ \A j \in 0 .. DataSize - 1 : DataAddr(j) \notin {CallAddr(i), CallAddr(i) + 1}
  /\ \A i \in 0 .. DataSize - 1 :
       /\ DataAddr(i) \in (0 .. IsrBase) \ (Data \cup {IsrBase})
       /\ \A j \in 0 .. DataSize - 1 : j # i => DataAddr(i) # DataAddr(j)
BY SizesAssumption DEF Data, IsrBase, DataBase, CallBase, CallAddr, DataAddr

\* An instruction that writes a register keeps the memory.
LEMMA WritesKeeps ==
  ASSUME MachineInv, ip < Text, NEW rd \in Regs, NEW r \in Word, NEW fl, NEW what,
         Writes(rd, r, fl, what)
  PROVE  MachineInv'
<1>1. regs' \in [Regs -> Word] /\ ip' \in 0 .. Text
  BY SizesAssumption DEF MachineInv, CpuType, Writes, Step
<1> QED
  BY <1>1 DEF MachineInv, CpuType, StacksHold, Writes, stacks

\* A store of a word to the data of the program keeps the stacks.
LEMMA StoreKeeps ==
  ASSUME MachineInv, ip < Text, Step, NEW a \in Data, NEW v \in Word,
         mem' = [mem EXCEPT ![a] = v], UNCHANGED stacks, regs' \in [Regs -> Word]
  PROVE  MachineInv'
<1>1. ip' \in 0 .. Text
  BY SizesAssumption DEF MachineInv, CpuType, Step
<1>2. a \in 0 .. IsrBase /\ v \in Int
  BY Layout, HalfAssumption DEF Word, Modulus
<1>3. mem' \in [0 .. IsrBase -> Int] /\ \A c \in 0 .. IsrBase : mem'[c] = IF c = a THEN v ELSE mem[c]
  BY <1>2 DEF MachineInv, CpuType
<1>4. \A c \in Data : mem'[c] \in Word
  BY <1>3, Layout DEF MachineInv, CpuType
<1>5. CpuType'
  BY <1>1, <1>3, <1>4 DEF MachineInv, CpuType, stacks
<1>6. StacksHold'
  BY <1>3, Layout DEF MachineInv, StacksHold, stacks
<1> QED
  BY <1>5, <1>6 DEF MachineInv

\* call_push and data_push write the entry they make, and no other.
LEMMA CallKeeps == ASSUME MachineInv, NEW target \in 0 .. Text, Call(target) PROVE MachineInv'
<1> DEFINE i == csp - 1
<1>1. i \in 0 .. CallSize - 1 /\ csp' \in 0 .. CallSize /\ ip + 1 \in 0 .. Text
  BY SizesAssumption DEF MachineInv, CpuType, Call, Fetch
<1>2. /\ mem' = [mem EXCEPT ![CallAddr(i)] = ip + 1, ![CallAddr(i) + 1] = 0]
      /\ called' = [called EXCEPT ![i] = ip + 1]
      /\ ip' = target
      /\ UNCHANGED <<regs, dsp, pushed>>
  BY DEF Call
<1>3. /\ mem' \in [0 .. IsrBase -> Int]
      /\ \A c \in 0 .. IsrBase : mem'[c] = IF c = CallAddr(i) THEN ip + 1
                                           ELSE IF c = CallAddr(i) + 1 THEN 0 ELSE mem[c]
  <2>1. CallAddr(i) \in 0 .. IsrBase /\ CallAddr(i) + 1 \in 0 .. IsrBase
    BY <1>1, Layout
  <2>2. CallAddr(i) # CallAddr(i) + 1
    BY <1>1, Layout
  <2>3. mem \in [0 .. IsrBase -> Int] /\ ip + 1 \in Int
    BY <1>1 DEF MachineInv, CpuType
  <2> QED
    BY <1>2, <2>1, <2>2, <2>3
<1>4. /\ called' \in [0 .. CallSize - 1 -> 0 .. Text]
      /\ \A j \in 0 .. CallSize - 1 : called'[j] = IF j = i THEN ip + 1 ELSE called[j]
  BY <1>1, <1>2 DEF MachineInv, CpuType
<1> HIDE DEF i
<1>5. CpuType'
  <2>1. CallAddr(i) \notin Data /\ CallAddr(i) + 1 \notin Data /\ Data \subseteq 0 .. IsrBase
    BY <1>1, Layout
  <2>2. \A c \in Data : mem'[c] \in Word
    BY <1>3, <2>1 DEF MachineInv, CpuType
  <2> QED
    BY <1>1, <1>2, <1>3, <1>4, <2>2, Zenon DEF MachineInv, CpuType
<1>6. \A j \in 0 .. CallSize - 1 : mem'[CallAddr(j)] = called'[j] /\ mem'[CallAddr(j) + 1] = 0
  <2> SUFFICES ASSUME NEW j \in 0 .. CallSize - 1
               PROVE  mem'[CallAddr(j)] = called'[j] /\ mem'[CallAddr(j) + 1] = 0
    OBVIOUS
  <2>1. CallAddr(j) \in 0 .. IsrBase /\ CallAddr(j) + 1 \in 0 .. IsrBase
    BY Layout
  <2>2. CASE j = i
    BY <1>3, <1>4, <2>1, <2>2, Layout
  <2>3. CASE j # i
    <3>1. {CallAddr(i), CallAddr(i) + 1} \cap {CallAddr(j), CallAddr(j) + 1} = {}
      BY <1>1, <2>3, Layout
    <3>2. mem'[CallAddr(j)] = mem[CallAddr(j)] /\ mem'[CallAddr(j) + 1] = mem[CallAddr(j) + 1]
      BY <1>3, <2>1, <3>1, Zenon
    <3> QED
      BY <1>4, <2>3, <3>2 DEF MachineInv, StacksHold
  <2> QED
    BY <2>2, <2>3
<1>7. (\A j \in 0 .. DataSize - 1 : mem'[DataAddr(j)] = pushed'[j]) /\ mem'[IsrBase] = 0
  BY <1>1, <1>2, <1>3, Layout DEF MachineInv, StacksHold
<1> QED
  BY <1>5, <1>6, <1>7 DEF MachineInv, StacksHold

LEMMA PushKeeps == ASSUME MachineInv, NEW rd \in Regs, Push(rd) PROVE MachineInv'
<1> DEFINE i == dsp - 1
           v == regs[rd]
<1>1. i \in 0 .. DataSize - 1 /\ dsp' \in 0 .. DataSize /\ ip' \in 0 .. Text
  BY SizesAssumption DEF MachineInv, CpuType, Push, PushUnchecked, Fetch, Step
<1>2. /\ mem' = [mem EXCEPT ![DataAddr(i)] = v]
      /\ pushed' = [pushed EXCEPT ![i] = v]
      /\ UNCHANGED <<regs, csp, called>>
  BY DEF Push, PushUnchecked
<1>3. v \in Word /\ v \in Int
  BY HalfAssumption DEF MachineInv, CpuType, Word, Modulus
<1>4. /\ mem' \in [0 .. IsrBase -> Int]
      /\ \A c \in 0 .. IsrBase : mem'[c] = IF c = DataAddr(i) THEN v ELSE mem[c]
  BY <1>1, <1>2, <1>3, Layout DEF MachineInv, CpuType
<1>5. /\ pushed' \in [0 .. DataSize - 1 -> Word]
      /\ \A j \in 0 .. DataSize - 1 : pushed'[j] = IF j = i THEN v ELSE pushed[j]
  BY <1>1, <1>2, <1>3 DEF MachineInv, CpuType
<1> HIDE DEF i, v
<1>6. CpuType'
  BY <1>1, <1>2, <1>4, <1>5, Layout DEF MachineInv, CpuType
<1>7. StacksHold'
  BY <1>1, <1>2, <1>4, <1>5, Layout DEF MachineInv, StacksHold
<1> QED
  BY <1>6, <1>7 DEF MachineInv

\* Every other step of the machine keeps the stacks apart.
LEMMA MachineStep == MachineInv /\ [Next]_vars => MachineInv'
<1> SUFFICES ASSUME MachineInv, [Next]_vars PROVE MachineInv'
  OBVIOUS
<1>r. regs \in [Regs -> Word]
  BY DEF MachineInv, CpuType
<1>d. \A a \in Data : mem[a] \in Word
  BY DEF MachineInv, CpuType
<1>w. 0 \in Word /\ Modulus - 1 \in Word /\ 0 .. Half - 1 \subseteq Word
  BY HalfAssumption DEF Word, Modulus
<1>s. ASSUME NEW a \in Word, NEW b \in Word PROVE Sum(a, b) \in Word /\ Difference(a, b) \in Word
  <2>1. a + b \in Int /\ a - b \in Int
    BY HalfAssumption DEF Word, Modulus
  <2> QED
    BY <2>1, WordWrap DEF Sum, Difference
\* Nothing but the instruction pointer, the flags or the run changes
<1>u. ASSUME UNCHANGED <<regs, mem, stacks>>, ip' \in 0 .. Text PROVE MachineInv'
  BY <1>u DEF MachineInv, CpuType, StacksHold, stacks
<1>1. CASE Alu
  <2>1. ASSUME NEW rd \in Regs, NEW rs1 \in Regs, NEW b \in Word, NEW folded \in BOOLEAN,
               Add(rd, regs[rs1], b, folded) \/ Sub(rd, regs[rs1], b, folded)
        PROVE  MachineInv'
    BY <1>r, <1>s, <2>1, WritesKeeps, Zenon DEF Add, Sub, Fetch
  <2>2. ASSUME NEW a, NEW b, NEW folded, Cmp(a, b, folded) PROVE MachineInv'
    BY <1>u, <2>2, SizesAssumption DEF Cmp, Fetch, Step, MachineInv, CpuType
  <2>3. ASSUME NEW rd \in Regs, NEW rs1 \in Regs, NEW b \in Word, Logic(rd, regs[rs1], b)
        PROVE  MachineInv'
    BY <1>r, <2>3, LogicTypes, WritesKeeps DEF Logic, Fetch
  <2>4. ASSUME NEW rd \in Regs, NEW rs1 \in Regs, NEW b \in Word, Divide(rd, regs[rs1], b)
        PROVE  MachineInv'
    <3>1. CASE b # 0
      BY <1>r, <2>4, <3>1, DivisionTypes, WritesKeeps DEF Divide, Fetch
    <3>2. CASE b = 0
      BY <1>u, <2>4, <3>2, SizesAssumption DEF Divide, Fetch, Step, MachineInv, CpuType
    <3> QED
      BY <3>1, <3>2
  <2>5. ASSUME NEW jump \in Jumps, NEW target \in 0 .. Text, JumpIf(jump, target) PROVE MachineInv'
    BY <1>u, <2>5, SizesAssumption DEF JumpIf, Fetch, MachineInv, CpuType
  <2> QED
    BY <1>1, <2>1, <2>2, <2>3, <2>4, <2>5 DEF Alu
<1>2. CASE Float
  <2>1. ASSUME NEW rd \in Regs, NEW r \in Word, NEW sign, FloatResult(rd, r, sign) \/ Ftoi(rd, r)
        PROVE  MachineInv'
    BY <2>1, WritesKeeps DEF FloatResult, Ftoi, Fetch
  <2>2. ASSUME NEW rd \in Regs, FtoiInvalid(rd) PROVE MachineInv'
    BY <1>w, <2>2, WritesKeeps DEF FtoiInvalid, Fetch
  <2>3. ASSUME NEW order, Fcmp(order) PROVE MachineInv'
    BY <1>u, <2>3, SizesAssumption DEF Fcmp, Fetch, Step, MachineInv, CpuType
  <2> QED
    BY <1>2, <2>1, <2>2, <2>3 DEF Float
<1>3. ASSUME NEW g, Panic(g) PROVE MachineInv'
  BY <1>u, <1>3 DEF Panic, MachineInv, CpuType, stacks
<1>4. CASE Memory
  <2>1. ASSUME NEW rd \in Regs, NEW a, NEW byte \in 0 .. Half - 1, Load(rd, a, byte) PROVE MachineInv'
    BY <1>w, <2>1, WritesKeeps DEF Load, Fetch
  <2>2. ASSUME NEW rd \in Regs, NEW a \in Data, Load32(rd, a) PROVE MachineInv'
    BY <1>d, <2>2, WritesKeeps DEF Load32, Fetch
  <2>3. ASSUME NEW a \in Data, NEW v \in Word, Store(a, v) PROVE MachineInv'
    BY <1>r, <2>3, StoreKeeps, Zenon DEF Store, Fetch
  <2>4. ASSUME NEW rd \in Regs, NEW a \in Data, NEW new \in Word, NEW fl, NEW what,
               Exchanges(rd, a, new, fl, what)
        PROVE  MachineInv'
    <3>1. regs' \in [Regs -> Word]
      BY <1>r, <1>d, <2>4 DEF Exchanges
    <3> QED
      BY <2>4, <3>1, StoreKeeps, Zenon DEF Exchanges, Fetch
  <2>5. ASSUME NEW rd \in Regs, NEW rs2 \in Regs, NEW a \in Data,
               \/ Xchg(rd, a, regs[rs2])
               \/ Xadd(rd, a, regs[rs2])
               \/ Cas(rd, a, regs[rs2])
        PROVE  MachineInv'
    BY <1>r, <1>d, <1>s, <2>4, <2>5, Zenon DEF Xchg, Xadd, Cas
  <2> QED
    BY <1>3, <1>4, <2>1, <2>2, <2>3, <2>5 DEF Memory, MemPanic
<1>5. CASE Stack
  <2>1. ASSUME NEW rd \in Regs, Pop(rd) PROVE MachineInv'
    <3>1. mem[DataAddr(dsp)] \in Word
      <4>1. dsp \in 0 .. DataSize - 1
        BY <2>1, SizesAssumption DEF MachineInv, CpuType, Pop
      <4>2. mem[DataAddr(dsp)] = pushed[dsp]
        BY <4>1 DEF MachineInv, StacksHold
      <4> QED
        BY <4>1, <4>2 DEF MachineInv, CpuType
    <3>2. regs' \in [Regs -> Word] /\ dsp' \in 0 .. DataSize /\ ip' \in 0 .. Text
      BY <1>r, <2>1, <3>1, SizesAssumption DEF MachineInv, CpuType, Pop, Fetch, Step
    <3> QED
      BY <2>1, <3>2, Zenon DEF MachineInv, CpuType, StacksHold, Pop
  <2>2. ASSUME NEW rd \in Regs, NEW r \in Word, Movi(rd, r) \/ InContext(rd, r) PROVE MachineInv'
    BY <2>2, WritesKeeps DEF Movi, InContext, Fetch
  <2>3. CASE Ret
    <3>1. mem[CallAddr(csp)] \in 0 .. Text
      <4>1. csp \in 0 .. CallSize - 1
        BY <2>3, SizesAssumption DEF MachineInv, CpuType, Ret
      <4>2. mem[CallAddr(csp)] = called[csp]
        BY <4>1 DEF MachineInv, StacksHold
      <4> QED
        BY <4>1, <4>2 DEF MachineInv, CpuType
    <3>2. csp' \in 0 .. CallSize /\ ip' \in 0 .. Text
      BY <2>3, <3>1, SizesAssumption DEF MachineInv, CpuType, Ret
    <3> QED
      BY <2>3, <3>2 DEF MachineInv, CpuType, StacksHold, Ret
  <2>4. ASSUME NEW v \in Word, OutCsp(v) \/ OutDsp(v) PROVE MachineInv'
    <3>1. csp' \in 0 .. CallSize /\ dsp' \in 0 .. DataSize /\ ip' \in 0 .. Text
      BY <2>4, SizesAssumption, HalfAssumption
         DEF MachineInv, CpuType, OutCsp, OutDsp, Fetch, Step, Word, Modulus
    <3> QED
      BY <2>4, <3>1, Zenon DEF MachineInv, CpuType, StacksHold, OutCsp, OutDsp
  <2>5. CASE PushPanic \/ PopPanic \/ CallPanic \/ RetPanic
    BY <1>3, <2>5 DEF PushPanic, PopPanic, CallPanic, RetPanic
  <2> QED
    BY <1>5, <2>1, <2>2, <2>3, <2>4, <2>5, PushKeeps, CallKeeps DEF Stack
<1>6. ASSUME NEW target \in 0 .. Text, Jump(target) PROVE MachineInv'
  BY <1>u, <1>6 DEF Jump
<1>7. CASE Halt
  BY <1>u, <1>7, SizesAssumption DEF Halt, Step, MachineInv, CpuType
<1>8. CASE FetchPanic
  BY <1>u, <1>8 DEF FetchPanic, MachineInv, CpuType, stacks
<1>9. CASE UNCHANGED vars
  BY <1>u, <1>9 DEF vars, stacks, MachineInv, CpuType
<1> QED
  BY <1>1, <1>2, <1>4, <1>5, <1>6, <1>7, <1>8, <1>9 DEF Next, Ended

\* A core starts with zeroed registers and empty stacks.
LEMMA MachineInit == Init => MachineInv
<1> SUFFICES ASSUME Init PROVE MachineInv
  OBVIOUS
<1>1. 0 \in Word
  BY HalfAssumption DEF Word, Modulus
<1>2. CpuType
  BY <1>1, SizesAssumption, Layout DEF Init, CpuType
<1>3. StacksHold
  BY Layout DEF Init, StacksHold
<1> QED
  BY <1>2, <1>3 DEF MachineInv

\* The call stack and the data stack of a core hold what was pushed on them,
\* for any program and any sizes: call_push, data_push and the stores of the
\* program never write an entry of a neighbour.
THEOREM StacksCorrect == Spec => []StacksHold
<1>1. MachineInv => StacksHold
  BY DEF MachineInv
<1> QED
  BY <1>1, MachineInit, MachineStep, PTL DEF Spec

----------------------------------------------------------------------------
(* The jumps, at any distance from the instruction they decide on. *)

\* What the flags were last computed from is what the jumps decide on.
Decided == DecidedBy(meaning, flags)

\* Every instruction leaves flags and meaning alone or makes them anew.
LEMMA DecidedStep == MachineInv /\ Decided /\ [Next]_vars => Decided'
<1> SUFFICES ASSUME MachineInv, Decided, [Next]_vars PROVE DecidedBy(meaning', flags')
  BY DEF Decided
<1>r. regs \in [Regs -> Word]
  BY DEF MachineInv, CpuType
<1>d. \A a \in Data : mem[a] \in Word
  BY DEF MachineInv, CpuType
<1>w. 0 \in Word /\ Modulus - 1 \in Word /\ 0 .. Half - 1 \subseteq Word /\ 1 \in Word
  BY HalfAssumption DEF Word, Modulus
<1>u. ASSUME UNCHANGED <<flags, meaning>> PROVE DecidedBy(meaning', flags')
  BY <1>u DEF Decided
<1> HIDE DEF DecidedBy
<1>1. CASE Alu
  <2>1. ASSUME NEW rd \in Regs, NEW rs1 \in Regs, NEW b \in Word, NEW folded \in BOOLEAN,
               \/ Add(rd, regs[rs1], b, folded)
               \/ Sub(rd, regs[rs1], b, folded)
               \/ Cmp(regs[rs1], b, folded)
        PROVE  DecidedBy(meaning', flags')
    <3>1. regs[rs1] \in Word
      BY <1>r
    <3>2. CASE Add(rd, regs[rs1], b, folded)
      BY <3>1, <3>2, AddDecides DEF Add, Writes
    <3>3. CASE Sub(rd, regs[rs1], b, folded) \/ Cmp(regs[rs1], b, folded)
      BY <3>1, <3>3, SubDecides DEF Sub, Cmp, Writes
    <3> QED
      BY <2>1, <3>2, <3>3
  <2>2. ASSUME NEW rd \in Regs, NEW rs1 \in Regs, NEW b \in Word, Logic(rd, regs[rs1], b)
        PROVE  DecidedBy(meaning', flags')
    BY <1>r, <2>2, LogicTypes, LogicDecides, Zenon DEF Logic, Writes
  <2>3. ASSUME NEW rd \in Regs, NEW rs1 \in Regs, NEW b \in Word, Divide(rd, regs[rs1], b)
        PROVE  DecidedBy(meaning', flags')
    <3>1. CASE b # 0
      <4>1. PICK r \in {regs[rs1] \div b, regs[rs1] % b} : Writes(rd, r, LogicFlags(flags, r), Result(r))
        BY <2>3, <3>1 DEF Divide
      <4>2. r \in Word
        BY <1>r, <3>1, <4>1, DivisionTypes
      <4> QED
        BY <4>1, <4>2, LogicDecides, Zenon DEF Writes
    <3>2. CASE b = 0
      BY <1>u, <2>3, <3>2 DEF Divide
    <3> QED
      BY <3>1, <3>2
  <2>4. ASSUME NEW jump, NEW target, JumpIf(jump, target) PROVE DecidedBy(meaning', flags')
    BY <1>u, <2>4 DEF JumpIf
  <2> QED
    BY <1>1, <2>1, <2>2, <2>3, <2>4 DEF Alu
<1>2. CASE Float
  <2>1. ASSUME NEW rd, NEW r, NEW sign \in {0, 1, Modulus - 1}, FloatResult(rd, r, sign)
        PROVE  DecidedBy(meaning', flags')
    BY <1>w, <2>1, LogicDecides, Zenon DEF FloatResult, Writes
  <2>2. ASSUME NEW rd, NEW r \in Word, Ftoi(rd, r) PROVE DecidedBy(meaning', flags')
    BY <2>2, LogicDecides, Zenon DEF Ftoi, Writes
  <2>3. ASSUME NEW rd, FtoiInvalid(rd) PROVE DecidedBy(meaning', flags')
    BY <2>3, OtherDecides, Zenon DEF FtoiInvalid, Writes
  <2>4. ASSUME NEW order \in FloatOrders, Fcmp(order) PROVE DecidedBy(meaning', flags')
    BY <2>4, OtherDecides, Zenon DEF Fcmp
  <2> QED
    BY <1>2, <2>1, <2>2, <2>3, <2>4 DEF Float
<1>3. ASSUME NEW g, Panic(g) PROVE DecidedBy(meaning', flags')
  BY <1>u, <1>3 DEF Panic
<1>4. CASE Memory
  <2>1. ASSUME NEW rd, NEW a, NEW byte \in 0 .. Half - 1, Load(rd, a, byte)
        PROVE  DecidedBy(meaning', flags')
    BY <1>w, <2>1, LogicDecides DEF Load, Writes
  <2>2. ASSUME NEW rd, NEW a \in Data, Load32(rd, a) PROVE DecidedBy(meaning', flags')
    BY <1>d, <2>2, LogicDecides, Zenon DEF Load32, Writes
  <2>3. ASSUME NEW a, NEW v, Store(a, v) PROVE DecidedBy(meaning', flags')
    BY <1>u, <2>3 DEF Store
  <2>4. ASSUME NEW rd \in Regs, NEW rs2 \in Regs, NEW a \in Data,
               Xchg(rd, a, regs[rs2]) \/ Xadd(rd, a, regs[rs2])
        PROVE  DecidedBy(meaning', flags')
    <3>1. mem[a] \in Word /\ regs[rs2] \in Word
      BY <1>r, <1>d
    <3>2. CASE Xchg(rd, a, regs[rs2])
      BY <3>1, <3>2, LogicDecides, Zenon DEF Xchg, Exchanges
    <3>3. CASE Xadd(rd, a, regs[rs2])
      BY <3>1, <3>3, AddDecides, Zenon DEF Xadd, Exchanges
    <3> QED
      BY <2>4, <3>2, <3>3
  <2>5. ASSUME NEW rd, NEW a, NEW v, Cas(rd, a, v) PROVE DecidedBy(meaning', flags')
    <3> DEFINE success == mem[a] = regs[rd]
    <3>1. success \in BOOLEAN
      OBVIOUS
    <3>2. meaning' = [kind |-> "cas", success |-> success] /\ flags' = CasFlags(success)
      BY <2>5, Zenon DEF Cas, Exchanges
    <3> HIDE DEF success
    <3>3. DecidedBy([kind |-> "cas", success |-> success], CasFlags(success))
      BY <3>1, OtherDecides, Zenon
    <3> QED
      BY <3>2, <3>3
  <2> QED
    BY <1>3, <1>4, <2>1, <2>2, <2>3, <2>4, <2>5 DEF Memory, MemPanic
<1>5. CASE Stack
  <2>1. ASSUME NEW rd, Pop(rd) PROVE DecidedBy(meaning', flags')
    <3>1. dsp \in 0 .. DataSize - 1
      BY <2>1, SizesAssumption DEF MachineInv, CpuType, Pop
    <3>2. mem[DataAddr(dsp)] \in Word
      BY <3>1 DEF MachineInv, CpuType, StacksHold
    <3> QED
      BY <2>1, <3>2, LogicDecides, Zenon DEF Pop
  <2>2. ASSUME NEW rd, NEW r \in Word, Movi(rd, r) PROVE DecidedBy(meaning', flags')
    BY <2>2, LogicDecides, Zenon DEF Movi, Writes
  <2>3. ASSUME NEW rd, NEW r, \/ Push(rd) \/ InContext(rd, r) \/ Call(r)
                              \/ Ret \/ OutCsp(r) \/ OutDsp(r)
        PROVE  DecidedBy(meaning', flags')
    BY <1>u, <2>3 DEF Push, PushUnchecked, InContext, Writes, Call, Ret, OutCsp, OutDsp
  <2>4. CASE PushPanic \/ PopPanic \/ CallPanic \/ RetPanic
    BY <1>3, <2>4 DEF PushPanic, PopPanic, CallPanic, RetPanic
  <2> QED
    BY <1>5, <2>1, <2>2, <2>3, <2>4 DEF Stack
<1>6. ASSUME NEW target, Jump(target) PROVE DecidedBy(meaning', flags')
  BY <1>u, <1>6 DEF Jump
<1>7. CASE Halt \/ FetchPanic \/ UNCHANGED vars
  BY <1>u, <1>7 DEF Halt, FetchPanic, vars
<1> QED
  BY <1>1, <1>2, <1>4, <1>5, <1>6, <1>7 DEF Next, Ended

\* No instruction has been executed yet.
LEMMA DecidedInit == Init => Decided
BY OtherDecides DEF Init, Decided

\* After a comparison and until the flags change, the conditional jumps decide
\* it, for words of any width: equality and unsigned order always, signed
\* order when the difference of the two numbers is a signed word.
THEOREM ComparisonsCorrect == Spec => []CompareDecides
<1>1. Decided => CompareDecides
  BY DEF Decided, DecidedBy, ComparedBy, CompareDecides
<1> QED
  BY <1>1, MachineInit, MachineStep, DecidedInit, DecidedStep, PTL DEF Spec

\* After any other instruction they decide on its result, for words of any
\* width: update_logic_flags, update_add_flags and set_cas_flags leave no flag
\* of an earlier instruction behind.
THEOREM ResultsCorrect == Spec => []ResultDecides
<1>1. Decided => ResultDecides
  BY DEF Decided, DecidedBy, ResultBy, ResultDecides
<1> QED
  BY <1>1, MachineInit, MachineStep, DecidedInit, DecidedStep, PTL DEF Spec

----------------------------------------------------------------------------
(* The timer. *)

TimerType ==
  /\ timer_enabled \in {0, 1} /\ timer_period \in Int /\ timer_next_deadline \in Int
  /\ ctl \in {"idle", "disable", "period", "deadline", "enable"} /\ value \in Int
  /\ thread_pc \in {"loop", "off", "forget", "period", "disable", "now", "load", "arm", "test", "next",
             "store", "done"}
  /\ period \in Int /\ thread_now \in Int /\ deadline \in Int
  /\ ages \in [1 .. 3 -> Int] /\ late \in Int

\* Periods are minimal ones or longer, wherever they are.
PeriodInv ==
  /\ value \in {NotWritten, 0} \/ value >= MinPeriod
  /\ ctl # "idle" => value # NotWritten
  /\ timer_period = 0 \/ timer_period >= MinPeriod
  /\ thread_pc \in {"now", "load", "arm", "test", "next", "store"} => period >= MinPeriod

\* The order of the stores that switch the timer off.
OffInv ==
  /\ ctl = "enable" => value # 0
  /\ value = 0 /\ ctl \in {"period", "deadline", "idle"} => timer_enabled = 0
  /\ late \in {0, 1}
  /\ late = 1 => Off /\ thread_pc \in {"next", "store", "loop", "off", "done"}

\* A deadline is not before the last interrupt, and a minimal period after the
\* one before it.
Apart(x) ==
  /\ ages[1] < MinPeriod => x >= -ages[1]
  /\ ages[2] < MinPeriod => x >= MinPeriod - ages[2]

AgesInv ==
  /\ 0 <= ages[1] /\ ages[1] <= ages[2] /\ ages[2] <= ages[3] /\ ages[3] <= MinPeriod
  /\ ages[1] = 0 => ages[3] >= MinPeriod
  /\ timer_next_deadline # Zero /\ thread_pc \notin {"next", "store"} => Apart(timer_next_deadline)
  /\ thread_pc \in {"arm", "test", "store"} => Apart(deadline)
  /\ thread_pc = "next" /\ ages[2] < MinPeriod => deadline >= MinPeriod - ages[2]
  /\ thread_pc \in {"load", "arm", "test"} => thread_now <= 0 /\ (ages[1] < MinPeriod => thread_now >= -ages[1])

\* The inductive invariant.
PeriodsInv == TimerType /\ PeriodInv /\ OffInv /\ AgesInv

----------------------------------------------------------------------------
(* Arithmetic. *)

\* Skipping the deadlines that have passed leaves one that has not.
LEMMA Skipped ==
  ASSUME NEW d \in Int, NEW p \in Int, p > 0, d < 0
  PROVE  /\ d + p * ((-d) \div p + 1) \in Int
         /\ d + p * ((-d) \div p + 1) > 0
<1> DEFINE q == (-d) \div p
           r == (-d) % p
<1>1. q \in Int /\ r \in Int /\ r < p /\ -d = p * q + r
  OBVIOUS
<1> HIDE DEF q, r
<1>2. p * (q + 1) = p * q + p /\ p * q \in Int
  BY <1>1
<1>3. d + p * (q + 1) \in Int /\ d + p * (q + 1) > 0
  BY <1>1, <1>2
<1> QED
  BY <1>3 DEF q

----------------------------------------------------------------------------
(* The invariant. *)

\* At the start the timer is off and no interrupt has been raised.
LEMMA PeriodInit == TimerInit => PeriodsInv
  BY TimerAssumption DEF TimerInit, PeriodsInv, TimerType, PeriodInv, OffInv, AgesInv, Off, NotWritten, Zero

\* A unit of time makes deadlines and clock values one less and the
\* interrupts one older.
LEMMA ElapseStep == PeriodsInv /\ Elapse => PeriodsInv'
<1> SUFFICES ASSUME PeriodsInv, Elapse PROVE PeriodsInv'
  OBVIOUS
<1> USE TimerAssumption DEF PeriodsInv
<1>a. ages \in [1 .. 3 -> Int] /\ MinPeriod \in Int /\ MaxLag \in Int
  BY DEF TimerType
<1>1. ASSUME NEW i \in 1 .. 3
      PROVE  ages'[i] = IF ages[i] + 1 <= MinPeriod THEN ages[i] + 1 ELSE MinPeriod
  <2>1. ages'[i] = IF ages[i] < MinPeriod THEN ages[i] + 1 ELSE MinPeriod
    BY DEF Elapse
  <2> QED
    BY <1>a, <2>1
<1>2. ages' \in [1 .. 3 -> Int]
  BY <1>a DEF Elapse
<1>3. TimerType'
  BY <1>2 DEF Elapse, TimerType, Zero, guest
<1>4. PeriodInv' /\ OffInv'
  BY DEF Elapse, PeriodInv, OffInv, Off, guest
<1>5. /\ ages'[1] = IF ages[1] + 1 <= MinPeriod THEN ages[1] + 1 ELSE MinPeriod
      /\ ages'[2] = IF ages[2] + 1 <= MinPeriod THEN ages[2] + 1 ELSE MinPeriod
      /\ ages'[3] = IF ages[3] + 1 <= MinPeriod THEN ages[3] + 1 ELSE MinPeriod
      /\ ages[1] \in Int /\ ages[2] \in Int /\ ages[3] \in Int
  BY <1>1, <1>a
<1>6. AgesInv'
  <2>1. /\ 0 <= ages'[1] /\ ages'[1] <= ages'[2] /\ ages'[2] <= ages'[3] /\ ages'[3] <= MinPeriod
        /\ ages'[1] # 0
    BY <1>5, <1>a DEF AgesInv
  <2>2. ASSUME NEW x \in Int, Apart(x)
        PROVE  /\ ages'[1] < MinPeriod => x - 1 >= -ages'[1]
               /\ ages'[2] < MinPeriod => x - 1 >= MinPeriod - ages'[2]
    BY <1>5, <1>a, <2>2 DEF Apart
  <2>3. timer_next_deadline' # Zero =>
          timer_next_deadline # Zero /\ timer_next_deadline' = timer_next_deadline - 1
    BY DEF Elapse
  <2>4. (timer_next_deadline # Zero /\ thread_pc \notin {"next", "store"} => Apart(timer_next_deadline))'
    <3>1. thread_pc' = thread_pc
      BY DEF Elapse
    <3> QED
      BY <2>2, <2>3, <3>1 DEF AgesInv, TimerType, Apart, Zero
  <2>5. (thread_pc \in {"arm", "test", "store"} => Apart(deadline))'
    <3>1. thread_pc \in {"arm", "test", "store"} => deadline' = deadline - 1 /\ deadline \in Int
      BY DEF Elapse, TimerType
    <3>2. thread_pc' = thread_pc
      BY DEF Elapse
    <3> QED
      BY <2>2, <3>1, <3>2 DEF AgesInv, Apart
  <2>6. (thread_pc = "next" /\ ages[2] < MinPeriod => deadline >= MinPeriod - ages[2])'
    BY <1>5, <1>a DEF AgesInv, TimerType, Elapse
  <2>7. (thread_pc \in {"load", "arm", "test"} =>
           thread_now <= 0 /\ (ages[1] < MinPeriod => thread_now >= -ages[1]))'
    BY <1>5, <1>a DEF AgesInv, TimerType, Elapse
  <2> QED
    BY <2>1, <2>4, <2>5, <2>6, <2>7 DEF AgesInv
<1> QED
  BY <1>3, <1>4, <1>6

\* An interrupt is raised a minimal period after the one before the last.
LEMMA TestStep == PeriodsInv /\ Test => PeriodsInv'
<1> SUFFICES ASSUME PeriodsInv, Test PROVE PeriodsInv'
  OBVIOUS
<1> USE TimerAssumption DEF PeriodsInv
<1>a. /\ MinPeriod \in Int /\ MaxLag \in Int /\ period >= MinPeriod
      /\ ages[1] \in Int /\ ages[2] \in Int /\ ages[3] \in Int
      /\ deadline \in Int /\ thread_now \in Int /\ period \in Int /\ thread_pc = "test"
  BY DEF TimerType, PeriodInv, Test
<1>1. CASE thread_now < deadline
  <2>1. thread_pc' = "loop" /\ UNCHANGED <<shared, halted, guest, ticks>> /\ TimerType'
    BY <1>1 DEF Test, Goto, TimerType, shared, guest, ticks
  <2> QED
    BY <2>1, <1>a DEF PeriodInv, OffInv, AgesInv, Apart, Off, shared, guest, ticks, Zero
<1>2. CASE ~(thread_now < deadline)
  <2>1. /\ thread_pc' = "next" /\ deadline' = deadline + period /\ period' = period /\ thread_now' = 0
        /\ ages' = [i \in 1 .. 3 |-> IF i = 1 THEN 0 ELSE ages[i - 1]]
        /\ late' = IF Off THEN late + 1 ELSE 0
        /\ UNCHANGED <<shared, halted, guest>>
    BY <1>2 DEF Test, Goto
  <2>2. ages' \in [1 .. 3 -> Int] /\ ages'[1] = 0 /\ ages'[2] = ages[1] /\ ages'[3] = ages[2]
    BY <2>1, <1>a DEF TimerType
  <2>3. TimerType'
    BY <2>1, <2>2, <1>a DEF TimerType, shared, guest
  <2>4. PeriodInv'
    BY <2>1, <1>a DEF PeriodInv, shared, guest
  <2>5. late = 0
    BY <1>a DEF OffInv
  <2>6. OffInv'
    BY <2>1, <2>5 DEF OffInv, Off, shared, guest
  <2>7. Apart(deadline) /\ thread_now <= 0 /\ ages[2] <= MinPeriod /\ 0 <= ages[1] /\ ages[1] <= ages[2]
    BY <1>a DEF AgesInv
  <2>8. ages[2] >= MinPeriod
    BY <1>2, <1>a, <2>7 DEF Apart
  <2>9. ages[1] < MinPeriod => deadline + period >= MinPeriod - ages[1]
    BY <1>a, <2>7 DEF Apart
  <2>10. AgesInv'
    BY <2>1, <2>2, <2>7, <2>8, <2>9, <1>a DEF AgesInv
  <2> QED
    BY <2>3, <2>4, <2>6, <2>10
<1> QED
  BY <1>1, <1>2

\* Every other step of the thread keeps the invariant.
LEMMA ThreadStep == PeriodsInv /\ Thread => PeriodsInv'
<1> SUFFICES ASSUME PeriodsInv, Thread PROVE PeriodsInv'
  OBVIOUS
<1> USE TimerAssumption DEF PeriodsInv, Goto
<1>a. MinPeriod \in Int /\ MinPeriod > 0 /\ MaxLag \in Int /\ Zero \in Int
  BY DEF Zero
<1>k. ASSUME UNCHANGED <<guest, ticks>>, timer_enabled' \in {0, timer_enabled}, TimerType',
             late = 1 => thread_pc' \in {"next", "store", "loop", "off", "done"}
      PROVE  OffInv'
  BY <1>k DEF OffInv, Off, guest, ticks, TimerType
<1>1. CASE Loop
  <2>1. TimerType'
    BY <1>1 DEF Loop, TimerType, shared, guest, locals, ticks
  <2>2. OffInv'
    BY <1>1, <1>k, <2>1 DEF Loop, OffInv, Off, shared
  <2>3. PeriodInv' /\ AgesInv'
    BY <1>1 DEF Loop, PeriodInv, AgesInv, Apart, shared, guest, locals, ticks, Zero
  <2> QED
    BY <2>1, <2>2, <2>3
<1>2. CASE ForgetDeadline
  <2>1. TimerType'
    BY <1>2, <1>a DEF ForgetDeadline, TimerType, guest, locals, ticks
  <2>2. OffInv'
    BY <1>2, <1>k, <2>1 DEF ForgetDeadline
  <2>3. PeriodInv' /\ AgesInv'
    BY <1>2 DEF ForgetDeadline, PeriodInv, AgesInv, guest, locals, ticks, Zero
  <2> QED
    BY <2>1, <2>2, <2>3
<1>3. CASE LoadPeriod
  <2>1. TimerType'
    BY <1>3 DEF LoadPeriod, TimerType, shared, guest, ticks
  <2>2. OffInv'
    BY <1>3, <1>k, <2>1 DEF LoadPeriod, OffInv, shared
  <2>3. PeriodInv' /\ AgesInv'
    BY <1>3 DEF LoadPeriod, PeriodInv, AgesInv, Apart, shared, guest, ticks, Zero
  <2> QED
    BY <2>1, <2>2, <2>3
<1>4. CASE Disable
  <2>1. TimerType'
    BY <1>4 DEF Disable, TimerType, guest, locals, ticks
  <2>2. OffInv'
    BY <1>4, <1>k, <2>1 DEF Disable, OffInv
  <2>3. PeriodInv' /\ AgesInv'
    BY <1>4 DEF Disable, PeriodInv, AgesInv, Apart, guest, locals, ticks, Zero
  <2> QED
    BY <2>1, <2>2, <2>3
<1>5. CASE ReadClock
  <2>1. TimerType'
    BY <1>5 DEF ReadClock, TimerType, shared, guest, ticks
  <2>2. OffInv'
    BY <1>5, <1>k, <2>1 DEF ReadClock, OffInv, shared
  <2>3. PeriodInv' /\ AgesInv'
    BY <1>5, <1>a DEF ReadClock, PeriodInv, AgesInv, Apart, TimerType, shared, guest, ticks, Zero
  <2> QED
    BY <2>1, <2>2, <2>3
<1>6. CASE LoadDeadline
  <2>1. TimerType'
    BY <1>6 DEF LoadDeadline, TimerType, shared, guest, ticks
  <2>2. OffInv'
    BY <1>6, <1>k, <2>1 DEF LoadDeadline, OffInv, shared
  <2>3. PeriodInv'
    BY <1>6 DEF LoadDeadline, PeriodInv, shared, guest
  <2>4. Apart(deadline')
    <3>1. CASE timer_next_deadline = Zero
      BY <1>6, <1>a, <3>1 DEF LoadDeadline, AgesInv, PeriodInv, TimerType, Apart
    <3>2. CASE timer_next_deadline # Zero
      BY <1>6, <3>2 DEF LoadDeadline, AgesInv
    <3> QED
      BY <3>1, <3>2
  <2>5. AgesInv'
    BY <1>6, <2>4, Zenon DEF LoadDeadline, AgesInv, Apart, shared, ticks, Zero
  <2> QED
    BY <2>1, <2>2, <2>3, <2>5
<1>7. CASE Arm
  <2>1. TimerType'
    BY <1>7 DEF Arm, TimerType, guest, locals, ticks
  <2>2. OffInv'
    BY <1>7, <1>k, <2>1 DEF Arm, OffInv
  <2>3. PeriodInv' /\ AgesInv'
    BY <1>7, Zenon DEF Arm, PeriodInv, AgesInv, Apart, guest, locals, ticks, Zero
  <2> QED
    BY <2>1, <2>2, <2>3
<1>8. CASE CatchUp
  <2>1. deadline' \in Int /\ deadline' >= 0 /\ deadline' >= deadline
    BY <1>8, <1>a, Skipped DEF CatchUp, TimerType, PeriodInv
  <2>2. TimerType'
    BY <1>8, <2>1 DEF CatchUp, TimerType, shared, guest, ticks
  <2>3. OffInv'
    BY <1>8, <1>k, <2>2 DEF CatchUp, OffInv, shared
  <2>4. PeriodInv'
    BY <1>8 DEF CatchUp, PeriodInv, shared, guest
  <2>5. Apart(deadline')
    BY <1>8, <1>a, <2>1 DEF CatchUp, AgesInv, TimerType, Apart
  <2>6. AgesInv'
    BY <1>8, <2>5, Zenon DEF CatchUp, AgesInv, Apart, shared, ticks, Zero
  <2> QED
    BY <2>2, <2>3, <2>4, <2>6
<1>9. CASE StoreNext
  <2>1. TimerType'
    BY <1>9 DEF StoreNext, TimerType, guest, ticks
  <2>2. OffInv'
    BY <1>9, <1>k, <2>1 DEF StoreNext, OffInv
  <2>3. PeriodInv' /\ AgesInv'
    BY <1>9, Zenon DEF StoreNext, PeriodInv, AgesInv, Apart, guest, ticks, Zero
  <2> QED
    BY <2>1, <2>2, <2>3
<1> QED
  BY <1>1, <1>2, <1>3, <1>4, <1>5, <1>6, <1>7, <1>8, <1>9, TestStep DEF Thread

\* So does every step of the guest and of the machine around it.
LEMMA GuestStep ==
  PeriodsInv /\ ((\E v \in Values : Write(v)) \/ Reprogram \/ HaltVm \/ UNCHANGED timer)
    => PeriodsInv'
<1> SUFFICES ASSUME PeriodsInv,
                    (\E v \in Values : Write(v)) \/ Reprogram \/ HaltVm \/ UNCHANGED timer
             PROVE  PeriodsInv'
  OBVIOUS
<1> USE TimerAssumption DEF PeriodsInv
<1>a. MinPeriod \in Int /\ MinPeriod > 0 /\ MaxLag \in Int /\ Zero \in Int
  BY DEF Zero
<1>k. UNCHANGED <<thread_pc, locals, ages>> /\ timer_next_deadline' \in {Zero, timer_next_deadline}
        => AgesInv'
  BY DEF AgesInv, Apart, locals, Zero
<1>1. ASSUME NEW v \in Values, Write(v) PROVE PeriodsInv'
  <2> DEFINE p == IF v < MinPeriod THEN MinPeriod ELSE v
  <2>1. v \in Int /\ v >= 0 /\ p \in Int /\ p >= MinPeriod
    BY <1>a
  <2>2. TimerType' /\ PeriodInv'
    BY <1>1, <1>a, <2>1 DEF Write, TimerType, PeriodInv, NotWritten, shared, locals
  <2>3. OffInv'
    BY <1>1, <1>a, <2>1 DEF Write, OffInv, Off, shared
  <2> QED
    BY <1>1, <1>k, <2>2, <2>3 DEF Write, shared
<1>2. CASE StoreEnabled
  <2>1. TimerType' /\ PeriodInv' /\ OffInv'
    BY <1>2 DEF StoreEnabled, TimerType, PeriodInv, OffInv, Off, locals, ticks
  <2> QED
    BY <1>2, <1>k, <2>1 DEF StoreEnabled, ticks
<1>3. CASE StorePeriod
  <2>1. TimerType' /\ PeriodInv' /\ OffInv'
    BY <1>3 DEF StorePeriod, TimerType, PeriodInv, OffInv, Off, locals, ticks
  <2> QED
    BY <1>3, <1>k, <2>1 DEF StorePeriod, ticks
<1>4. CASE StoreDeadline
  <2>1. TimerType' /\ PeriodInv' /\ OffInv'
    BY <1>4, <1>a DEF StoreDeadline, TimerType, PeriodInv, OffInv, Off, locals, ticks
  <2> QED
    BY <1>4, <1>k, <2>1 DEF StoreDeadline, ticks
<1>5. CASE HaltVm \/ UNCHANGED timer
  <2>1. UNCHANGED <<shared, guest, thread_pc, locals, ticks>>
    BY <1>5 DEF HaltVm, timer
  <2>2. TimerType' /\ PeriodInv' /\ OffInv'
    BY <2>1 DEF TimerType, PeriodInv, OffInv, Off, shared, guest, locals, ticks
  <2> QED
    BY <1>k, <2>1, <2>2 DEF shared, ticks
<1> QED
  BY <1>1, <1>2, <1>3, <1>4, <1>5 DEF Reprogram

\* For any periods and however late the thread is: of three interrupts in a
\* row the first and the last are a minimal period apart, and at most one
\* comes after the guest has switched the timer off, whatever the order of
\* the stores of both sides.
THEOREM TimerCorrect == TimerSpec => []TicksBounded
<1>1. TimerInit => PeriodsInv
  BY PeriodInit
<1>2. PeriodsInv /\ [TimerNext]_timer => PeriodsInv'
  BY ElapseStep, ThreadStep, GuestStep DEF TimerNext, Joined
<1>3. PeriodsInv => TicksBounded
  BY TimerAssumption DEF PeriodsInv, AgesInv, OffInv, TimerType, TicksBounded, NoBurst, OneLateTick
<1> QED
  BY <1>1, <1>2, <1>3, PTL DEF TimerSpec

\* The guest never writes 0.
NeverOff == TimerInit /\ [][TimerNext /\ value' # 0]_timer

\* Once handle_programmable_tick is done, the timer is on with the period written.
StaysOn == ctl = "idle" /\ value > 0 => timer_enabled = 1 /\ timer_period = value

\* A period is stored before the thread can see that the timer is on.
OnInv ==
  /\ value \in {NotWritten} \cup (Nat \ {0}) /\ timer_period \in Nat /\ timer_enabled \in {0, 1}
  /\ ctl \in {"idle", "period", "deadline", "enable"} /\ (ctl # "idle" => value > 0)
  /\ ctl \in {"deadline", "enable"} => timer_period = value
  /\ timer_enabled = 1 \/ thread_pc = "period" => timer_period > 0
  /\ thread_pc \notin {"disable", "forget"}
  /\ StaysOn

LEMMA OnStep == OnInv /\ [TimerNext /\ value' # 0]_timer => OnInv'
<1> SUFFICES ASSUME OnInv, [TimerNext /\ value' # 0]_timer PROVE OnInv'
  OBVIOUS
<1>1. CASE \E v \in Values : Write(v) /\ value' # 0
  <2>1. PICK v \in Values : Write(v) /\ value' # 0
    BY <1>1
  <2>2. v \in Nat /\ MinPeriod \in Nat \ {0}
    BY TimerAssumption
  <2>3. value' \in Nat \ {0} /\ value' > 0 /\ ctl' = "period"
    BY <2>1, <2>2 DEF Write
  <2>4. UNCHANGED <<timer_enabled, timer_period, thread_pc>>
    BY <2>1 DEF Write, shared
  <2> QED
    BY <2>3, <2>4 DEF OnInv, StaysOn
<1>2. CASE StoreEnabled
  <2>1. ctl = "enable" /\ value > 0 /\ value # 0 /\ timer_period = value
    BY <1>2 DEF OnInv, StoreEnabled
  <2>2. /\ timer_enabled' = 1 /\ ctl' = "idle" /\ UNCHANGED <<timer_period, value, thread_pc>>
    BY <1>2, <2>1 DEF StoreEnabled
  <2> QED
    BY <2>1, <2>2 DEF OnInv, StaysOn
<1>3. CASE StorePeriod
  <2>1. /\ value > 0 /\ timer_period' = value /\ ctl' = "deadline"
        /\ UNCHANGED <<timer_enabled, value, thread_pc>>
    BY <1>3 DEF OnInv, StorePeriod
  <2>2. value \in Nat
    BY <2>1 DEF OnInv, NotWritten
  <2> QED
    BY <2>1, <2>2 DEF OnInv, StaysOn
<1>4. CASE StoreDeadline
  <2>1. /\ value > 0 /\ value # 0 /\ ctl = "deadline"
        /\ UNCHANGED <<timer_enabled, timer_period, value, thread_pc>>
    BY <1>4 DEF OnInv, StoreDeadline
  <2>2. ctl' = "enable"
    BY <1>4, <2>1 DEF StoreDeadline
  <2> QED
    BY <2>1, <2>2 DEF OnInv, StaysOn
<1>5. CASE Thread
  <2>1. UNCHANGED <<timer_enabled, timer_period, ctl, value>>
    BY <1>5 DEF Thread, Loop, ForgetDeadline, LoadPeriod, Disable, ReadClock, LoadDeadline, Arm, Test,
                CatchUp, StoreNext, OnInv, shared, guest
  <2>2. CASE Loop
    <3>1. thread_pc' \in {"done", "off"} \/ (thread_pc' = "period" /\ timer_enabled # 0)
      BY <2>2 DEF Loop, Goto
    <3> QED
      BY <2>1, <3>1 DEF OnInv, StaysOn
  <2>3. CASE LoadPeriod
    <3>1. thread_pc' = "now"
      BY <2>3 DEF LoadPeriod, Goto, OnInv
    <3> QED
      BY <2>1, <3>1 DEF OnInv, StaysOn
  <2>4. CASE ~Loop /\ ~LoadPeriod
    <3>1. thread_pc' \in {"loop", "load", "arm", "test", "next", "store"}
      BY <1>5, <2>4 DEF Thread, ForgetDeadline, Disable, ReadClock, LoadDeadline, Arm, Test,
                        CatchUp, StoreNext, OnInv, Goto
    <3> QED
      BY <2>1, <3>1 DEF OnInv, StaysOn
  <2> QED
    BY <2>2, <2>3, <2>4
<1>6. CASE HaltVm \/ Elapse \/ Joined \/ UNCHANGED timer
  <2>1. UNCHANGED <<timer_enabled, timer_period, ctl, value, thread_pc>>
    BY <1>6 DEF HaltVm, Elapse, Joined, timer, shared, guest
  <2> QED
    BY <2>1 DEF OnInv, StaysOn
<1> QED
  BY <1>1, <1>2, <1>3, <1>4, <1>5, <1>6 DEF TimerNext, Reprogram

\* A guest that never writes 0 has its timer: the thread, which switches a timer
\* off when it finds no period, never does so, whatever the order of the stores.
THEOREM TimerStaysOn == NeverOff => []StaysOn
<1>1. TimerInit => OnInv
  BY SMT DEF TimerInit, OnInv, StaysOn, NotWritten
<1>2. OnInv => StaysOn
  BY DEF OnInv
<1> QED
  BY <1>1, <1>2, OnStep, PTL DEF NeverOff
=============================================================================
